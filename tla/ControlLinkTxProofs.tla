------------------------ MODULE ControlLinkTxProofs ------------------------
(***************************************************************************)
(* What the S3's end of the control link guarantees for every number of    *)
(* controls, every capacity and budget and any number of inputs,           *)
(* connections and faults.                                                 *)
(*                                                                         *)
(* Types aside, two chains run from the USB task to the P4.  Commands are  *)
(* numbered, and the numbers grow from what the P4 took over the wire and  *)
(* the translator's hand to the queue.  And a command that the P4 will get *)
(* after the news that its connection is over ("doomed") is the only one   *)
(* of its connection, because the queue was emptied before the news went   *)
(* out and the translator holds one command: the connections of doomed     *)
(* commands strictly increase along the wire, and the number of late ones  *)
(* so far is below each of them.                                           *)
(*                                                                         *)
(* Movement is conserved: what the jog wheel reported is at the P4, on the *)
(* wire, in the translator's hand, in the scheduler's slots (two sums), or *)
(* was discarded where the code discards it.                               *)
(***************************************************************************)
EXTENDS ControlLinkTx, SumsProofs

Pcs == {"idle", "snap", "publish", "pick", "send", "mark", "fifo", "fifoSend", "cont", "contSend"}
DeltaRange == -DeltaMax - 1 .. DeltaMax
ContVal(f) == f.val \in DeltaRange \/ f.val \in AbsValues

AnyFrame == [kind : {"none", "held", "cont", "cmd", "conn"}, id : Nat, val : Int, ep : Nat]
Frames == {f \in AnyFrame :
             /\ f.kind = "held" => f.id \in HeldKeys /\ f.val \in Levels
             /\ f.kind = "conn" => f.val \in {0, 1}
             /\ f.kind = "cmd" => f.val \in Nat}
ContSlot == [assigned : BOOLEAN, dirty : BOOLEAN, f : Frames]
Positions == [AbsIds -> AbsValues \cup {Unknown}]

IsCmd(f) == f.kind = "cmd"
IsEnd(f) == f.kind = "conn" /\ f.val = 0

HeldType == /\ slots \in [HeldKeys -> Slot]
            /\ p4Level \in [HeldKeys -> Levels \cup {Unknown}] /\ p4Conn \in {Unknown, 0, 1}
MapType == map \in Positions /\ snap \in [Tasks -> Positions]
FifoType == fifo \in Seq(Frames) /\ Len(fifo) <= FifoCap /\ \A i \in 1 .. Len(fifo) : IsCmd(fifo[i])
ContType ==
  /\ cont \in [ContSlots -> ContSlot] /\ contCursor \in ContSlots
  /\ \A c \in ContSlots :
       /\ cont[c].dirty => cont[c].assigned
       /\ cont[c].f.kind \in {"none", "cont"} /\ ContVal(cont[c].f)
       /\ \A d \in ContSlots : ScheduledIn(d, cont[c].f) /\ cont[c].assigned => c = d
ConnType == /\ connected \in BOOLEAN /\ connValid \in BOOLEAN /\ (connected => connValid)
            /\ epoch \in Nat /\ (connected => epoch # 0)
TaskType ==
  /\ pc \in [Tasks -> Pcs] /\ hand \in [Tasks -> Frames]
  /\ \A t \in Tasks : /\ pc[t] \in {"send", "mark"} => hand[t].kind = "held"
                      /\ IsCmd(hand[t]) => t = "tx" /\ pc[t] = "fifoSend"
                      /\ ~IsEnd(hand[t])
  /\ budget \in 0 .. FifoBudget \cup 0 .. ContBudget
WireType == wire \in Seq(Frames) /\ Len(wire) <= WireCap
CountType == late \in Nat /\ p4Ended \in Nat /\ p4Cmd \in Nat /\ nCmds \in Nat
Types == /\ HeldType /\ MapType /\ FifoType /\ ContType /\ ConnType /\ TaskType /\ WireType
         /\ CountType

\* The P4 will know of the end of the command's connection when it gets it.
Doomed(w, ended, i) ==
  /\ IsCmd(w[i])
  /\ \/ w[i].ep <= ended
     \/ \E j \in 1 .. i - 1 : IsEnd(w[j]) /\ w[i].ep <= w[j].ep

\* The news on the wire is of connections that are over, in their order.
EndsInOrder(w, ended, over) ==
  /\ ended <= over
  /\ \A i \in 1 .. Len(w) : IsEnd(w[i]) =>
       /\ ended <= w[i].ep /\ w[i].ep <= over
       /\ \A j \in 1 .. i - 1 : IsEnd(w[j]) => w[j].ep <= w[i].ep

OneDoomedEach(w, ended, n) ==
  /\ n <= ended
  /\ \A i \in 1 .. Len(w) : Doomed(w, ended, i) =>
       /\ n < w[i].ep
       /\ \A j \in 1 .. i - 1 : Doomed(w, ended, j) => w[j].ep < w[i].ep

Numbered(w, last) ==
  \A i \in 1 .. Len(w) : IsCmd(w[i]) =>
    /\ last < w[i].val
    /\ \A j \in 1 .. i - 1 : IsCmd(w[j]) => w[j].val < w[i].val

\* The connections that are over.
Over == IF connected THEN epoch - 1 ELSE epoch

\* A command of a connection that is over, if the translator holds one.
HandLate ==
  IsCmd(hand["tx"]) =>
    /\ hand["tx"].ep <= epoch
    /\ hand["tx"].ep <= Over =>
         /\ late < hand["tx"].ep
         /\ \A i \in 1 .. Len(wire) : Doomed(wire, p4Ended, i) => wire[i].ep < hand["tx"].ep

LateInv == EndsInOrder(wire, p4Ended, Over) /\ OneDoomedEach(wire, p4Ended, late) /\ HandLate

\* After(f, q): every command of q comes after f.
After(n, q) == \A i \in 1 .. Len(q) : IsCmd(q[i]) => n < q[i].val
Before(q, n) == \A i \in 1 .. Len(q) : IsCmd(q[i]) => q[i].val <= n

OrderInv ==
  /\ Numbered(wire, p4Cmd) /\ Numbered(fifo, p4Cmd) /\ p4Cmd <= nCmds
  /\ Before(wire, nCmds) /\ Before(fifo, nCmds)
  /\ \A i \in 1 .. Len(wire), j \in 1 .. Len(fifo) : IsCmd(wire[i]) => wire[i].val < fifo[j].val
  /\ IsCmd(hand["tx"]) =>
       /\ p4Cmd < hand["tx"].val /\ hand["tx"].val <= nCmds /\ After(hand["tx"].val, fifo)
       /\ \A i \in 1 .. Len(wire) : IsCmd(wire[i]) => wire[i].val < hand["tx"].val

IInv == Types /\ SchedulerFresh /\ LateInv /\ OrderInv

-----------------------------------------------------------------------------
(* Sequences of frames.                                                    *)

\* The entries of a sequence with one more at its end.
LEMMA AppendEntries ==
  ASSUME NEW S, NEW w \in Seq(S), NEW f \in S
  PROVE  /\ Append(w, f) \in Seq(S) /\ Len(w) \in Nat
         /\ Len(Append(w, f)) = Len(w) + 1 /\ Append(w, f)[Len(w) + 1] = f
         /\ \A i \in 1 .. Len(w) : Append(w, f)[i] = w[i]
OBVIOUS

\* The entries of a sequence without its first.
LEMMA TailEntries ==
  ASSUME NEW S, NEW w \in Seq(S), w # <<>>
  PROVE  /\ Tail(w) \in Seq(S) /\ Len(w) \in Nat \ {0} /\ Len(Tail(w)) = Len(w) - 1
         /\ Head(w) = w[1] /\ w[1] \in S
         /\ \A i \in 1 .. Len(Tail(w)) : i + 1 \in 1 .. Len(w) /\ Tail(w)[i] = w[i + 1]
OBVIOUS

\* A frame at the end dooms no command before it.
LEMMA DoomedPrefix ==
  ASSUME NEW w \in Seq(Frames), NEW f \in Frames, NEW e \in Nat, NEW i \in 1 .. Len(w)
  PROVE  Doomed(Append(w, f), e, i) <=> Doomed(w, e, i)
<1> DEFINE a == Append(w, f)
<1>1. Len(w) \in Nat /\ \A j \in 1 .. Len(w) : a[j] = w[j]
  BY AppendEntries
<1> HIDE DEF a
<1>2. a[i] = w[i] /\ \A j \in 1 .. i - 1 : a[j] = w[j]
  BY <1>1
<1>3. Doomed(a, e, i) <=> Doomed(w, e, i)
  BY <1>2 DEF Doomed
<1> QED
  BY <1>3 DEF a

\* Some other frame at the end changes nothing about commands and ends.
LEMMA AppendPlain ==
  ASSUME NEW w \in Seq(Frames), NEW f \in Frames, NEW e \in Nat, NEW o \in Nat, NEW n \in Nat,
         NEW last \in Nat, ~IsCmd(f), ~IsEnd(f)
  PROVE  /\ EndsInOrder(w, e, o) => EndsInOrder(Append(w, f), e, o)
         /\ OneDoomedEach(w, e, n) => OneDoomedEach(Append(w, f), e, n)
         /\ Numbered(w, last) => Numbered(Append(w, f), last)
<1> DEFINE a == Append(w, f)
<1>1. /\ Len(w) \in Nat /\ Len(a) = Len(w) + 1 /\ a[Len(w) + 1] = f
      /\ \A i \in 1 .. Len(w) : a[i] = w[i]
  BY AppendEntries
<1>2. \A i \in 1 .. Len(w) : Doomed(a, e, i) <=> Doomed(w, e, i)
  BY DoomedPrefix
<1> HIDE DEF a
<1>3. ~Doomed(a, e, Len(w) + 1)
  BY <1>1 DEF Doomed
<1>4. ASSUME NEW i \in 1 .. Len(a) PROVE i \in 1 .. Len(w) \/ i = Len(w) + 1
  BY <1>1
<1>5. ASSUME EndsInOrder(w, e, o) PROVE EndsInOrder(a, e, o)
  BY <1>1, <1>4, <1>5 DEF EndsInOrder
<1>6. ASSUME OneDoomedEach(w, e, n) PROVE OneDoomedEach(a, e, n)
  BY <1>1, <1>2, <1>3, <1>4, <1>6 DEF OneDoomedEach
<1>7. ASSUME Numbered(w, last) PROVE Numbered(a, last)
  BY <1>1, <1>4, <1>7 DEF Numbered
<1> QED
  BY <1>5, <1>6, <1>7 DEF a

\* The news of the latest connection that is over.
LEMMA AppendEnd ==
  ASSUME NEW w \in Seq(Frames), NEW f \in Frames, NEW e \in Nat, NEW o \in Nat, NEW n \in Nat,
         NEW last \in Nat, IsEnd(f), f.ep = o
  PROVE  /\ EndsInOrder(w, e, o) => EndsInOrder(Append(w, f), e, o)
         /\ OneDoomedEach(w, e, n) => OneDoomedEach(Append(w, f), e, n)
         /\ Numbered(w, last) => Numbered(Append(w, f), last)
<1> DEFINE a == Append(w, f)
<1>1. /\ Len(w) \in Nat /\ Len(a) = Len(w) + 1 /\ a[Len(w) + 1] = f
      /\ \A i \in 1 .. Len(w) : a[i] = w[i]
  BY AppendEntries
<1>2. \A i \in 1 .. Len(w) : Doomed(a, e, i) <=> Doomed(w, e, i)
  BY DoomedPrefix
<1> HIDE DEF a
<1>0. ~IsCmd(f)
  BY DEF IsCmd, IsEnd
<1>3. ~Doomed(a, e, Len(w) + 1)
  BY <1>0, <1>1 DEF Doomed
<1>4. ASSUME NEW i \in 1 .. Len(a) PROVE i \in 1 .. Len(w) \/ i = Len(w) + 1
  BY <1>1
<1>5. ASSUME EndsInOrder(w, e, o) PROVE EndsInOrder(a, e, o)
  BY <1>1, <1>4, <1>5 DEF EndsInOrder
<1>6. ASSUME OneDoomedEach(w, e, n) PROVE OneDoomedEach(a, e, n)
  BY <1>1, <1>2, <1>3, <1>4, <1>6 DEF OneDoomedEach
<1>7. ASSUME Numbered(w, last) PROVE Numbered(a, last)
  BY <1>0, <1>1, <1>4, <1>7 DEF Numbered
<1> QED
  BY <1>5, <1>6, <1>7 DEF a

\* A command of the open connection is not doomed; one of a connection that is
\* over may be, and is then the first of its connection.
LEMMA AppendCmd ==
  ASSUME NEW w \in Seq(Frames), NEW f \in Frames, NEW e \in Nat, NEW o \in Nat, NEW n \in Nat,
         NEW last \in Nat, IsCmd(f),
         EndsInOrder(w, e, o), OneDoomedEach(w, e, n), Numbered(w, last),
         f.ep <= o => n < f.ep /\ \A i \in 1 .. Len(w) : Doomed(w, e, i) => w[i].ep < f.ep,
         last < f.val, \A i \in 1 .. Len(w) : IsCmd(w[i]) => w[i].val < f.val
  PROVE  /\ EndsInOrder(Append(w, f), e, o) /\ OneDoomedEach(Append(w, f), e, n)
         /\ Numbered(Append(w, f), last)
<1> DEFINE a == Append(w, f)
<1>1. /\ Len(w) \in Nat /\ Len(a) = Len(w) + 1 /\ a[Len(w) + 1] = f
      /\ \A i \in 1 .. Len(w) : a[i] = w[i]
  BY AppendEntries
<1>2. \A i \in 1 .. Len(w) : Doomed(a, e, i) <=> Doomed(w, e, i)
  BY DoomedPrefix
<1> HIDE DEF a
<1>0. ~IsEnd(f) /\ f.ep \in Nat
  BY DEF IsCmd, IsEnd, Frames, AnyFrame
<1>3. ASSUME Doomed(a, e, Len(w) + 1) PROVE f.ep <= o
  <2>1. CASE f.ep <= e
    BY <1>0, <2>1 DEF EndsInOrder
  <2>2. CASE \E j \in 1 .. Len(w) : IsEnd(a[j]) /\ f.ep <= a[j].ep
    <3>1. PICK j \in 1 .. Len(w) : IsEnd(w[j]) /\ f.ep <= w[j].ep
      BY <1>1, <2>2
    <3>2. w[j].ep <= o /\ w[j].ep \in Nat
      <4>1. w[j] \in Frames
        OBVIOUS
      <4> QED
        BY <3>1, <4>1 DEF EndsInOrder, Frames, AnyFrame
    <3> QED
      BY <1>0, <3>1, <3>2
  <2> QED
    BY <1>1, <1>3, <2>1, <2>2 DEF Doomed
<1>4. ASSUME NEW i \in 1 .. Len(a) PROVE i \in 1 .. Len(w) \/ i = Len(w) + 1
  BY <1>1
<1>5. EndsInOrder(a, e, o)
  <2> SUFFICES ASSUME NEW i \in 1 .. Len(a), IsEnd(a[i])
               PROVE  /\ e <= a[i].ep /\ a[i].ep <= o
                      /\ \A j \in 1 .. i - 1 : IsEnd(a[j]) => a[j].ep <= a[i].ep
    BY DEF EndsInOrder
  <2>1. i \in 1 .. Len(w) /\ a[i] = w[i] /\ \A j \in 1 .. i - 1 : a[j] = w[j]
    BY <1>0, <1>1, <1>4
  <2> QED
    BY <2>1 DEF EndsInOrder
<1>6. OneDoomedEach(a, e, n)
  BY <1>1, <1>2, <1>3, <1>4 DEF OneDoomedEach
<1>7. Numbered(a, last)
  BY <1>1, <1>4 DEF Numbered
<1> QED
  BY <1>5, <1>6, <1>7 DEF a

\* The frame at the head is lost.
LEMMA TailLost ==
  ASSUME NEW w \in Seq(Frames), w # <<>>, NEW e \in Nat, NEW o \in Nat, NEW n \in Nat,
         NEW last \in Nat
  PROVE  /\ EndsInOrder(w, e, o) => EndsInOrder(Tail(w), e, o)
         /\ OneDoomedEach(w, e, n) => OneDoomedEach(Tail(w), e, n)
         /\ Numbered(w, last) => Numbered(Tail(w), last)
         /\ \A i \in 1 .. Len(Tail(w)) : Doomed(Tail(w), e, i) => Doomed(w, e, i + 1)
<1> DEFINE t == Tail(w)
<1>1. /\ Len(w) \in Nat \ {0} /\ Len(t) = Len(w) - 1
      /\ \A i \in 1 .. Len(t) : i + 1 \in 1 .. Len(w) /\ t[i] = w[i + 1]
  BY TailEntries
<1> HIDE DEF t
<1>2. ASSUME NEW i \in 1 .. Len(t), NEW j \in 1 .. i - 1
      PROVE  j \in 1 .. Len(t) /\ j + 1 \in 1 .. (i + 1) - 1 /\ t[j] = w[j + 1]
  BY <1>1
<1>3. ASSUME NEW i \in 1 .. Len(t), Doomed(t, e, i) PROVE Doomed(w, e, i + 1)
  BY <1>1, <1>2, <1>3 DEF Doomed
<1>4. ASSUME EndsInOrder(w, e, o) PROVE EndsInOrder(t, e, o)
  <2> SUFFICES ASSUME NEW i \in 1 .. Len(t), IsEnd(t[i])
               PROVE  /\ e <= t[i].ep /\ t[i].ep <= o
                      /\ \A j \in 1 .. i - 1 : IsEnd(t[j]) => t[j].ep <= t[i].ep
    BY <1>4 DEF EndsInOrder
  <2> QED
    BY <1>1, <1>2, <1>4 DEF EndsInOrder
<1>5. ASSUME OneDoomedEach(w, e, n) PROVE OneDoomedEach(t, e, n)
  <2> SUFFICES ASSUME NEW i \in 1 .. Len(t), Doomed(t, e, i)
               PROVE  /\ n < t[i].ep
                      /\ \A j \in 1 .. i - 1 : Doomed(t, e, j) => t[j].ep < t[i].ep
    BY <1>5 DEF OneDoomedEach
  <2> QED
    BY <1>1, <1>2, <1>3, <1>5 DEF OneDoomedEach
<1>6. ASSUME Numbered(w, last) PROVE Numbered(t, last)
  <2> SUFFICES ASSUME NEW i \in 1 .. Len(t), IsCmd(t[i])
               PROVE  /\ last < t[i].val
                      /\ \A j \in 1 .. i - 1 : IsCmd(t[j]) => t[j].val < t[i].val
    BY DEF Numbered
  <2> QED
    BY <1>1, <1>2, <1>6 DEF Numbered
<1> QED
  BY <1>3, <1>4, <1>5, <1>6 DEF t

\* The P4 takes the frame at the head.
LEMMA TailTaken ==
  ASSUME NEW w \in Seq(Frames), w # <<>>, NEW e \in Nat, NEW o \in Nat, NEW n \in Nat,
         NEW last \in Nat, NEW e2, NEW n2, NEW last2,
         e2 = IF IsEnd(Head(w)) THEN Head(w).ep ELSE e,
         n2 = IF IsCmd(Head(w)) /\ Head(w).ep <= e THEN n + 1 ELSE n,
         last2 = IF IsCmd(Head(w)) THEN Head(w).val ELSE last,
         EndsInOrder(w, e, o), OneDoomedEach(w, e, n), Numbered(w, last)
  PROVE  /\ e2 \in Nat /\ n2 \in Nat /\ last2 \in Nat
         /\ EndsInOrder(Tail(w), e2, o) /\ OneDoomedEach(Tail(w), e2, n2)
         /\ Numbered(Tail(w), last2)
         /\ \A i \in 1 .. Len(Tail(w)) : Doomed(Tail(w), e2, i) => Doomed(w, e, i + 1)
         /\ n2 # n => Doomed(w, e, 1)
<1> DEFINE t == Tail(w)
<1>1. /\ Len(w) \in Nat \ {0} /\ Len(t) = Len(w) - 1 /\ Head(w) = w[1] /\ w[1] \in Frames
      /\ \A i \in 1 .. Len(t) : i + 1 \in 1 .. Len(w) /\ t[i] = w[i + 1]
  BY TailEntries
<1> HIDE DEF t
<1>2. ASSUME NEW i \in 1 .. Len(t), NEW j \in 1 .. i - 1
      PROVE  j \in 1 .. Len(t) /\ j + 1 \in 1 .. (i + 1) - 1 /\ t[j] = w[j + 1]
  BY <1>1
<1>3. w[1].ep \in Nat /\ (IsCmd(w[1]) => w[1].val \in Nat) /\ 1 \in 1 .. Len(w)
  BY <1>1 DEF Frames, AnyFrame, IsCmd
<1>4. e2 \in Nat /\ n2 \in Nat /\ last2 \in Nat
  BY <1>1, <1>3
<1>5. ASSUME NEW i \in 1 .. Len(t), Doomed(t, e2, i) PROVE Doomed(w, e, i + 1)
  <2>1. IsCmd(w[i + 1]) /\ t[i] = w[i + 1] /\ 1 \in 1 .. (i + 1) - 1
    BY <1>1, <1>5 DEF Doomed
  <2>2. CASE t[i].ep <= e2
    BY <1>1, <2>1, <2>2 DEF Doomed
  <2>3. CASE \E j \in 1 .. i - 1 : IsEnd(t[j]) /\ t[i].ep <= t[j].ep
    BY <1>2, <2>1, <2>3 DEF Doomed
  <2> QED
    BY <1>5, <2>2, <2>3 DEF Doomed
<1>6. n2 # n => Doomed(w, e, 1)
  BY <1>1 DEF Doomed
<1>7. EndsInOrder(t, e2, o)
  <2>1. e2 <= o
    BY <1>1, <1>3 DEF EndsInOrder
  <2>2. ASSUME NEW i \in 1 .. Len(t), IsEnd(t[i])
        PROVE  /\ e2 <= t[i].ep /\ t[i].ep <= o
               /\ \A j \in 1 .. i - 1 : IsEnd(t[j]) => t[j].ep <= t[i].ep
    <3>1. /\ i + 1 \in 1 .. Len(w) /\ t[i] = w[i + 1] /\ 1 \in 1 .. (i + 1) - 1
          /\ IsEnd(w[i + 1])
      BY <1>1, <2>2
    <3>2. /\ e <= w[i + 1].ep /\ w[i + 1].ep <= o
          /\ \A j \in 1 .. (i + 1) - 1 : IsEnd(w[j]) => w[j].ep <= w[i + 1].ep
      BY <3>1 DEF EndsInOrder
    <3> QED
      BY <1>1, <1>2, <3>1, <3>2
  <2> QED
    BY <2>1, <2>2 DEF EndsInOrder
<1>8. OneDoomedEach(t, e2, n2)
  <2>1. n2 <= e2
    <3>1. n <= e /\ e \in Nat /\ n \in Nat
      BY DEF OneDoomedEach
    <3>2. CASE n2 # n
      <4>1. Doomed(w, e, 1) /\ IsCmd(w[1]) /\ w[1].ep <= e /\ n2 = n + 1
        BY <1>1, <1>6, <3>2
      <4>2. n < w[1].ep
        BY <1>3, <4>1 DEF OneDoomedEach
      <4>3. e2 = e
        BY <1>1, <4>1 DEF IsCmd, IsEnd
      <4> QED
        BY <1>3, <3>1, <4>1, <4>2, <4>3
    <3>3. CASE n2 = n
      <4>1. IsEnd(w[1]) => e <= w[1].ep
        BY <1>3 DEF EndsInOrder
      <4> QED
        BY <1>1, <1>3, <3>1, <3>3, <4>1
    <3> QED
      BY <3>2, <3>3
  <2>2. ASSUME NEW i \in 1 .. Len(t), Doomed(t, e2, i)
        PROVE  /\ n2 < t[i].ep
               /\ \A j \in 1 .. i - 1 : Doomed(t, e2, j) => t[j].ep < t[i].ep
    <3>1. /\ i + 1 \in 1 .. Len(w) /\ t[i] = w[i + 1] /\ 1 \in 1 .. (i + 1) - 1
          /\ Doomed(w, e, i + 1) /\ w[i + 1] \in Frames
      BY <1>1, <1>5, <2>2
    <3>2. /\ n < w[i + 1].ep
          /\ \A j \in 1 .. (i + 1) - 1 : Doomed(w, e, j) => w[j].ep < w[i + 1].ep
      BY <3>1 DEF OneDoomedEach
    <3>3. n2 < t[i].ep
      <4>1. CASE n2 = n
        BY <3>1, <3>2, <4>1
      <4>2. CASE n2 # n
        <5>1. Doomed(w, e, 1) /\ n2 = n + 1 /\ n < w[1].ep
          BY <1>1, <1>3, <1>6, <4>2 DEF OneDoomedEach
        <5>2. w[1].ep < w[i + 1].ep /\ w[i + 1].ep \in Nat
          BY <3>1, <3>2, <5>1 DEF Frames, AnyFrame
        <5> QED
          BY <1>3, <3>1, <5>1, <5>2
      <4> QED
        BY <4>1, <4>2
    <3> QED
      BY <1>2, <1>5, <3>1, <3>2, <3>3
  <2> QED
    BY <2>1, <2>2 DEF OneDoomedEach
<1>9. Numbered(t, last2)
  <2> SUFFICES ASSUME NEW i \in 1 .. Len(t), IsCmd(t[i])
               PROVE  /\ last2 < t[i].val
                      /\ \A j \in 1 .. i - 1 : IsCmd(t[j]) => t[j].val < t[i].val
    BY DEF Numbered
  <2>1. /\ i + 1 \in 1 .. Len(w) /\ t[i] = w[i + 1] /\ 1 \in 1 .. (i + 1) - 1
        /\ IsCmd(w[i + 1])
    BY <1>1
  <2>2. /\ last < w[i + 1].val
        /\ \A j \in 1 .. (i + 1) - 1 : IsCmd(w[j]) => w[j].val < w[i + 1].val
    BY <2>1 DEF Numbered
  <2> QED
    BY <1>1, <1>2, <2>1, <2>2
<1> QED
  BY <1>4, <1>5, <1>6, <1>7, <1>8, <1>9 DEF t

-----------------------------------------------------------------------------
(* The chains.                                                             *)

\* What a step leaves alone that touches neither the wire, nor the queue, nor
\* a command in the translator's hand.
LEMMA ChainSame ==
  ASSUME IInv, UNCHANGED <<wire, fifo, connected, epoch, p4Ended, late, p4Cmd, nCmds>>,
         IsCmd(hand'["tx"]) => hand'["tx"] = hand["tx"]
  PROVE  LateInv' /\ OrderInv' /\ WireType' /\ FifoType' /\ CountType'
<1>1. Over' = Over
  BY DEF Over
<1>2. LateInv'
  BY <1>1 DEF IInv, LateInv, HandLate
<1>3. OrderInv'
  BY DEF IInv, OrderInv
<1> QED
  BY <1>2, <1>3 DEF IInv, Types, WireType, FifoType, CountType

\* A frame that is no command goes out, news of an end only of the latest.
LEMMA ChainSend ==
  ASSUME IInv, NEW f \in Frames, ~IsCmd(f), IsEnd(f) => f.ep = Over,
         Len(wire) < WireCap, wire' = Append(wire, f),
         UNCHANGED <<fifo, connected, epoch, p4Ended, late, p4Cmd, nCmds>>,
         IsCmd(hand'["tx"]) => hand'["tx"] = hand["tx"]
  PROVE  LateInv' /\ OrderInv' /\ WireType' /\ FifoType' /\ CountType'
<1>1. Over' = Over /\ Over \in Nat
  BY DEF Over, IInv, Types, ConnType
<1>2. /\ wire \in Seq(Frames) /\ p4Ended \in Nat /\ late \in Nat /\ p4Cmd \in Nat
      /\ LateInv /\ OrderInv
  BY DEF IInv, Types, WireType, CountType
<1>3. EndsInOrder(wire', p4Ended, Over) /\ OneDoomedEach(wire', p4Ended, late) /\ Numbered(wire', p4Cmd)
  <2>1. EndsInOrder(wire, p4Ended, Over) /\ OneDoomedEach(wire, p4Ended, late) /\ Numbered(wire, p4Cmd)
    BY <1>2 DEF LateInv, OrderInv
  <2>2. CASE IsEnd(f)
    BY <1>1, <1>2, <2>1, <2>2, AppendEnd
  <2>3. CASE ~IsEnd(f)
    BY <1>1, <1>2, <2>1, <2>3, AppendPlain
  <2> QED
    BY <2>2, <2>3
<1>4. /\ Len(wire) \in Nat /\ Len(wire') = Len(wire) + 1 /\ wire'[Len(wire) + 1] = f
      /\ wire' \in Seq(Frames) /\ \A i \in 1 .. Len(wire) : wire'[i] = wire[i]
  BY <1>2, AppendEntries
<1>5. \A i \in 1 .. Len(wire) : Doomed(wire', p4Ended, i) <=> Doomed(wire, p4Ended, i)
  BY <1>2, DoomedPrefix
<1>6. ASSUME NEW i \in 1 .. Len(wire')
      PROVE  (IsCmd(wire'[i]) \/ Doomed(wire', p4Ended, i)) => i \in 1 .. Len(wire)
  BY <1>4 DEF Doomed
<1>7. HandLate'
  <2> SUFFICES ASSUME IsCmd(hand'["tx"])
               PROVE  /\ hand'["tx"].ep <= epoch
                      /\ hand'["tx"].ep <= Over =>
                           /\ late < hand'["tx"].ep
                           /\ \A i \in 1 .. Len(wire') :
                                Doomed(wire', p4Ended, i) => wire'[i].ep < hand'["tx"].ep
    BY <1>1 DEF HandLate
  <2>1. HandLate /\ hand'["tx"] = hand["tx"]
    BY <1>2 DEF LateInv
  <2> QED
    BY <1>4, <1>5, <1>6, <2>1 DEF HandLate
<1>8. LateInv'
  BY <1>1, <1>3, <1>7 DEF LateInv
<1>9. OrderInv'
  <2>1. Before(wire', nCmds)
    BY <1>2, <1>4, <1>6 DEF OrderInv, Before
  <2>2. \A i \in 1 .. Len(wire'), j \in 1 .. Len(fifo) :
           IsCmd(wire'[i]) => wire'[i].val < fifo[j].val
    BY <1>2, <1>4, <1>6 DEF OrderInv
  <2>3. IsCmd(hand'["tx"]) =>
          /\ p4Cmd < hand["tx"].val /\ hand["tx"].val <= nCmds /\ After(hand["tx"].val, fifo)
          /\ \A i \in 1 .. Len(wire') : IsCmd(wire'[i]) => wire'[i].val < hand["tx"].val
    BY <1>2, <1>4, <1>6 DEF OrderInv
  <2> QED
    BY <1>2, <1>3, <2>1, <2>2, <2>3 DEF OrderInv
<1>10. WireType'
  BY <1>4, TxAssumption DEF WireType
<1>11. FifoType' /\ CountType'
  BY DEF IInv, Types, FifoType, CountType
<1> QED
  BY <1>8, <1>9, <1>10, <1>11

\* The same for a send that may also fail.
LEMMA ChainTry ==
  ASSUME IInv, NEW f \in Frames, ~IsCmd(f), IsEnd(f) => f.ep = Over, Transmit(f) \/ Fail(f),
         UNCHANGED <<fifo, connected, epoch, p4Ended, late, p4Cmd, nCmds>>,
         IsCmd(hand'["tx"]) => hand'["tx"] = hand["tx"]
  PROVE  LateInv' /\ OrderInv' /\ WireType' /\ FifoType' /\ CountType'
<1>1. CASE Transmit(f)
  BY <1>1, ChainSend DEF Transmit
<1>2. CASE Fail(f)
  BY <1>2, ChainSame DEF Fail
<1> QED
  BY <1>1, <1>2

-----------------------------------------------------------------------------
(* Types.                                                                  *)

\* The frames the tasks make.
LEMMA FrameTypes ==
  ASSUME IInv
  PROVE  /\ NoFrame \in Frames /\ ~IsCmd(NoFrame) /\ ~IsEnd(NoFrame)
         /\ \A k \in HeldKeys, v \in Levels : /\ Frame("held", k, v) \in Frames
                                              /\ ~IsCmd(Frame("held", k, v))
                                              /\ ~IsEnd(Frame("held", k, v))
         /\ \A i \in Nat, v \in Int : /\ Frame("cont", i, v) \in Frames
                                      /\ ~IsCmd(Frame("cont", i, v))
                                      /\ ~IsEnd(Frame("cont", i, v))
         /\ \A v \in {0, 1} : Frame("conn", 0, v) \in Frames /\ ~IsCmd(Frame("conn", 0, v))
         /\ \A v \in Nat : Frame("cmd", 0, v) \in Frames /\ IsCmd(Frame("cmd", 0, v))
<1>1. epoch \in Nat
  BY DEF IInv, Types, ConnType
<1>2. Levels \subseteq Int /\ HeldKeys \subseteq Nat
  BY HeldAssumption DEF HeldKeys
<1>3. NoFrame \in Frames /\ ~IsCmd(NoFrame) /\ ~IsEnd(NoFrame)
  BY DEF NoFrame, Frames, AnyFrame, IsCmd, IsEnd
<1>4. ASSUME NEW k \in HeldKeys, NEW v \in Levels
      PROVE  Frame("held", k, v) \in Frames /\ ~IsCmd(Frame("held", k, v)) /\ ~IsEnd(Frame("held", k, v))
  BY <1>1, <1>2 DEF Frame, Frames, AnyFrame, IsCmd, IsEnd
<1>5. ASSUME NEW i \in Nat, NEW v \in Int
      PROVE  Frame("cont", i, v) \in Frames /\ ~IsCmd(Frame("cont", i, v)) /\ ~IsEnd(Frame("cont", i, v))
  BY <1>1 DEF Frame, Frames, AnyFrame, IsCmd, IsEnd
<1>6. ASSUME NEW v \in {0, 1}
      PROVE  Frame("conn", 0, v) \in Frames /\ ~IsCmd(Frame("conn", 0, v))
  BY <1>1 DEF Frame, Frames, AnyFrame, IsCmd
<1>7. ASSUME NEW v \in Nat
      PROVE  Frame("cmd", 0, v) \in Frames /\ IsCmd(Frame("cmd", 0, v))
  BY <1>1 DEF Frame, Frames, AnyFrame, IsCmd
<1> QED
  BY <1>3, <1>4, <1>5, <1>6, <1>7

\* One task moves on, with what it now holds.
LEMMA TaskMoves ==
  ASSUME TaskType, NEW t \in Tasks, NEW l \in Pcs, Goto(t, l), NEW g \in Frames,
         hand' = [hand EXCEPT ![t] = g],
         l \in {"send", "mark"} => g.kind = "held",
         IsCmd(g) => t = "tx" /\ l = "fifoSend", ~IsEnd(g),
         budget' \in 0 .. FifoBudget \cup 0 .. ContBudget
  PROVE  TaskType'
<1>1. pc' \in [Tasks -> Pcs] /\ hand' \in [Tasks -> Frames]
  BY DEF TaskType, Goto
<1>2. ASSUME NEW s \in Tasks
      PROVE  /\ pc'[s] \in {"send", "mark"} => hand'[s].kind = "held"
             /\ IsCmd(hand'[s]) => s = "tx" /\ pc'[s] = "fifoSend"
             /\ ~IsEnd(hand'[s])
  <2>1. CASE s = t
    <3>1. pc'[s] = l /\ hand'[s] = g
      BY <2>1 DEF TaskType, Goto
    <3> QED
      BY <2>1, <3>1
  <2>2. CASE s # t
    <3>1. pc'[s] = pc[s] /\ hand'[s] = hand[s]
      BY <2>2 DEF TaskType, Goto
    <3> QED
      BY <3>1 DEF TaskType
  <2> QED
    BY <2>1, <2>2
<1> QED
  BY <1>1, <1>2 DEF TaskType

\* ... or with what it held, which is no command and not being sent.
LEMMA TaskSteps ==
  ASSUME TaskType, NEW t \in Tasks, NEW l \in Pcs, Goto(t, l), UNCHANGED hand,
         l \in {"send", "mark"} => hand[t].kind = "held", ~IsCmd(hand[t]),
         budget' \in 0 .. FifoBudget \cup 0 .. ContBudget
  PROVE  TaskType'
<1>1. hand[t] \in Frames /\ hand' = [hand EXCEPT ![t] = hand[t]] /\ ~IsEnd(hand[t])
  BY DEF TaskType
<1> QED
  BY <1>1, TaskMoves

\* Observing a level, marking it sent and releasing all keep slots slots.
LEMMA SlotTypes ==
  ASSUME NEW s \in Slot, NEW v \in Levels
  PROVE  Observe(s, v) \in Slot /\ MarkScheduled(s, v) \in Slot
BY DEF Slot, Observe, MarkScheduled, NeedsSchedule

-----------------------------------------------------------------------------
\* At first nothing is known, connected, scheduled or on its way.
LEMMA InitInv == Init => IInv
<1> SUFFICES ASSUME Init PROVE IInv
  OBVIOUS
<1> USE DEF Init
<1>0. NoFrame \in Frames /\ ~IsCmd(NoFrame) /\ ~IsEnd(NoFrame) /\ NoFrame.val = 0 /\ NoFrame.kind = "none"
  BY DEF NoFrame, Frames, AnyFrame, IsCmd, IsEnd
<1>1. HeldType
  BY HeldAssumption DEF HeldType, ResetSlots, Slot
<1>2. MapType
  BY DEF MapType, Positions, NothingKnown
<1>3. <<>> \in Seq(Frames) /\ Len(<<>>) = 0
  OBVIOUS
<1>4. FifoType /\ WireType
  BY <1>3, TxAssumption DEF FifoType, WireType
<1>5. ContType
  <2>1. FreeSlot \in ContSlot
    BY <1>0 DEF FreeSlot, ContSlot
  <2>2. cont \in [ContSlots -> ContSlot] /\ contCursor \in ContSlots
    BY <2>1, TxAssumption DEF ContSlots
  <2>3. ASSUME NEW c \in ContSlots
        PROVE  /\ ~cont[c].dirty /\ ~cont[c].assigned /\ cont[c].f = NoFrame
    BY DEF FreeSlot
  <2>4. 0 \in DeltaRange
    BY TxAssumption DEF DeltaRange
  <2> QED
    BY <1>0, <2>2, <2>3, <2>4 DEF ContType, ContVal
<1>6. ConnType
  BY DEF ConnType
<1>7. TaskType
  <2>1. pc \in [Tasks -> Pcs] /\ hand \in [Tasks -> Frames]
    BY <1>0 DEF Pcs
  <2>2. budget \in 0 .. FifoBudget
    BY TxAssumption
  <2> QED
    BY <1>0, <2>1, <2>2 DEF TaskType
<1>8. CountType
  BY DEF CountType
<1>9. SchedulerFresh
  BY <1>3 DEF SchedulerFresh, FreeSlot
<1>10. LateInv
  <2>1. ~IsCmd(hand["tx"])
    BY <1>0 DEF Tasks
  <2> QED
    BY <1>3, <2>1 DEF LateInv, EndsInOrder, OneDoomedEach, HandLate, Over
<1>11. OrderInv
  <2>1. ~IsCmd(hand["tx"])
    BY <1>0 DEF Tasks
  <2> QED
    BY <1>3, <2>1 DEF OrderInv, Numbered, Before, After
<1> QED
  BY <1>1, <1>2, <1>4, <1>5, <1>6, <1>7, <1>8, <1>9, <1>10, <1>11 DEF IInv, Types

-----------------------------------------------------------------------------
(* The USB task.                                                           *)

\* The newest sample replaces the one scheduled for its control, is added to
\* it, or takes the first free slot.
LEMMA PublishKeeps ==
  ASSUME IInv, connected, NEW f \in Frames, f.kind = "cont", ContVal(f), f.ep = epoch,
         PublishContinuous(f), UNCHANGED <<connected, epoch>>
  PROVE  ContType' /\ SchedulerFresh' /\ UNCHANGED fifo
<1>0. UNCHANGED <<fifo, contCursor>>
  BY DEF PublishContinuous
<1>1. CASE UNCHANGED cont
  BY <1>0, <1>1 DEF IInv, Types, ContType, SchedulerFresh, ScheduledIn
<1>2. ASSUME NEW c \in ContSlots, IsSlotFor(c, f),
             cont' = [cont EXCEPT ![c] =
               [assigned |-> TRUE, dirty |-> TRUE,
                f |-> IF cont[c].assigned /\ Accumulates(cont[c], f)
                      THEN [cont[c].f EXCEPT !.val = Saturate(@ + f.val)] ELSE f]]
      PROVE  ContType' /\ SchedulerFresh'
  <2> DEFINE g == IF cont[c].assigned /\ Accumulates(cont[c], f)
                  THEN [cont[c].f EXCEPT !.val = Saturate(@ + f.val)] ELSE f
  <2>1. cont[c] \in ContSlot /\ cont[c].f \in Frames /\ ContVal(cont[c].f)
    BY DEF IInv, Types, ContType, ContSlot
  <2>2. /\ g \in Frames /\ ContVal(g) /\ g.ep = epoch /\ g.kind = "cont" /\ g.id = f.id
    <3>1. CASE cont[c].assigned /\ Accumulates(cont[c], f)
      <4>1. cont[c].dirty /\ cont[c].f.kind = f.kind /\ cont[c].f.id = f.id
        BY <1>2, <3>1 DEF IsSlotFor, ScheduledIn, Accumulates
      <4>2. cont[c].f.ep = epoch
        BY <4>1 DEF IInv, SchedulerFresh
      <4>3. PICK n \in Int : n = cont[c].f.val + f.val
        BY <2>1 DEF Frames, AnyFrame
      <4>4. Saturate(n) \in DeltaRange
        BY <4>3, TxAssumption DEF Saturate, DeltaRange
      <4>5. PICK v \in DeltaRange : v = Saturate(n)
        BY <4>4
      <4>6. g = [cont[c].f EXCEPT !.val = v]
        BY <3>1, <4>3, <4>5
      <4>7. g \in AnyFrame /\ g.val = v /\ g.kind = "cont" /\ g.id = f.id /\ g.ep = epoch
        BY <2>1, <4>1, <4>2, <4>6, TxAssumption DEF Frames, AnyFrame, DeltaRange
      <4> HIDE DEF g
      <4> QED
        BY <4>7 DEF Frames, ContVal
    <3>2. CASE ~(cont[c].assigned /\ Accumulates(cont[c], f))
      BY <3>2
    <3> QED
      BY <3>1, <3>2
  <2>3. cont' = [cont EXCEPT ![c] = [assigned |-> TRUE, dirty |-> TRUE, f |-> g]]
    BY <1>2
  <2> HIDE DEF g
  <2>4. /\ cont' \in [ContSlots -> ContSlot]
        /\ cont'[c].assigned /\ cont'[c].dirty /\ cont'[c].f = g
        /\ \A d \in ContSlots : d # c => cont'[d] = cont[d]
    BY <2>2, <2>3 DEF IInv, Types, ContType, ContSlot
  <2>5. ASSUME NEW d \in ContSlots, d # c PROVE ~ScheduledIn(d, f)
    BY <1>2, <2>5 DEF IsSlotFor, ScheduledIn, IInv, Types, ContType
  <2>6. ASSUME NEW a \in ContSlots, NEW d \in ContSlots,
               ScheduledIn(d, cont[a].f)', cont'[a].assigned
        PROVE  a = d
    <3>0. cont'[d].assigned /\ cont'[d].f.kind = cont'[a].f.kind /\ cont'[d].f.id = cont'[a].f.id
      BY <2>6 DEF ScheduledIn
    <3>1. CASE a = c /\ d # c
      <4>1. ScheduledIn(d, f)
        BY <2>2, <2>4, <3>0, <3>1 DEF ScheduledIn
      <4> QED
        BY <2>5, <3>1, <4>1
    <3>2. CASE a # c /\ d = c
      <4>1. ScheduledIn(a, f)
        BY <2>2, <2>4, <2>6, <3>0, <3>2 DEF ScheduledIn
      <4> QED
        BY <2>5, <3>2, <4>1
    <3>3. CASE a # c /\ d # c
      <4>1. ScheduledIn(d, cont[a].f) /\ cont[a].assigned
        BY <2>4, <2>6, <3>0, <3>3 DEF ScheduledIn
      <4> QED
        BY <4>1 DEF IInv, Types, ContType
    <3> QED
      BY <3>1, <3>2, <3>3
  <2>7. ASSUME NEW a \in ContSlots
        PROVE  /\ cont'[a].dirty => cont'[a].assigned
               /\ cont'[a].f.kind \in {"none", "cont"} /\ ContVal(cont'[a].f)
    BY <2>2, <2>4 DEF IInv, Types, ContType
  <2>8. ContType'
    BY <1>0, <2>4, <2>6, <2>7 DEF ContType, IInv, Types
  <2>9. SchedulerFresh'
    BY <1>0, <2>2, <2>4 DEF IInv, SchedulerFresh
  <2> QED
    BY <2>8, <2>9
<1> QED
  BY <1>0, <1>1, <1>2 DEF PublishContinuous

\* A held control moves: its slot remembers the newest level.
LEMMA MidiHeldKeeps ==
  ASSUME IInv, NEW k \in HeldKeys, NEW v \in Levels, MidiHeld(k, v)
  PROVE  IInv'
<1> USE DEF MidiHeld, schedVars, connVars, taskVars, p4Vars
<1>1. LateInv' /\ OrderInv' /\ WireType' /\ FifoType' /\ CountType'
  BY ChainSame
<1>2. HeldType'
  <2>1. Observe(slots[k], v) \in Slot
    BY SlotTypes DEF IInv, Types, HeldType
  <2> QED
    BY <2>1 DEF IInv, Types, HeldType
<1> QED
  BY <1>1, <1>2 DEF IInv, Types, MapType, ContType, ScheduledIn, ConnType, TaskType, SchedulerFresh

\* An absolute control moves: its position is kept and scheduled.
LEMMA MidiAbsoluteKeeps ==
  ASSUME IInv, NEW i \in AbsIds, NEW v \in AbsValues, MidiAbsolute(i, v)
  PROVE  IInv'
<1> USE DEF MidiAbsolute, connVars, taskVars, p4Vars
<1>0. v \in Int /\ i \in Nat
  BY TxAssumption DEF AbsIds
<1>1. ContType' /\ SchedulerFresh' /\ UNCHANGED fifo
  <2>1. Frame("cont", i, v) \in Frames
    BY <1>0, FrameTypes
  <2>2. LET f == Frame("cont", i, v) IN f.kind = "cont" /\ ContVal(f) /\ f.ep = epoch
    BY DEF Frame, ContVal
  <2> QED
    BY <2>1, <2>2, PublishKeeps DEF Midi
<1>2. LateInv' /\ OrderInv' /\ WireType' /\ FifoType' /\ CountType'
  BY <1>1, ChainSame
<1>3. MapType'
  BY DEF IInv, Types, MapType, Positions
<1> QED
  BY <1>1, <1>2, <1>3 DEF IInv, Types, HeldType, ConnType, TaskType

\* A jog wheel moves: its movement is scheduled.
LEMMA MidiJogKeeps ==
  ASSUME IInv, NEW i \in JogIds, NEW d \in {-DeltaMax, DeltaMax}, MidiJog(i, d)
  PROVE  IInv'
<1> USE DEF MidiJog, connVars, taskVars, p4Vars
<1>0. d \in Int /\ i \in Nat /\ d \in DeltaRange
  BY TxAssumption DEF JogIds, DeltaRange
<1>1. ContType' /\ SchedulerFresh' /\ UNCHANGED fifo
  <2>1. Frame("cont", i, d) \in Frames
    BY <1>0, FrameTypes
  <2>2. LET f == Frame("cont", i, d) IN f.kind = "cont" /\ ContVal(f) /\ f.ep = epoch
    BY <1>0 DEF Frame, ContVal
  <2> QED
    BY <2>1, <2>2, PublishKeeps DEF Midi
<1>2. LateInv' /\ OrderInv' /\ WireType' /\ FifoType' /\ CountType'
  BY <1>1, ChainSame
<1> QED
  BY <1>1, <1>2 DEF IInv, Types, HeldType, MapType, ConnType, TaskType

\* A command is queued behind all others, or dropped.
LEMMA MidiDiscreteKeeps == ASSUME IInv, MidiDiscrete PROVE IInv'
<1> USE DEF MidiDiscrete, EnqueueDiscrete, connVars, taskVars, p4Vars
<1> DEFINE f == Frame("cmd", 0, nCmds + 1)
<1>0. nCmds \in Nat /\ nCmds' = nCmds + 1 /\ fifo \in Seq(Frames) /\ connected
  BY DEF IInv, Types, CountType, FifoType, Midi
<1>1. f \in Frames /\ IsCmd(f) /\ f.val = nCmds + 1 /\ f.ep = epoch
  BY <1>0, FrameTypes DEF Frame
<1>2. fifo' = IF Len(fifo) < FifoCap THEN Append(fifo, f) ELSE fifo
  OBVIOUS
<1> HIDE DEF f
<1>3. /\ fifo' \in Seq(Frames) /\ Len(fifo') <= FifoCap
      /\ \A i \in 1 .. Len(fifo') : (i \in 1 .. Len(fifo) /\ fifo'[i] = fifo[i])
                                    \/ (fifo'[i] = f /\ Len(fifo') = Len(fifo) + 1 /\ i = Len(fifo) + 1)
      /\ \A i \in 1 .. Len(fifo') : \A j \in 1 .. i - 1 : j \in 1 .. Len(fifo) /\ fifo'[j] = fifo[j]
  <2>1. CASE Len(fifo) < FifoCap
    <3>1. fifo' = Append(fifo, f)
      BY <1>2, <2>1
    <3>2. /\ fifo' \in Seq(Frames) /\ Len(fifo) \in Nat /\ Len(fifo') = Len(fifo) + 1
          /\ fifo'[Len(fifo) + 1] = f /\ \A i \in 1 .. Len(fifo) : fifo'[i] = fifo[i]
      BY <1>0, <1>1, <3>1, AppendEntries
    <3> QED
      BY <2>1, <3>2, TxAssumption
  <2>2. CASE ~(Len(fifo) < FifoCap)
    <3>1. fifo' = fifo /\ Len(fifo) \in Nat
      BY <1>0, <1>2, <2>2
    <3> QED
      BY <3>1 DEF IInv, Types, FifoType
  <2> QED
    BY <2>1, <2>2
<1>4. FifoType'
  BY <1>1, <1>3 DEF IInv, Types, FifoType
<1>5. SchedulerFresh'
  BY <1>0, <1>1, <1>3 DEF IInv, SchedulerFresh
<1>6. LateInv'
  <2>1. Over' = Over
    BY DEF Over
  <2> QED
    BY <2>1 DEF IInv, LateInv, HandLate
<1>7. OrderInv'
  <2>1. OrderInv /\ p4Cmd \in Nat /\ \A i \in 1 .. Len(fifo) : IsCmd(fifo[i]) /\ fifo[i].val \in Nat
    BY DEF IInv, Types, CountType, FifoType, Frames, IsCmd
  <2>2. Numbered(fifo', p4Cmd)
    <3> SUFFICES ASSUME NEW i \in 1 .. Len(fifo'), IsCmd(fifo'[i])
                 PROVE  /\ p4Cmd < fifo'[i].val
                        /\ \A j \in 1 .. i - 1 : IsCmd(fifo'[j]) => fifo'[j].val < fifo'[i].val
      BY DEF Numbered
    <3>1. CASE i \in 1 .. Len(fifo) /\ fifo'[i] = fifo[i]
      BY <1>3, <2>1, <3>1 DEF OrderInv, Numbered
    <3>2. CASE fifo'[i] = f
      BY <1>0, <1>1, <1>3, <2>1, <3>2 DEF OrderInv, Before
    <3> QED
      BY <1>3, <3>1, <3>2
  <2>3. Before(wire, nCmds') /\ Before(fifo', nCmds')
    <3>1. ASSUME NEW i \in 1 .. Len(wire), IsCmd(wire[i]) PROVE wire[i].val <= nCmds'
      <4>1. wire[i].val \in Nat /\ wire[i].val <= nCmds
        BY <2>1, <3>1 DEF OrderInv, Before, IInv, Types, WireType, Frames, IsCmd
      <4> QED
        BY <1>0, <4>1
    <3>2. ASSUME NEW i \in 1 .. Len(fifo') PROVE fifo'[i].val <= nCmds'
      BY <1>0, <1>1, <1>3, <2>1 DEF OrderInv, Before
    <3> QED
      BY <3>1, <3>2 DEF Before
  <2>4. \A i \in 1 .. Len(wire), j \in 1 .. Len(fifo') : IsCmd(wire[i]) => wire[i].val < fifo'[j].val
    <3> SUFFICES ASSUME NEW i \in 1 .. Len(wire), NEW j \in 1 .. Len(fifo'), IsCmd(wire[i])
                 PROVE  wire[i].val < fifo'[j].val
      OBVIOUS
    <3>1. wire[i].val \in Nat /\ wire[i].val <= nCmds
      BY <2>1 DEF OrderInv, Before, IInv, Types, WireType, Frames, IsCmd
    <3> QED
      BY <1>0, <1>1, <1>3, <2>1, <3>1 DEF OrderInv
  <2>5. ASSUME IsCmd(hand["tx"])
        PROVE  /\ p4Cmd < hand["tx"].val /\ hand["tx"].val <= nCmds' /\ After(hand["tx"].val, fifo')
               /\ \A i \in 1 .. Len(wire) : IsCmd(wire[i]) => wire[i].val < hand["tx"].val
    <3>1. hand["tx"].val \in Nat
      BY <2>5 DEF IInv, Types, TaskType, Tasks, Frames, IsCmd
    <3>2. hand["tx"].val <= nCmds /\ After(hand["tx"].val, fifo)
      BY <2>1, <2>5 DEF OrderInv
    <3>3. After(hand["tx"].val, fifo')
      BY <1>0, <1>1, <1>3, <3>1, <3>2 DEF After
    <3> QED
      BY <1>0, <2>1, <2>5, <3>1, <3>2, <3>3 DEF OrderInv
  <2>6. p4Cmd <= nCmds' /\ Numbered(wire, p4Cmd)
    BY <1>0, <2>1 DEF OrderInv
  <2> QED
    BY <2>2, <2>3, <2>4, <2>5, <2>6 DEF OrderInv
<1>8. ContType' /\ CountType'
  BY <1>0 DEF IInv, Types, ContType, ScheduledIn, CountType
<1> QED
  BY <1>4, <1>5, <1>6, <1>7, <1>8 DEF IInv, Types, HeldType, MapType, ConnType, TaskType, WireType

\* A controller connects: what was scheduled for the last one is long gone.
LEMMA UsbConnectKeeps == ASSUME IInv, UsbConnect PROVE IInv'
<1> USE DEF UsbConnect, schedVars, p4Vars, inputVars
<1>1. Over' = Over /\ epoch \in Nat /\ epoch' = epoch + 1 /\ connected' = TRUE /\ Over = epoch
  BY DEF Over, IInv, Types, ConnType
<1>2. ConnType'
  BY <1>1 DEF ConnType
<1>3. TaskType'
  <2>1. "usb" \in Tasks /\ "snap" \in Pcs /\ ~IsCmd(hand["usb"]) /\ TaskType
    BY DEF Tasks, Pcs, IInv, Types, TaskType
  <2> QED
    BY <2>1, TaskSteps DEF TaskType
<1>4. MapType'
  BY DEF IInv, Types, MapType, Tasks
<1>5. SchedulerFresh'
  <2>1. ~connected
    OBVIOUS
  <2> QED
    BY <2>1 DEF IInv, SchedulerFresh
<1>6. LateInv'
  <2>1. HandLate'
    <3>1. IsCmd(hand["tx"]) => hand["tx"].ep <= epoch /\ hand["tx"].ep \in Nat
      BY DEF IInv, LateInv, HandLate, Types, TaskType, Tasks, Frames, AnyFrame
    <3>2. HandLate
      BY DEF IInv, LateInv
    <3> QED
      BY <1>1, <3>1, <3>2 DEF HandLate
  <2> QED
    BY <1>1, <2>1 DEF IInv, LateInv
<1>7. OrderInv'
  BY DEF IInv, OrderInv
<1>8. FifoType' /\ ContType' /\ WireType' /\ CountType' /\ HeldType'
  BY DEF IInv, Types, FifoType, ContType, ScheduledIn, WireType, CountType, HeldType
<1> QED
  BY <1>2, <1>3, <1>4, <1>5, <1>6, <1>7, <1>8 DEF IInv, Types

\* The controller goes: the queue is emptied before the news can go out, and a
\* command the translator holds becomes the one that may come late.
LEMMA UsbDisconnectKeeps == ASSUME IInv, UsbDisconnect PROVE IInv'
<1> USE DEF UsbDisconnect, p4Vars, inputVars
<1>0. connected /\ epoch \in Nat \ {0} /\ ~connected' /\ epoch' = epoch
  BY DEF IInv, Types, ConnType
<1>1. Over = epoch - 1 /\ Over' = epoch
  BY <1>0 DEF Over
<1>2. ConnType'
  BY <1>0 DEF IInv, Types, ConnType
<1>3. TaskType'
  <2>1. "usb" \in Tasks /\ "publish" \in Pcs /\ ~IsCmd(hand["usb"]) /\ TaskType
    BY DEF Tasks, Pcs, IInv, Types, TaskType
  <2> QED
    BY <2>1, TaskSteps DEF TaskType
<1>4. MapType'
  BY DEF IInv, Types, MapType, NothingKnown, Positions
<1>5. fifo' = <<>> /\ <<>> \in Seq(Frames) /\ Len(fifo') = 0
  BY DEF FifoAfterReset
<1>6. FifoType'
  BY <1>5, TxAssumption DEF FifoType
<1>7. ContType' /\ \A c \in ContSlots : ~cont'[c].dirty
  <2>0. NoFrame \in Frames /\ NoFrame.val = 0 /\ NoFrame.kind = "none"
    BY FrameTypes DEF NoFrame
  <2>1. FreeSlot \in ContSlot
    BY <2>0 DEF FreeSlot, ContSlot
  <2>2. cont' \in [ContSlots -> ContSlot] /\ contCursor' \in ContSlots
    BY <2>1, TxAssumption DEF ContSlots
  <2>3. ASSUME NEW c \in ContSlots
        PROVE  ~cont'[c].dirty /\ ~cont'[c].assigned /\ cont'[c].f = NoFrame
    BY DEF FreeSlot
  <2>4. 0 \in DeltaRange
    BY TxAssumption DEF DeltaRange
  <2> QED
    BY <2>0, <2>2, <2>3, <2>4 DEF ContType, ContVal
<1>8. SchedulerFresh'
  BY <1>5, <1>7 DEF SchedulerFresh
<1>9. HeldType'
  <2>1. ASSUME NEW k \in HeldKeys PROVE slots'[k] \in Slot
    <3>1. slots[k] \in Slot /\ slots[k].desired \in Levels
      BY DEF IInv, Types, HeldType, Slot
    <3>2. ReleaseOf[slots[k].desired] \in Levels
      BY <3>1, HeldAssumption
    <3>3. Observe(slots[k], ReleaseOf[slots[k].desired]) \in Slot
      BY <3>1, <3>2, SlotTypes
    <3> QED
      BY <3>1, <3>3 DEF ReleaseAll
  <2>2. slots' \in [HeldKeys -> Slot]
    BY <2>1 DEF ReleaseAll
  <2> QED
    BY <2>2 DEF IInv, Types, HeldType
<1>10. LateInv'
  <2>0. /\ p4Ended \in Nat /\ late \in Nat /\ wire \in Seq(Frames)
        /\ EndsInOrder(wire, p4Ended, Over) /\ OneDoomedEach(wire, p4Ended, late) /\ HandLate
    BY DEF IInv, Types, CountType, WireType, LateInv
  <2>1. EndsInOrder(wire, p4Ended, epoch)
    <3>1. \A i \in 1 .. Len(wire) : wire[i].ep \in Nat
      BY <2>0 DEF Frames, AnyFrame
    <3> QED
      BY <1>0, <1>1, <2>0, <3>1 DEF EndsInOrder
  <2>2. late < epoch
    BY <1>0, <1>1, <2>0 DEF EndsInOrder, OneDoomedEach
  <2>3. ASSUME NEW i \in 1 .. Len(wire), Doomed(wire, p4Ended, i) PROVE wire[i].ep < epoch
    <3>0. wire[i] \in Frames /\ wire[i].ep \in Nat
      BY <2>0 DEF Frames, AnyFrame
    <3>1. CASE wire[i].ep <= p4Ended
      BY <1>0, <1>1, <2>0, <3>0, <3>1 DEF EndsInOrder
    <3>2. CASE \E j \in 1 .. i - 1 : IsEnd(wire[j]) /\ wire[i].ep <= wire[j].ep
      <4>1. PICK j \in 1 .. i - 1 : IsEnd(wire[j]) /\ wire[i].ep <= wire[j].ep
        BY <3>2
      <4>2. j \in 1 .. Len(wire) /\ wire[j] \in Frames
        BY <2>0
      <4>3. wire[j].ep <= Over /\ wire[j].ep \in Nat
        BY <2>0, <4>1, <4>2 DEF EndsInOrder, Frames, AnyFrame
      <4> QED
        BY <1>0, <1>1, <3>0, <4>1, <4>3
    <3> QED
      BY <2>3, <3>1, <3>2 DEF Doomed
  <2>4. ASSUME IsCmd(hand["tx"])
        PROVE  /\ hand["tx"].ep <= epoch /\ late < hand["tx"].ep
               /\ \A i \in 1 .. Len(wire) : Doomed(wire, p4Ended, i) => wire[i].ep < hand["tx"].ep
    <3>1. hand["tx"].ep \in Nat /\ hand["tx"].ep <= epoch
      BY <2>0, <2>4 DEF HandLate, IInv, Types, TaskType, Tasks, Frames, AnyFrame
    <3>2. CASE hand["tx"].ep <= Over
      BY <2>0, <2>4, <3>1, <3>2 DEF HandLate
    <3>3. CASE ~(hand["tx"].ep <= Over)
      <4>1. hand["tx"].ep = epoch
        BY <1>0, <1>1, <3>1, <3>3
      <4> QED
        BY <2>2, <2>3, <3>1, <4>1
    <3> QED
      BY <3>2, <3>3
  <2>5. HandLate'
    BY <1>0, <1>1, <2>4 DEF HandLate
  <2> QED
    BY <1>1, <2>0, <2>1, <2>5 DEF LateInv
<1>11. OrderInv'
  <2>1. Numbered(fifo', p4Cmd) /\ Before(fifo', nCmds)
    BY <1>5 DEF Numbered, Before
  <2>2. \A n : After(n, fifo')
    BY <1>5 DEF After
  <2>3. \A i \in 1 .. Len(wire), j \in 1 .. Len(fifo') : FALSE
    BY <1>5
  <2> QED
    BY <2>1, <2>2, <2>3 DEF IInv, OrderInv
<1> QED
  BY <1>2, <1>3, <1>4, <1>6, <1>7, <1>8, <1>9, <1>10, <1>11
     DEF IInv, Types, WireType, CountType

\* The state of the connection is asked for again.
LEMMA UsbReplayKeeps == ASSUME IInv, UsbReplay PROVE IInv'
<1> USE DEF UsbReplay, schedVars, taskVars, p4Vars, inputVars
<1>1. LateInv' /\ OrderInv' /\ WireType' /\ FifoType' /\ CountType'
  BY ChainSame
<1> QED
  BY <1>1 DEF IInv, Types, HeldType, MapType, ContType, ScheduledIn, ConnType, TaskType, SchedulerFresh

\* The state of the connection goes out: news of an end is of this connection.
LEMMA UsbPublishKeeps == ASSUME IInv, UsbPublish PROVE IInv'
<1> USE DEF UsbPublish, schedVars, p4Vars, inputVars
<1>1. LateInv' /\ OrderInv' /\ WireType' /\ FifoType' /\ CountType'
  <2> DEFINE v == IF connected THEN 1 ELSE 0
             f == Frame("conn", 0, v)
  <2>1. f \in Frames /\ ~IsCmd(f) /\ f.ep = epoch /\ f.val = v
    BY FrameTypes DEF Frame
  <2>2. IsEnd(f) => f.ep = Over
    BY <2>1 DEF IsEnd, Over
  <2>3. CASE Transmit(f)
    <3> HIDE DEF f
    <3> QED
      BY <2>1, <2>2, <2>3, ChainTry
  <2>4. CASE UNCHANGED wire
    BY <2>4, ChainSame
  <2> QED
    BY <2>3, <2>4 DEF Fail
<1>2. TaskType'
  <2>1. "usb" \in Tasks /\ "idle" \in Pcs /\ ~IsCmd(hand["usb"]) /\ TaskType
    BY DEF Tasks, Pcs, IInv, Types, TaskType
  <2> QED
    BY <2>1, TaskSteps DEF TaskType
<1> QED
  BY <1>1, <1>2 DEF IInv, Types, HeldType, MapType, ContType, ScheduledIn, ConnType, SchedulerFresh

-----------------------------------------------------------------------------
(* Replays and held levels.                                                *)

\* The heartbeat copies what is known.
LEMMA HeartbeatStartKeeps == ASSUME IInv, HeartbeatStart PROVE IInv'
<1> USE DEF HeartbeatStart, schedVars, p4Vars, inputVars
<1>1. LateInv' /\ OrderInv' /\ WireType' /\ FifoType' /\ CountType'
  BY ChainSame
<1>2. TaskType'
  <2>1. "hb" \in Tasks /\ "snap" \in Pcs /\ ~IsCmd(hand["hb"]) /\ TaskType
    BY DEF Tasks, Pcs, IInv, Types, TaskType
  <2> QED
    BY <2>1, TaskSteps DEF TaskType
<1>3. MapType'
  <2>1. KnownInputs \in Positions
    BY DEF KnownInputs, NothingKnown, Positions, IInv, Types, MapType
  <2> QED
    BY <2>1 DEF IInv, Types, MapType
<1> QED
  BY <1>1, <1>2, <1>3 DEF IInv, Types, HeldType, ContType, ScheduledIn, ConnType, SchedulerFresh

\* A known position goes out once more, or the copy is used up.
LEMMA ReplayInputKeeps == ASSUME IInv, NEW t \in Tasks, ReplayInput(t) PROVE IInv'
<1> USE DEF ReplayInput, schedVars, connVars, p4Vars, inputVars
<1>0. ~IsCmd(hand[t]) /\ TaskType /\ pc[t] = "snap"
  BY DEF IInv, Types, TaskType
<1>1. CASE /\ \E i \in AbsIds :
                /\ snap[t][i] # Unknown /\ snap' = [snap EXCEPT ![t][i] = Unknown]
                /\ LET f == Frame("cont", i, snap[t][i]) IN Transmit(f) \/ Fail(f)
           /\ UNCHANGED <<pc, cursor>>
  <2>1. PICK i \in AbsIds :
          /\ snap[t][i] # Unknown /\ snap' = [snap EXCEPT ![t][i] = Unknown]
          /\ LET f == Frame("cont", i, snap[t][i]) IN Transmit(f) \/ Fail(f)
    BY <1>1
  <2>2. snap[t][i] \in Int /\ i \in Nat
    <3>1. snap[t] \in Positions
      BY DEF IInv, Types, MapType
    <3>2. snap[t][i] \in AbsValues
      BY <2>1, <3>1 DEF Positions
    <3> QED
      BY <3>2, TxAssumption DEF AbsIds
  <2>3. LateInv' /\ OrderInv' /\ WireType' /\ FifoType' /\ CountType'
    <3> DEFINE f == Frame("cont", i, snap[t][i])
    <3>1. f \in Frames /\ ~IsCmd(f) /\ ~IsEnd(f)
      BY <2>2, FrameTypes
    <3>2. Transmit(f) \/ Fail(f)
      BY <2>1
    <3> HIDE DEF f
    <3> QED
      BY <3>1, <3>2, ChainTry
  <2>4. MapType'
    <3>1. PICK u \in AbsValues \cup {Unknown} : u = Unknown
      OBVIOUS
    <3>2. snap' = [snap EXCEPT ![t][i] = u]
      BY <2>1, <3>1
    <3> QED
      BY <3>2 DEF IInv, Types, MapType, Positions
  <2>5. TaskType'
    BY <1>1 DEF IInv, Types, TaskType
  <2> QED
    BY <2>3, <2>4, <2>5 DEF IInv, Types, HeldType, ContType, ScheduledIn, ConnType, SchedulerFresh
<1>2. CASE Goto(t, "pick") /\ UNCHANGED <<snap, wire, nFaults, jogLost>>
  <2>1. LateInv' /\ OrderInv' /\ WireType' /\ FifoType' /\ CountType'
    BY <1>2, ChainSame
  <2>2. TaskType'
    <3>1. "pick" \in Pcs
      BY DEF Pcs
    <3> QED
      BY <1>0, <1>2, <3>1, TaskSteps DEF TaskType
  <2> QED
    BY <1>2, <2>1, <2>2 DEF IInv, Types, HeldType, MapType, ContType, ScheduledIn, ConnType, SchedulerFresh
<1> QED
  BY <1>1, <1>2

\* The translator starts a pass.
LEMMA TranslatorStartKeeps == ASSUME IInv, TranslatorStart PROVE IInv'
<1> USE DEF TranslatorStart, schedVars, connVars, p4Vars, inputVars
<1>1. LateInv' /\ OrderInv' /\ WireType' /\ FifoType' /\ CountType'
  BY ChainSame
<1>2. TaskType'
  <2>1. "tx" \in Tasks /\ "pick" \in Pcs /\ ~IsCmd(hand["tx"]) /\ TaskType
    BY DEF Tasks, Pcs, IInv, Types, TaskType
  <2> QED
    BY <2>1, TaskSteps DEF TaskType
<1> QED
  BY <1>1, <1>2 DEF IInv, Types, HeldType, MapType, ContType, ScheduledIn, ConnType, SchedulerFresh

\* Where a task goes after the held levels, and with which budget.
LEMMA AfterHeldTypes ==
  ASSUME NEW t \in Tasks
  PROVE  AfterHeld(t) \in Pcs /\ AfterHeld(t) \notin {"send", "mark"} /\ FifoBudget \in 0 .. FifoBudget
BY TxAssumption DEF AfterHeld, Pcs, Tasks

\* A task reads a level to be sent.
LEMMA HeldPickKeeps == ASSUME IInv, NEW t \in Tasks, HeldPick(t) PROVE IInv'
<1> USE DEF HeldPick, schedVars, connVars, p4Vars, inputVars
<1>0. ~IsCmd(hand[t]) /\ TaskType /\ pc[t] = "pick"
  BY DEF IInv, Types, TaskType
<1>1. TaskType' /\ (IsCmd(hand'["tx"]) => hand'["tx"] = hand["tx"])
  <2>1. ASSUME NEW k \in HeldKeys, hand' = [hand EXCEPT ![t] = Frame("held", k, slots[k].desired)],
               Goto(t, "send"), UNCHANGED budget
        PROVE  TaskType' /\ (IsCmd(hand'["tx"]) => hand'["tx"] = hand["tx"])
    <3>1. slots[k].desired \in Levels
      BY DEF IInv, Types, HeldType, Slot
    <3> DEFINE g == Frame("held", k, slots[k].desired)
    <3>2. g \in Frames /\ ~IsCmd(g) /\ ~IsEnd(g) /\ g.kind = "held"
      BY <3>1, FrameTypes DEF Frame
    <3>3. "send" \in Pcs /\ hand' = [hand EXCEPT ![t] = g] /\ "tx" \in Tasks
      BY <2>1 DEF Pcs, Tasks
    <3> HIDE DEF g
    <3>4. TaskType'
      BY <1>0, <2>1, <3>2, <3>3, TaskMoves DEF TaskType
    <3>5. hand'["tx"] \in {g, hand["tx"]}
      BY <1>0, <3>3 DEF TaskType
    <3> QED
      BY <3>2, <3>4, <3>5
  <2>2. CASE /\ Goto(t, AfterHeld(t)) /\ budget' = (IF t = "tx" THEN FifoBudget ELSE budget)
             /\ UNCHANGED hand
    BY <1>0, <2>2, AfterHeldTypes, TaskSteps DEF TaskType
  <2> QED
    BY <2>1, <2>2
<1>2. LateInv' /\ OrderInv' /\ WireType' /\ FifoType' /\ CountType'
  BY <1>1, ChainSame
<1> QED
  BY <1>1, <1>2 DEF IInv, Types, HeldType, MapType, ContType, ScheduledIn, ConnType, SchedulerFresh

\* A level goes out, or the pass ends.
LEMMA HeldSendKeeps == ASSUME IInv, NEW t \in Tasks, HeldSend(t) PROVE IInv'
<1> USE DEF HeldSend, schedVars, connVars, p4Vars, inputVars
<1>0. /\ ~IsCmd(hand[t]) /\ ~IsEnd(hand[t]) /\ TaskType /\ pc[t] = "send"
      /\ hand[t].kind = "held" /\ hand[t] \in Frames
  BY DEF IInv, Types, TaskType
<1>1. TaskType' /\ (IsCmd(hand'["tx"]) => hand'["tx"] = hand["tx"])
  <2>1. CASE Goto(t, "mark") /\ UNCHANGED <<hand, budget>>
    <3>1. "mark" \in Pcs
      BY DEF Pcs
    <3> QED
      BY <1>0, <2>1, <3>1, TaskSteps DEF TaskType
  <2>2. CASE /\ Goto(t, AfterHeld(t)) /\ hand' = [hand EXCEPT ![t] = NoFrame]
             /\ budget' = (IF t = "tx" THEN FifoBudget ELSE budget)
    <3>1. NoFrame \in Frames /\ ~IsCmd(NoFrame) /\ ~IsEnd(NoFrame)
      BY FrameTypes
    <3>2. TaskType'
      BY <1>0, <2>2, <3>1, AfterHeldTypes, TaskMoves DEF TaskType
    <3>3. hand'["tx"] \in {NoFrame, hand["tx"]}
      BY <1>0, <2>2 DEF TaskType, Tasks
    <3> QED
      BY <3>1, <3>2, <3>3
  <2> QED
    BY <2>1, <2>2
<1>2. LateInv' /\ OrderInv' /\ WireType' /\ FifoType' /\ CountType'
  <2>1. Transmit(hand[t]) \/ Fail(hand[t])
    OBVIOUS
  <2> QED
    BY <1>0, <1>1, <2>1, ChainTry
<1> QED
  BY <1>1, <1>2 DEF IInv, Types, HeldType, MapType, ContType, ScheduledIn, ConnType, SchedulerFresh

\* The level that went out is marked, whatever is desired by now.
LEMMA HeldMarkKeeps == ASSUME IInv, NEW t \in Tasks, HeldMark(t) PROVE IInv'
<1> USE DEF HeldMark, schedVars, connVars, p4Vars, inputVars
<1>0. TaskType /\ pc[t] = "mark" /\ hand[t].kind = "held" /\ hand[t] \in Frames
  BY DEF IInv, Types, TaskType
<1>1. TaskType' /\ (IsCmd(hand'["tx"]) => hand'["tx"] = hand["tx"])
  <2>1. NoFrame \in Frames /\ ~IsCmd(NoFrame) /\ ~IsEnd(NoFrame) /\ "pick" \in Pcs
    BY FrameTypes DEF Pcs
  <2>2. TaskType'
    BY <1>0, <2>1, TaskMoves DEF TaskType
  <2>3. hand'["tx"] \in {NoFrame, hand["tx"]}
    BY <1>0 DEF TaskType, Tasks
  <2> QED
    BY <2>1, <2>2, <2>3
<1>2. LateInv' /\ OrderInv' /\ WireType' /\ FifoType' /\ CountType'
  BY <1>1, ChainSame
<1>3. HeldType'
  <2>1. hand[t].id \in HeldKeys /\ hand[t].val \in Levels
    BY <1>0 DEF Frames
  <2>2. MarkScheduled(slots[hand[t].id], hand[t].val) \in Slot
    BY <2>1, SlotTypes DEF IInv, Types, HeldType
  <2> QED
    BY <2>1, <2>2 DEF IInv, Types, HeldType
<1> QED
  BY <1>1, <1>2, <1>3 DEF IInv, Types, MapType, ContType, ScheduledIn, ConnType, SchedulerFresh

-----------------------------------------------------------------------------
(* The translator's scheduler.                                             *)

\* The oldest command goes into the translator's hand; it is of the open
\* connection.
LEMMA TakeDiscreteKeeps == ASSUME IInv, TakeDiscrete PROVE IInv'
<1> USE DEF TakeDiscrete, connVars, p4Vars, inputVars
<1>0. ~IsCmd(hand["tx"]) /\ TaskType /\ "tx" \in Tasks
  BY DEF IInv, Types, TaskType, Tasks
<1>1. CASE /\ budget' = ContBudget /\ Goto("tx", "cont") /\ UNCHANGED <<hand, fifo>>
  <2>1. TaskType'
    <3>1. "cont" \in Pcs /\ ContBudget \in 0 .. ContBudget
      BY TxAssumption DEF Pcs
    <3> QED
      BY <1>0, <1>1, <3>1, TaskSteps
  <2>2. LateInv' /\ OrderInv' /\ WireType' /\ FifoType' /\ CountType'
    BY <1>1, ChainSame
  <2> QED
    BY <1>1, <2>1, <2>2 DEF IInv, Types, HeldType, MapType, ContType, ScheduledIn, ConnType, SchedulerFresh
<1>2. CASE /\ fifo # <<>> /\ budget > 0 /\ hand' = [hand EXCEPT !["tx"] = Oldest]
           /\ fifo' = Tail(fifo) /\ budget' = budget - 1 /\ Goto("tx", "fifoSend")
  <2>1. /\ fifo \in Seq(Frames) /\ fifo' \in Seq(Frames) /\ Len(fifo) \in Nat \ {0}
        /\ Len(fifo') = Len(fifo) - 1 /\ Oldest = fifo[1] /\ fifo[1] \in Frames
        /\ \A i \in 1 .. Len(fifo') : i + 1 \in 1 .. Len(fifo) /\ fifo'[i] = fifo[i + 1]
    BY <1>2, TailEntries DEF Oldest, IInv, Types, FifoType
  <2>2. 1 \in 1 .. Len(fifo) /\ IsCmd(fifo[1]) /\ fifo[1].ep = epoch /\ connected /\ fifo[1].val \in Nat
    <3>1. 1 \in 1 .. Len(fifo) /\ DOMAIN fifo = 1 .. Len(fifo)
      BY <2>1
    <3>2. IsCmd(fifo[1]) /\ fifo[1].ep = epoch /\ connected
      BY <3>1 DEF IInv, Types, FifoType, SchedulerFresh
    <3> QED
      BY <2>1, <3>1, <3>2 DEF Frames, IsCmd
  <2>3. hand'["tx"] = fifo[1]
    BY <1>0, <1>2, <2>1 DEF TaskType
  <2>4. TaskType'
    <3>1. "fifoSend" \in Pcs /\ ~IsEnd(fifo[1])
      BY <2>2 DEF Pcs, IsCmd, IsEnd
    <3>2. budget' \in 0 .. FifoBudget \cup 0 .. ContBudget
      BY <1>0, <1>2, TxAssumption DEF TaskType
    <3>3. hand' = [hand EXCEPT !["tx"] = fifo[1]]
      BY <1>2, <2>1
    <3> QED
      BY <1>0, <1>2, <2>1, <3>1, <3>2, <3>3, TaskMoves
  <2>5. FifoType'
    BY <2>1, TxAssumption DEF IInv, Types, FifoType
  <2>6. SchedulerFresh'
    <3>1. DOMAIN fifo' = 1 .. Len(fifo')
      BY <2>1
    <3> QED
      BY <2>1, <2>2, <3>1 DEF IInv, SchedulerFresh
  <2>7. LateInv'
    <3>1. Over' = Over /\ Over = epoch - 1 /\ epoch \in Nat \ {0}
      BY <2>2 DEF Over, IInv, Types, ConnType
    <3>2. HandLate'
      BY <2>2, <2>3, <3>1 DEF HandLate
    <3> QED
      BY <3>1, <3>2 DEF IInv, LateInv
  <2>8. OrderInv'
    <3>0. OrderInv
      BY DEF IInv
    <3>1. Numbered(fifo', p4Cmd)
      BY <2>1, <2>5, <3>0, TailLost, <1>2 DEF OrderInv, IInv, Types, CountType
    <3>2. Before(fifo', nCmds)
      BY <2>1, <3>0 DEF OrderInv, Before
    <3>3. \A i \in 1 .. Len(wire), j \in 1 .. Len(fifo') : IsCmd(wire[i]) => wire[i].val < fifo'[j].val
      BY <2>1, <3>0 DEF OrderInv
    <3>4. After(fifo[1].val, fifo')
      <4> SUFFICES ASSUME NEW i \in 1 .. Len(fifo'), IsCmd(fifo'[i]) PROVE fifo[1].val < fifo'[i].val
        BY DEF After
      <4>1. i + 1 \in 1 .. Len(fifo) /\ fifo'[i] = fifo[i + 1] /\ 1 \in 1 .. (i + 1) - 1
        BY <2>1
      <4> QED
        BY <2>2, <3>0, <4>1 DEF OrderInv, Numbered
    <3>5. /\ p4Cmd < fifo[1].val /\ fifo[1].val <= nCmds
          /\ \A i \in 1 .. Len(wire) : IsCmd(wire[i]) => wire[i].val < fifo[1].val
      BY <2>2, <3>0 DEF OrderInv, Numbered, Before
    <3> QED
      BY <2>3, <3>0, <3>1, <3>2, <3>3, <3>4, <3>5 DEF OrderInv
  <2> QED
    BY <2>4, <2>5, <2>6, <2>7, <2>8
       DEF IInv, Types, HeldType, MapType, ContType, ScheduledIn, ConnType, WireType, CountType
<1> QED
  BY <1>1, <1>2

\* A sample goes into the translator's hand.
LEMMA TakeContinuousKeeps == ASSUME IInv, TakeContinuous PROVE IInv'
<1> USE DEF TakeContinuous, connVars, p4Vars, inputVars
<1>0. ~IsCmd(hand["tx"]) /\ TaskType /\ "tx" \in Tasks
  BY DEF IInv, Types, TaskType, Tasks
<1>1. CASE Goto("tx", "idle") /\ budget' = 0 /\ UNCHANGED <<hand, cont, contCursor>>
  <2>1. TaskType'
    <3>1. "idle" \in Pcs /\ 0 \in 0 .. FifoBudget
      BY TxAssumption DEF Pcs
    <3> QED
      BY <1>0, <1>1, <3>1, TaskSteps
  <2>2. LateInv' /\ OrderInv' /\ WireType' /\ FifoType' /\ CountType'
    BY <1>1, ChainSame
  <2> QED
    BY <1>1, <2>1, <2>2 DEF IInv, Types, HeldType, MapType, ContType, ScheduledIn, ConnType, SchedulerFresh
<1>2. ASSUME NEW c \in ContSlots, budget > 0, hand' = [hand EXCEPT !["tx"] = cont[c].f],
             cont' = [cont EXCEPT ![c].dirty = FALSE], contCursor' = (c + 1) % ContCap,
             budget' = budget - 1, Goto("tx", "contSend")
      PROVE  IInv'
  <2>1. /\ cont[c] \in ContSlot /\ cont[c].f \in Frames /\ cont[c].f.kind \in {"none", "cont"}
    BY DEF IInv, Types, ContType, ContSlot
  <2>2. ~IsCmd(cont[c].f) /\ ~IsEnd(cont[c].f)
    BY <2>1 DEF IsCmd, IsEnd
  <2>3. TaskType'
    <3>1. "contSend" \in Pcs
      BY DEF Pcs
    <3>2. budget' \in 0 .. FifoBudget \cup 0 .. ContBudget
      BY <1>0, <1>2, TxAssumption DEF TaskType
    <3> QED
      BY <1>0, <1>2, <2>1, <2>2, <3>1, <3>2, TaskMoves
  <2>4. ~IsCmd(hand'["tx"])
    BY <1>0, <1>2, <2>2 DEF TaskType
  <2>5. LateInv' /\ OrderInv' /\ WireType' /\ FifoType' /\ CountType'
    BY <2>4, ChainSame
  <2>6. contCursor' \in ContSlots
    BY <1>2, TxAssumption DEF ContSlots
  <2>7. PICK b \in BOOLEAN : b = FALSE
    OBVIOUS
  <2>8. /\ cont' \in [ContSlots -> ContSlot]
        /\ \A d \in ContSlots : /\ cont'[d].f = cont[d].f /\ cont'[d].assigned = cont[d].assigned
                                /\ cont'[d].dirty => cont[d].dirty
    <3>1. cont' = [cont EXCEPT ![c].dirty = b]
      BY <1>2, <2>7
    <3>2. cont' \in [ContSlots -> ContSlot]
      BY <3>1 DEF IInv, Types, ContType, ContSlot
    <3>3. ASSUME NEW d \in ContSlots
          PROVE  /\ cont'[d].f = cont[d].f /\ cont'[d].assigned = cont[d].assigned
                 /\ cont'[d].dirty => cont[d].dirty
      BY <2>7, <3>1 DEF IInv, Types, ContType, ContSlot
    <3> QED
      BY <3>2, <3>3
  <2>9. ContType'
    <3>1. ASSUME NEW d \in ContSlots
          PROVE  /\ cont'[d].dirty => cont'[d].assigned
                 /\ cont'[d].f.kind \in {"none", "cont"} /\ ContVal(cont'[d].f)
      BY <2>8 DEF IInv, Types, ContType
    <3>2. ASSUME NEW d \in ContSlots, NEW a \in ContSlots, ScheduledIn(d, cont[a].f)', cont'[a].assigned
          PROVE  a = d
      <4>1. ScheduledIn(d, cont[a].f) /\ cont[a].assigned
        BY <2>8, <3>2 DEF ScheduledIn
      <4> QED
        BY <4>1 DEF IInv, Types, ContType
    <3> QED
      BY <2>6, <2>8, <3>1, <3>2 DEF ContType
  <2>10. SchedulerFresh'
    BY <2>8 DEF IInv, SchedulerFresh
  <2> QED
    BY <2>3, <2>5, <2>9, <2>10 DEF IInv, Types, HeldType, MapType, ConnType
<1> QED
  BY <1>1, <1>2

\* What the translator holds goes out; a command takes its place behind every
\* other on the wire.
LEMMA SendScheduledKeeps == ASSUME IInv, SendScheduled PROVE IInv'
<1> USE DEF SendScheduled, schedVars, connVars, p4Vars, inputVars
<1>0. TaskType /\ "tx" \in Tasks /\ hand["tx"] \in Frames /\ ~IsEnd(hand["tx"])
  BY DEF IInv, Types, TaskType, Tasks
<1>1. NoFrame \in Frames /\ ~IsCmd(NoFrame) /\ ~IsEnd(NoFrame)
  BY FrameTypes
<1>2. TaskType'
  <2> DEFINE l == IF pc["tx"] = "fifoSend" THEN "fifo" ELSE "cont"
  <2>1. l \in Pcs /\ l \notin {"send", "mark"} /\ Goto("tx", l)
    BY DEF Pcs
  <2> HIDE DEF l
  <2> QED
    BY <1>0, <1>1, <2>1, TaskMoves DEF TaskType
<1>3. ~IsCmd(hand'["tx"])
  BY <1>0, <1>1 DEF TaskType
<1>4. LateInv' /\ OrderInv' /\ WireType' /\ FifoType' /\ CountType'
  <2>1. CASE ~IsCmd(hand["tx"])
    BY <1>0, <1>3, <2>1, ChainTry
  <2>2. CASE Fail(hand["tx"])
    BY <1>3, <2>2, ChainSame DEF Fail
  <2>3. CASE IsCmd(hand["tx"]) /\ Transmit(hand["tx"])
    <3> DEFINE f == hand["tx"]
    <3>1. /\ wire \in Seq(Frames) /\ p4Ended \in Nat /\ late \in Nat /\ p4Cmd \in Nat /\ Over \in Nat
          /\ Over' = Over
      BY DEF IInv, Types, WireType, CountType, Over, ConnType
    <3>2. /\ EndsInOrder(wire, p4Ended, Over) /\ OneDoomedEach(wire, p4Ended, late) /\ Numbered(wire, p4Cmd)
      BY DEF IInv, LateInv, OrderInv
    <3>3. f.ep <= Over => /\ late < f.ep
                          /\ \A i \in 1 .. Len(wire) : Doomed(wire, p4Ended, i) => wire[i].ep < f.ep
      BY <2>3 DEF IInv, LateInv, HandLate
    <3>4. /\ p4Cmd < f.val /\ f.val <= nCmds /\ After(f.val, fifo)
          /\ \A i \in 1 .. Len(wire) : IsCmd(wire[i]) => wire[i].val < f.val
      BY <2>3 DEF IInv, OrderInv
    <3>5. wire' = Append(wire, f) /\ Len(wire) < WireCap /\ IsCmd(f) /\ f \in Frames
      BY <1>0, <2>3 DEF Transmit
    <3> HIDE DEF f
    <3>6. /\ EndsInOrder(wire', p4Ended, Over) /\ OneDoomedEach(wire', p4Ended, late)
          /\ Numbered(wire', p4Cmd)
      BY <3>1, <3>2, <3>3, <3>4, <3>5, AppendCmd
    <3>7. LateInv'
      BY <1>3, <3>1, <3>6 DEF LateInv, HandLate
    <3>8. /\ wire' \in Seq(Frames) /\ Len(wire) \in Nat /\ Len(wire') = Len(wire) + 1
          /\ wire'[Len(wire) + 1] = f /\ \A i \in 1 .. Len(wire) : wire'[i] = wire[i]
      BY <3>1, <3>5, AppendEntries
    <3>9. ASSUME NEW i \in 1 .. Len(wire')
          PROVE  (i \in 1 .. Len(wire) /\ wire'[i] = wire[i]) \/ wire'[i] = f
      BY <3>8
    <3>10. Before(wire', nCmds)
      BY <3>4, <3>9 DEF IInv, OrderInv, Before
    <3>11. \A i \in 1 .. Len(wire'), j \in 1 .. Len(fifo) : IsCmd(wire'[i]) => wire'[i].val < fifo[j].val
      <4>1. \A j \in 1 .. Len(fifo) : f.val < fifo[j].val
        BY <3>4 DEF After, IInv, Types, FifoType
      <4> QED
        BY <3>9, <4>1 DEF IInv, OrderInv
    <3>12. OrderInv'
      BY <1>3, <3>6, <3>10, <3>11 DEF IInv, OrderInv
    <3>13. WireType'
      BY <3>5, <3>8, TxAssumption DEF WireType
    <3> QED
      BY <3>7, <3>12, <3>13 DEF IInv, Types, FifoType, CountType
  <2> QED
    BY <2>1, <2>2, <2>3
<1> QED
  BY <1>2, <1>4 DEF IInv, Types, HeldType, MapType, ContType, ScheduledIn, ConnType, SchedulerFresh

-----------------------------------------------------------------------------
(* The wire and the P4.                                                    *)

\* The P4 takes a frame: a doomed command is late now, and was the only one of
\* its connection.
LEMMA ReceiveKeeps == ASSUME IInv, Receive PROVE IInv'
<1> DEFINE f == Head(wire)
<1>0. /\ wire \in Seq(Frames) /\ wire # <<>> /\ wire' = Tail(wire) /\ Over' = Over /\ Over \in Nat
      /\ p4Ended \in Nat /\ late \in Nat /\ p4Cmd \in Nat /\ LateInv /\ OrderInv
  BY DEF Receive, schedVars, connVars, taskVars, inputVars, IInv, Types, WireType,
         CountType, Over, ConnType
<1>1. /\ wire' \in Seq(Frames) /\ Len(wire) \in Nat \ {0} /\ Len(wire') = Len(wire) - 1
      /\ f = wire[1] /\ f \in Frames
      /\ \A i \in 1 .. Len(wire') : i + 1 \in 1 .. Len(wire) /\ wire'[i] = wire[i + 1]
  BY <1>0, TailEntries
<1>2. /\ p4Ended' = (IF IsEnd(f) THEN f.ep ELSE p4Ended)
      /\ late' = (IF IsCmd(f) /\ f.ep <= p4Ended THEN late + 1 ELSE late)
      /\ p4Cmd' = (IF IsCmd(f) THEN f.val ELSE p4Cmd)
  BY DEF Receive, schedVars, connVars, taskVars, inputVars, IsEnd, IsCmd
<1>3. EndsInOrder(wire, p4Ended, Over) /\ OneDoomedEach(wire, p4Ended, late) /\ Numbered(wire, p4Cmd)
  BY <1>0 DEF LateInv, OrderInv
<1>4. /\ p4Ended' \in Nat /\ late' \in Nat /\ p4Cmd' \in Nat
      /\ EndsInOrder(wire', p4Ended', Over) /\ OneDoomedEach(wire', p4Ended', late')
      /\ Numbered(wire', p4Cmd')
      /\ \A i \in 1 .. Len(wire') : Doomed(wire', p4Ended', i) => Doomed(wire, p4Ended, i + 1)
      /\ late' # late => Doomed(wire, p4Ended, 1)
  BY <1>0, <1>2, <1>3, TailTaken
<1>5. UNCHANGED <<slots, map, fifo, cont, contCursor, connected, connValid, epoch, pc, hand, snap,
                 budget, nCmds>>
  BY DEF Receive, schedVars, connVars, taskVars, inputVars
<1>6. HeldType'
  <2>1. p4Level' \in [HeldKeys -> Levels \cup {Unknown}]
    <3>1. CASE f.kind = "held"
      <4>1. f.id \in HeldKeys /\ f.val \in Levels
        BY <1>1, <3>1 DEF Frames
      <4>2. p4Level' = [p4Level EXCEPT ![f.id] = f.val]
        BY <3>1 DEF Receive
      <4> QED
        BY <4>1, <4>2 DEF IInv, Types, HeldType
    <3>2. CASE f.kind # "held" /\ f.kind = "conn" /\ f.val = 0
      <4>1. p4Level' = [k \in HeldKeys |-> IF p4Level[k] = Unknown THEN Unknown
                                           ELSE ReleaseOf[p4Level[k]]]
        BY <3>2 DEF Receive
      <4>2. ASSUME NEW k \in HeldKeys, p4Level[k] # Unknown PROVE ReleaseOf[p4Level[k]] \in Levels
        BY <4>2, HeldAssumption DEF IInv, Types, HeldType
      <4> QED
        BY <4>1, <4>2
    <3>3. CASE f.kind # "held" /\ ~(f.kind = "conn" /\ f.val = 0)
      <4>1. p4Level' = p4Level
        BY <3>3 DEF Receive
      <4> QED
        BY <4>1 DEF IInv, Types, HeldType
    <3> QED
      BY <3>1, <3>2, <3>3
  <2>2. p4Conn' \in {Unknown, 0, 1}
    BY <1>1 DEF Receive, IInv, Types, HeldType, Frames
  <2> QED
    BY <1>5, <2>1, <2>2 DEF IInv, Types, HeldType
<1> HIDE DEF f
<1>7. LateInv'
  <2>1. HandLate'
    <3> SUFFICES ASSUME IsCmd(hand["tx"])
                 PROVE  /\ hand["tx"].ep <= epoch
                        /\ hand["tx"].ep <= Over =>
                             /\ late' < hand["tx"].ep
                             /\ \A i \in 1 .. Len(wire') :
                                  Doomed(wire', p4Ended', i) => wire'[i].ep < hand["tx"].ep
      BY <1>0, <1>5 DEF HandLate
    <3>1. hand["tx"].ep <= epoch
      BY <1>0 DEF LateInv, HandLate
    <3>2. ASSUME hand["tx"].ep <= Over
          PROVE  /\ late' < hand["tx"].ep
                 /\ \A i \in 1 .. Len(wire') :
                      Doomed(wire', p4Ended', i) => wire'[i].ep < hand["tx"].ep
      <4>1. /\ late < hand["tx"].ep
            /\ \A i \in 1 .. Len(wire) : Doomed(wire, p4Ended, i) => wire[i].ep < hand["tx"].ep
        BY <1>0, <3>2 DEF LateInv, HandLate
      <4>2. CASE late' # late
        <5>1. 1 \in 1 .. Len(wire) /\ wire[1].ep \in Nat /\ hand["tx"].ep \in Nat
          <6>1. hand["tx"] \in Frames /\ wire[1] \in Frames
            BY <1>1 DEF IInv, Types, TaskType, Tasks
          <6> QED
            BY <1>1, <6>1 DEF Frames, AnyFrame
        <5>2. late < wire[1].ep /\ wire[1].ep < hand["tx"].ep
          BY <1>3, <1>4, <4>1, <4>2, <5>1 DEF OneDoomedEach
        <5>3. late' = late + 1
          BY <1>2, <4>2
        <5> QED
          BY <1>0, <1>1, <1>4, <4>1, <5>1, <5>2, <5>3
      <4>3. CASE late' = late
        BY <1>1, <1>4, <4>1, <4>3
      <4> QED
        BY <4>2, <4>3
    <3> QED
      BY <3>1, <3>2
  <2> QED
    BY <1>0, <1>4, <2>1 DEF LateInv
<1>8. OrderInv'
  <2>0. 1 \in 1 .. Len(wire)
    BY <1>1
  <2>1. p4Cmd' <= nCmds
    BY <1>0, <1>1, <1>2, <2>0 DEF OrderInv, Before
  <2>2. \A j \in 1 .. Len(fifo) : IsCmd(fifo[j]) => p4Cmd' < fifo[j].val
    BY <1>0, <1>1, <1>2, <2>0 DEF OrderInv, Numbered
  <2>3. Numbered(fifo, p4Cmd')
    BY <1>0, <2>2 DEF OrderInv, Numbered
  <2>4. Before(wire', nCmds)
    BY <1>0, <1>1 DEF OrderInv, Before
  <2>5. \A i \in 1 .. Len(wire'), j \in 1 .. Len(fifo) : IsCmd(wire'[i]) => wire'[i].val < fifo[j].val
    BY <1>0, <1>1 DEF OrderInv
  <2>6. IsCmd(hand["tx"]) =>
          /\ p4Cmd' < hand["tx"].val /\ hand["tx"].val <= nCmds /\ After(hand["tx"].val, fifo)
          /\ \A i \in 1 .. Len(wire') : IsCmd(wire'[i]) => wire'[i].val < hand["tx"].val
    BY <1>0, <1>1, <1>2, <2>0 DEF OrderInv
  <2>7. Before(fifo, nCmds)
    BY <1>0 DEF OrderInv
  <2> QED
    BY <1>4, <1>5, <2>1, <2>3, <2>4, <2>5, <2>6, <2>7 DEF OrderInv
<1>9. WireType' /\ CountType'
  BY <1>1, <1>4, <1>5, TxAssumption DEF IInv, Types, WireType, CountType
<1> QED
  BY <1>6, <1>7, <1>8, <1>9, <1>5
     DEF IInv, Types, MapType, FifoType, ContType, ScheduledIn, ConnType, TaskType, SchedulerFresh

\* A frame is lost on the way.
LEMMA LoseKeeps == ASSUME IInv, Lose PROVE IInv'
<1> USE DEF Lose, schedVars, connVars, taskVars, p4Vars, inputVars
<1>0. /\ wire \in Seq(Frames) /\ wire # <<>> /\ wire' = Tail(wire) /\ Over' = Over /\ Over \in Nat
      /\ p4Ended \in Nat /\ late \in Nat /\ p4Cmd \in Nat /\ LateInv /\ OrderInv
  BY DEF IInv, Types, WireType, CountType, Over, ConnType
<1>1. /\ wire' \in Seq(Frames) /\ Len(wire) \in Nat \ {0} /\ Len(wire') = Len(wire) - 1
      /\ \A i \in 1 .. Len(wire') : i + 1 \in 1 .. Len(wire) /\ wire'[i] = wire[i + 1]
  BY <1>0, TailEntries
<1>2. /\ EndsInOrder(wire', p4Ended, Over) /\ OneDoomedEach(wire', p4Ended, late)
      /\ Numbered(wire', p4Cmd)
      /\ \A i \in 1 .. Len(wire') : Doomed(wire', p4Ended, i) => Doomed(wire, p4Ended, i + 1)
  BY <1>0, TailLost DEF LateInv, OrderInv
<1>3. LateInv'
  <2>1. HandLate'
    BY <1>0, <1>1, <1>2 DEF LateInv, HandLate
  <2> QED
    BY <1>0, <1>2, <2>1 DEF LateInv
<1>4. OrderInv'
  <2>1. Before(wire', nCmds)
    BY <1>0, <1>1 DEF OrderInv, Before
  <2>2. \A i \in 1 .. Len(wire'), j \in 1 .. Len(fifo) : IsCmd(wire'[i]) => wire'[i].val < fifo[j].val
    BY <1>0, <1>1 DEF OrderInv
  <2>3. IsCmd(hand["tx"]) =>
          \A i \in 1 .. Len(wire') : IsCmd(wire'[i]) => wire'[i].val < hand["tx"].val
    BY <1>0, <1>1 DEF OrderInv
  <2> QED
    BY <1>0, <1>2, <2>1, <2>2, <2>3 DEF OrderInv
<1>5. WireType'
  BY <1>1, TxAssumption DEF IInv, Types, WireType
<1> QED
  BY <1>3, <1>4, <1>5
     DEF IInv, Types, HeldType, MapType, FifoType, ContType, ScheduledIn, ConnType, TaskType,
         CountType, SchedulerFresh

\* The P4 restarts.
LEMMA RestartKeeps == ASSUME IInv, Restart PROVE IInv'
<1> USE DEF Restart, schedVars, connVars, taskVars, inputVars
<1>1. LateInv' /\ OrderInv' /\ WireType' /\ FifoType' /\ CountType'
  BY ChainSame
<1>2. HeldType'
  BY DEF IInv, Types, HeldType
<1> QED
  BY <1>1, <1>2 DEF IInv, Types, MapType, ContType, ScheduledIn, ConnType, TaskType, SchedulerFresh

-----------------------------------------------------------------------------
\* Every step of the three tasks, the wire and the P4 keeps the invariant.
LEMMA NextInv == IInv /\ [Next]_vars => IInv'
<1> SUFFICES ASSUME IInv, [Next]_vars PROVE IInv'
  OBVIOUS
<1>0. {"usb", "tx", "hb"} \subseteq Tasks
  BY DEF Tasks
<1>1. CASE Input
  BY <1>1, MidiHeldKeeps, MidiAbsoluteKeeps, MidiJogKeeps, MidiDiscreteKeeps, UsbConnectKeeps,
     UsbDisconnectKeeps DEF Input
<1>2. CASE UsbStep
  BY <1>0, <1>2, UsbReplayKeeps, UsbPublishKeeps, ReplayInputKeeps, HeldPickKeeps, HeldSendKeeps,
     HeldMarkKeeps DEF UsbStep
<1>3. CASE HbStep
  BY <1>0, <1>3, HeartbeatStartKeeps, ReplayInputKeeps, HeldPickKeeps, HeldSendKeeps,
     HeldMarkKeeps DEF HbStep
<1>4. CASE TxStep
  BY <1>0, <1>4, TranslatorStartKeeps, HeldPickKeeps, HeldSendKeeps, HeldMarkKeeps,
     TakeDiscreteKeeps, TakeContinuousKeeps, SendScheduledKeeps DEF TxStep
<1>5. CASE Receive \/ Lose \/ Restart
  BY <1>5, ReceiveKeeps, LoseKeeps, RestartKeeps
<1>6. CASE UNCHANGED vars
  <2> USE <1>6 DEF vars, schedVars, connVars, taskVars, p4Vars, inputVars
  <2>1. LateInv' /\ OrderInv' /\ WireType' /\ FifoType' /\ CountType'
    BY ChainSame
  <2> QED
    BY <2>1 DEF IInv, Types, HeldType, MapType, ContType, ScheduledIn, ConnType, TaskType,
       SchedulerFresh
<1> QED
  BY <1>1, <1>2, <1>3, <1>4, <1>5, <1>6 DEF Next

\* The inductive invariant holds throughout every run.
THEOREM Invariance == Spec => []IInv
BY InitInv, NextInv, PTL DEF Spec

\* The state keeps its types: queues and wire within their capacity, one slot
\* for each scheduled control, saturated sums within an int16_t.
THEOREM TypeCorrect == Spec => []TypeOK
<1>1. IInv => TypeOK
  <2> SUFFICES ASSUME IInv PROVE TypeOK
    OBVIOUS
  <2>1. ASSUME NEW c \in ContSlots
        PROVE  /\ cont[c].dirty => cont[c].assigned
               /\ cont[c].f.val \in -DeltaMax - 1 .. DeltaMax \/ cont[c].f.val \in AbsValues
               /\ \A d \in ContSlots : ScheduledIn(d, cont[c].f) /\ cont[c].assigned => c = d
    BY DEF IInv, Types, ContType, ContVal, DeltaRange
  <2> QED
    BY <2>1 DEF TypeOK, IInv, Types, HeldType, MapType, Positions, FifoType, ContType, ConnType,
       TaskType, WireType
<1> QED
  BY <1>1, Invariance, PTL

\* A disconnection empties the scheduler, so at most one command of each
\* connection, the one the translator had taken, reaches the P4 after the news
\* of its end (flx4_controller_connection_cb, flx4_schedule_pending_events).
THEOREM OneLateEach == Spec => []AtMostOneLate
<1>1. IInv => AtMostOneLate
  <2> SUFFICES ASSUME IInv PROVE AtMostOneLate
    OBVIOUS
  <2>1. late <= p4Ended /\ p4Ended <= Over /\ late \in Nat /\ p4Ended \in Nat /\ epoch \in Nat
    BY DEF IInv, LateInv, OneDoomedEach, EndsInOrder, Types, CountType, ConnType
  <2>2. Over <= epoch /\ Over \in Int
    BY <2>1 DEF Over
  <2> QED
    BY <2>1, <2>2 DEF AtMostOneLate, IInv
<1> QED
  BY <1>1, Invariance, PTL

\* Commands reach the P4 in the order in which they happened, whatever is
\* dropped, lost or sent between them.
THEOREM CommandOrder == Spec => CommandsInOrder
<1> DEFINE Step == \A i \in DOMAIN wire : i = 1 /\ wire[i].kind = "cmd" /\ wire' = Tail(wire)
                     => wire[i].val > p4Cmd
<1>1. IInv => [Step]_vars
  <2> SUFFICES ASSUME IInv, NEW i \in DOMAIN wire, i = 1, wire[i].kind = "cmd"
               PROVE  wire[i].val > p4Cmd
    OBVIOUS
  <2>1. i \in 1 .. Len(wire) /\ IsCmd(wire[i]) /\ wire[i] \in Frames
    BY DEF IInv, Types, WireType, IsCmd
  <2>2. p4Cmd < wire[i].val /\ wire[i].val \in Nat /\ p4Cmd \in Nat
    BY <2>1 DEF IInv, OrderInv, Numbered, Frames, IsCmd, Types, CountType
  <2> QED
    BY <2>2
<1> HIDE DEF Step
<1>2. Spec => [][Step]_vars
  BY <1>1, Invariance, PTL
<1> QED
  BY <1>2 DEF CommandsInOrder, Step

-----------------------------------------------------------------------------
(* Jog movement.                                                           *)

\* A sample in the translator's hand is on its way out, so that nothing that
\* replaces what the hand holds can drop movement.
JogInv ==
  /\ JogConserved
  /\ jogIn \in Int /\ p4Jog \in Int /\ jogLost \in Int
  /\ hand["tx"].kind = "cont" => pc["tx"] = "contSend"

\* Every term of the balance is an integer.
LEMMA JogTypes ==
  ASSUME IInv
  PROVE  /\ \A f \in Frames : JogOf(f) \in Int
         /\ \A c \in ContSlots : DueJog(cont[c]) \in Int
         /\ hand["tx"] \in Frames /\ JogIn(wire) \in Int /\ ScheduledJog \in Int
<1>1. \A f \in Frames : JogOf(f) \in Int
  BY DEF JogOf, Frames, AnyFrame
<1>2. ASSUME NEW s \in ContSlot PROVE DueJog(s) \in Int
  <2>1. s.f \in Frames
    BY DEF ContSlot
  <2> QED
    BY <1>1, <2>1 DEF DueJog
<1>3. \A c \in ContSlots : DueJog(cont[c]) \in Int
  BY <1>2 DEF IInv, Types, ContType
<1>4. hand["tx"] \in Frames /\ wire \in Seq(Frames)
  BY DEF IInv, Types, TaskType, WireType, Tasks
<1>5. JogIn(wire) \in Int
  <2> DEFINE v == [n \in DOMAIN wire |-> JogOf(wire[n])]
  <2>1. Len(wire) \in Nat /\ \A n \in 1 .. Len(wire) : v[n] \in Int
    BY <1>1, <1>4
  <2>2. JogIn(wire) = SumUpTo(v, Len(wire))
    BY DEF JogIn
  <2> HIDE DEF v
  <2> QED
    BY <2>1, <2>2, SumType
<1>6. ScheduledJog \in Int
  <2> DEFINE v == [n \in 1 .. ContCap |-> DueJog(cont[n - 1])]
  <2>1. ContCap \in Nat
    BY TxAssumption
  <2>2. \A n \in 1 .. ContCap : v[n] \in Int
    BY <1>3, <2>1 DEF ContSlots
  <2>3. ScheduledJog = SumUpTo(v, ContCap)
    BY DEF ScheduledJog
  <2> HIDE DEF v
  <2> QED
    BY <2>1, <2>2, <2>3, SumType
<1> QED
  BY <1>1, <1>3, <1>4, <1>5, <1>6

\* A frame at the end of the wire adds its movement, ...
LEMMA AppendJog ==
  ASSUME NEW w \in Seq(Frames), NEW f \in Frames
  PROVE  JogIn(Append(w, f)) = JogIn(w) + JogOf(f)
<1> DEFINE a == Append(w, f)
           jw == [n \in DOMAIN w |-> JogOf(w[n])]
           ja == [n \in DOMAIN a |-> JogOf(a[n])]
<1>1. /\ Len(w) \in Nat /\ Len(a) = Len(w) + 1 /\ a[Len(w) + 1] = f
      /\ DOMAIN w = 1 .. Len(w) /\ DOMAIN a = 1 .. Len(w) + 1
      /\ \A n \in 1 .. Len(w) : a[n] = w[n]
  OBVIOUS
<1> HIDE DEF a
<1>2. (\A n \in 1 .. Len(w) : ja[n] = jw[n]) /\ ja[Len(w) + 1] = JogOf(f)
  BY <1>1
<1>3. JogIn(w) = SumUpTo(jw, Len(w)) /\ JogIn(a) = SumUpTo(ja, Len(w) + 1)
  BY <1>1 DEF JogIn
<1> HIDE DEF jw, ja
<1>4. Len(w) \in Nat
  BY <1>1
<1>5. SumUpTo(ja, Len(w) + 1) = SumUpTo(ja, Len(w)) + ja[Len(w) + 1]
  BY <1>4, SumNext, Zenon
<1>6. \A n \in 1 .. Len(w) : ja[n] = jw[n]
  BY <1>2
<1>7. SumUpTo(ja, Len(w)) = SumUpTo(jw, Len(w))
  BY <1>4, <1>6, SumSame, Zenon
<1> QED
  BY <1>2, <1>3, <1>5, <1>7 DEF a

\* ... and the frame taken from its front takes its own away.
LEMMA TailJog ==
  ASSUME NEW w \in Seq(Frames), w # <<>>
  PROVE  JogIn(w) = JogOf(Head(w)) + JogIn(Tail(w))
<1> DEFINE t == Tail(w)
           jw == [n \in DOMAIN w |-> JogOf(w[n])]
           jt == [n \in DOMAIN t |-> JogOf(t[n])]
<1>1. /\ Len(t) \in Nat /\ Len(w) = Len(t) + 1 /\ w[1] = Head(w)
      /\ DOMAIN t = 1 .. Len(t) /\ DOMAIN w = 1 .. Len(t) + 1
      /\ \A n \in 1 .. Len(t) : t[n] = w[n + 1]
      /\ \A n \in 1 .. Len(t) + 1 : w[n] \in Frames
  OBVIOUS
<1> HIDE DEF t
<1>2. \A f \in Frames : JogOf(f) \in Int
  BY DEF JogOf, Frames, AnyFrame
<1>3. jw \in [1 .. Len(t) + 1 -> Int] /\ jw[1] = JogOf(Head(w))
  BY <1>1, <1>2
<1>4. jt = Rest(jw, Len(t))
  BY <1>1 DEF Rest
<1>5. JogIn(w) = SumUpTo(jw, Len(t) + 1) /\ JogIn(t) = SumUpTo(jt, Len(t))
  BY <1>1 DEF JogIn
<1> HIDE DEF jw, jt
<1>6. Len(t) \in Nat /\ jw \in [1 .. Len(t) + 1 -> Int]
  BY <1>1, <1>3
<1>7. SumUpTo(jw, Len(t) + 1) = jw[1] + SumUpTo(Rest(jw, Len(t)), Len(t))
  BY <1>6, SumTail, Zenon
<1> QED
  BY <1>3, <1>4, <1>5, <1>7 DEF t

\* What one slot holds may change without touching the others' movement.
LEMMA SlotJog ==
  ASSUME IInv, NEW c \in ContSlots, NEW s \in ContSlot, cont' = [cont EXCEPT ![c] = s]
  PROVE  ScheduledJog' = ScheduledJog - DueJog(cont[c]) + DueJog(s) /\ DueJog(s) \in Int
<1> DEFINE v == [n \in 1 .. ContCap |-> DueJog(cont[n - 1])]
           w == [n \in 1 .. ContCap |-> DueJog(cont'[n - 1])]
           i == c + 1
<1>1. ContCap \in Nat /\ c \in Nat /\ i \in 1 .. ContCap /\ i - 1 = c
  BY TxAssumption DEF ContSlots
<1>2. cont'[c] = s /\ \A d \in ContSlots : d # c => cont'[d] = cont[d]
  BY DEF IInv, Types, ContType
<1>3. DueJog(s) \in Int
  <2>1. s.f \in Frames
    BY DEF ContSlot
  <2> QED
    BY <2>1, JogTypes DEF DueJog
<1>4. \A n \in 1 .. ContCap : n - 1 \in ContSlots /\ (n # i => n - 1 # c)
  BY <1>1 DEF ContSlots
<1>5. \A n \in 1 .. ContCap : v[n] = DueJog(cont[n - 1]) /\ w[n] = DueJog(cont'[n - 1])
  OBVIOUS
<1>6. v[i] = DueJog(cont[c]) /\ w[i] = DueJog(s)
  BY <1>1, <1>2, <1>5
<1>7. ScheduledJog = SumUpTo(v, ContCap) /\ ScheduledJog' = SumUpTo(w, ContCap)
  BY DEF ScheduledJog
<1> HIDE DEF v, w, i
<1>8. \A n \in 1 .. ContCap : n # i => w[n] = v[n]
  BY <1>2, <1>4, <1>5
<1>9. \A n \in 1 .. ContCap : v[n] \in Int
  BY <1>4, <1>5, JogTypes
<1>10. \A n \in 1 .. ContCap : v[n] \in Int /\ w[n] \in Int
  BY <1>3, <1>6, <1>8, <1>9
<1>11. ContCap \in Nat /\ i \in 1 .. ContCap
  BY <1>1
<1>12. SumUpTo(w, ContCap) = SumUpTo(v, ContCap) - v[i] + w[i]
  BY <1>8, <1>10, <1>11, SumUpdate
<1> QED
  BY <1>3, <1>6, <1>7, <1>12

\* A reset scheduler holds no movement.
LEMMA ResetJog ==
  ASSUME NEW q, \A c \in ContSlots : ~q[c].dirty
  PROVE  SumUpTo([n \in 1 .. ContCap |-> DueJog(q[n - 1])], ContCap) = 0
<1> DEFINE v == [n \in 1 .. ContCap |-> DueJog(q[n - 1])]
<1>1. ContCap \in Nat
  BY TxAssumption
<1>2. \A n \in 1 .. ContCap : v[n] = 0
  BY <1>1 DEF ContSlots, DueJog
<1> HIDE DEF v
<1>3. SumUpTo(v, ContCap) = 0
  BY <1>1, <1>2, SumZero
<1> QED
  BY <1>3 DEF v

\* Nothing has moved at first.
LEMMA JogInit == Init => JogInv
<1> SUFFICES ASSUME Init PROVE JogInv
  OBVIOUS
<1>1. /\ wire = <<>> /\ jogIn = 0 /\ p4Jog = 0 /\ jogLost = 0
      /\ hand["tx"] = NoFrame /\ \A c \in ContSlots : ~cont[c].dirty
  BY DEF Init, Tasks, FreeSlot
<1>2. ScheduledJog = 0
  BY <1>1, ResetJog DEF ScheduledJog
<1>3. JogIn(wire) = 0
  <2>1. Len(<<>>) = 0
    OBVIOUS
  <2> QED
    BY <1>1, <2>1, SumEmpty DEF JogIn
<1>4. JogOf(hand["tx"]) = 0 /\ hand["tx"].kind # "cont"
  BY <1>1 DEF JogOf, NoFrame
<1>5. JogConserved
  BY <1>1, <1>2, <1>3, <1>4 DEF JogConserved
<1> QED
  BY <1>1, <1>4, <1>5 DEF JogInv

\* The balance: what comes in goes to the P4, the wire, the hand, the slots or
\* is lost.
LEMMA JogBalance ==
  ASSUME IInv, JogInv, NEW a \in Int, NEW b \in Int, NEW c \in Int, NEW d \in Int, NEW e \in Int,
         jogIn' = jogIn + a, p4Jog' = p4Jog + b, JogIn(wire') = JogIn(wire) + c,
         JogOf(hand'["tx"]) = JogOf(hand["tx"]) + d, ScheduledJog' = ScheduledJog + e,
         jogLost' = jogLost + (a - (b + c + d + e)),
         hand'["tx"].kind = "cont" => pc'["tx"] = "contSend"
  PROVE  JogInv'
<1>1. /\ JogOf(hand["tx"]) \in Int /\ JogIn(wire) \in Int /\ ScheduledJog \in Int
      /\ jogIn \in Int /\ p4Jog \in Int /\ jogLost \in Int
  BY JogTypes DEF JogInv
<1>2. jogIn = p4Jog + JogIn(wire) + JogOf(hand["tx"]) + ScheduledJog + jogLost
  BY DEF JogInv, JogConserved
<1>3. jogIn' = p4Jog' + JogIn(wire') + JogOf(hand'["tx"]) + ScheduledJog' + jogLost'
  BY <1>1, <1>2
<1>4. jogIn' \in Int /\ p4Jog' \in Int /\ jogLost' \in Int
  BY <1>1
<1> QED
  BY <1>3, <1>4 DEF JogInv, JogConserved

\* A step that moves nothing.
LEMMA JogStill ==
  ASSUME IInv, JogInv, UNCHANGED <<jogIn, p4Jog, wire, cont, jogLost>>,
         JogOf(hand'["tx"]) = JogOf(hand["tx"]),
         hand'["tx"].kind = "cont" => pc'["tx"] = "contSend"
  PROVE  JogInv'
<1>1. ScheduledJog' = ScheduledJog
  BY DEF ScheduledJog
<1> QED
  BY <1>1 DEF JogInv, JogConserved

\* A frame that is sent, or fails to be, takes its movement to the wire or to
\* what is lost.
LEMMA JogTry ==
  ASSUME IInv, JogInv, NEW f \in Frames, Transmit(f) \/ Fail(f),
         UNCHANGED <<jogIn, p4Jog, cont>>,
         hand'["tx"] \in Frames, JogOf(hand["tx"]) = JogOf(hand'["tx"]) + JogOf(f),
         hand'["tx"].kind = "cont" => pc'["tx"] = "contSend"
  PROVE  JogInv'
<1> DEFINE j == JogOf(f)
           h == JogOf(hand'["tx"])
<1>1. /\ j \in Int /\ h \in Int /\ wire \in Seq(Frames) /\ JogIn(wire) \in Int
      /\ jogIn \in Int /\ p4Jog \in Int /\ jogLost \in Int
  BY JogTypes DEF JogInv, IInv, Types, WireType
<1>2. ScheduledJog' = ScheduledJog + 0
  <2>1. ScheduledJog' = ScheduledJog /\ ScheduledJog \in Int
    BY JogTypes DEF ScheduledJog
  <2> QED
    BY <2>1
<1> HIDE DEF j, h
<1>3. JogOf(hand["tx"]) = h + j /\ h = JogOf(hand["tx"]) + (0 - j)
  BY <1>1 DEF j, h
<1>4. CASE Transmit(f)
  <2>1. JogIn(wire') = JogIn(wire) + j /\ jogLost' = jogLost
    BY <1>1, <1>4, AppendJog DEF Transmit, j
  <2>2. jogLost' = jogLost + (0 - (0 + j + (0 - j) + 0)) /\ jogIn' = jogIn + 0 /\ p4Jog' = p4Jog + 0
    BY <1>1, <2>1
  <2>3. 0 - j \in Int
    BY <1>1
  <2> QED
    BY <1>1, <1>2, <1>3, <2>1, <2>2, <2>3, JogBalance DEF h
<1>5. CASE Fail(f)
  <2>1. wire' = wire /\ jogLost' = jogLost + j
    BY <1>5 DEF Fail, j
  <2>2. jogLost' = jogLost + (0 - (0 + 0 + (0 - j) + 0)) /\ jogIn' = jogIn + 0 /\ p4Jog' = p4Jog + 0
        /\ JogIn(wire') = JogIn(wire) + 0
    BY <1>1, <2>1
  <2>3. 0 - j \in Int
    BY <1>1
  <2> QED
    BY <1>1, <1>2, <1>3, <2>2, <2>3, JogBalance DEF h
<1> QED
  BY <1>4, <1>5

\* Whatever a task other than the translator in the act of sending a sample
\* does with its hand, no movement is in it.
LEMMA HandStill ==
  ASSUME IInv, JogInv, NEW t \in Tasks, NEW l, Goto(t, l), pc[t] # "contSend", NEW g \in Frames,
         hand' = [hand EXCEPT ![t] = g], g = hand[t] \/ g.kind # "cont"
  PROVE  /\ hand'["tx"] \in Frames /\ JogOf(hand'["tx"]) = JogOf(hand["tx"])
         /\ hand'["tx"].kind = "cont" => pc'["tx"] = "contSend"
<1>1. hand \in [Tasks -> Frames] /\ pc \in [Tasks -> Pcs] /\ "tx" \in Tasks
  BY DEF IInv, Types, TaskType, Tasks
<1>2. hand["tx"].kind = "cont" => pc["tx"] = "contSend"
  BY DEF JogInv
<1>3. CASE t = "tx"
  <2>1. hand["tx"].kind # "cont" /\ hand'["tx"] = g /\ g.kind # "cont"
    BY <1>1, <1>2, <1>3
  <2> QED
    BY <2>1 DEF JogOf
<1>4. CASE t # "tx"
  <2>1. hand'["tx"] = hand["tx"] /\ pc'["tx"] = pc["tx"]
    BY <1>1, <1>4 DEF Goto
  <2> QED
    BY <1>1, <1>2, <2>1
<1> QED
  BY <1>3, <1>4

\* A task that moves on with what it held.
LEMMA TaskStill ==
  ASSUME IInv, JogInv, NEW t \in Tasks, NEW l, Goto(t, l), pc[t] # "contSend", UNCHANGED hand
  PROVE  /\ hand'["tx"] \in Frames /\ JogOf(hand'["tx"]) = JogOf(hand["tx"])
         /\ hand'["tx"].kind = "cont" => pc'["tx"] = "contSend"
<1>1. hand[t] \in Frames /\ hand' = [hand EXCEPT ![t] = hand[t]]
  BY DEF IInv, Types, TaskType
<1> QED
  BY <1>1, HandStill

\* A sample that is scheduled brings its movement into a slot: what was there
\* and not yet taken stays in the sum, and what the sum cannot hold is lost.
LEMMA PublishJog ==
  ASSUME IInv, JogInv, NEW f \in Frames, f.kind = "cont", PublishContinuous(f),
         UNCHANGED <<hand, pc, wire, p4Jog>>, jogIn' = jogIn + JogOf(f)
  PROVE  JogInv'
<1>1. /\ JogOf(f) \in Int /\ f.val \in Int /\ JogIn(wire) \in Int /\ ScheduledJog \in Int
      /\ JogOf(hand["tx"]) \in Int /\ jogLost \in Int /\ p4Jog \in Int
  BY JogTypes DEF JogInv, Frames, AnyFrame
<1>2. /\ JogIn(wire') = JogIn(wire) /\ JogOf(hand'["tx"]) = JogOf(hand["tx"])
      /\ p4Jog' = p4Jog /\ (hand'["tx"].kind = "cont" => pc'["tx"] = "contSend")
  BY DEF JogInv
<1>3. ASSUME NEW e \in Int, ScheduledJog' = ScheduledJog + e,
             jogLost' = jogLost + (JogOf(f) - e)
      PROVE  JogInv'
  <2>1. PICK j \in Int : j = JogOf(f)
    BY <1>1
  <2>2. jogIn' = jogIn + j /\ jogLost' = jogLost + (j - e) /\ jogIn \in Int
    BY <2>1, <1>3 DEF JogInv
  <2>3. jogIn = p4Jog + JogIn(wire) + JogOf(hand["tx"]) + ScheduledJog + jogLost
    BY DEF JogInv, JogConserved
  <2>4. jogIn' = p4Jog' + JogIn(wire') + JogOf(hand'["tx"]) + ScheduledJog' + jogLost'
    <3>1. jogIn + j = p4Jog + JogIn(wire) + JogOf(hand["tx"]) + (ScheduledJog + e) + (jogLost + (j - e))
      BY <1>1, <2>2, <2>3
    <3> QED
      BY <1>2, <1>3, <2>2, <3>1
  <2>5. jogIn' \in Int /\ p4Jog' \in Int /\ jogLost' \in Int
    BY <1>1, <1>2, <1>3, <2>2
  <2> QED
    BY <1>2, <2>4, <2>5 DEF JogInv, JogConserved
<1>4. CASE jogLost' = jogLost + JogOf(f) /\ UNCHANGED cont
  <2>1. ScheduledJog' = ScheduledJog
    BY <1>4 DEF ScheduledJog
  <2>2. ScheduledJog' = ScheduledJog + 0 /\ jogLost' = jogLost + (JogOf(f) - 0)
    BY <1>1, <1>4, <2>1
  <2> QED
    BY <1>3, <2>2
<1>5. ASSUME NEW c \in ContSlots, IsSlotFor(c, f),
             cont' = [cont EXCEPT ![c] =
               [assigned |-> TRUE, dirty |-> TRUE,
                f |-> IF cont[c].assigned /\ Accumulates(cont[c], f)
                      THEN [cont[c].f EXCEPT !.val = Saturate(@ + f.val)] ELSE f]],
             jogLost' = IF f.id \in JogIds /\ cont[c].dirty
                        THEN jogLost + f.val + cont[c].f.val
                               - Saturate(cont[c].f.val + f.val)
                        ELSE jogLost
      PROVE  JogInv'
  <2> DEFINE g == IF cont[c].assigned /\ Accumulates(cont[c], f)
                  THEN [cont[c].f EXCEPT !.val = Saturate(@ + f.val)] ELSE f
             s == [assigned |-> TRUE, dirty |-> TRUE, f |-> g]
             old == cont[c].f.val
             sum == Saturate(old + f.val)
  <2>1. /\ cont[c] \in ContSlot /\ cont[c].f \in Frames /\ old \in Int
        /\ cont[c].dirty => cont[c].assigned /\ cont[c].f.kind = "cont" /\ cont[c].f.id = f.id
    <3>1. cont[c] \in ContSlot /\ (cont[c].dirty => cont[c].assigned)
      BY DEF IInv, Types, ContType
    <3>2. cont[c].f \in Frames
      BY <3>1 DEF ContSlot
    <3>3. old \in Int
      BY <3>2 DEF Frames, AnyFrame
    <3> QED
      BY <1>5, <3>1, <3>2, <3>3 DEF IsSlotFor, ScheduledIn
  <2>2. sum \in Int
    BY <1>1, <2>1, TxAssumption DEF Saturate
  <2>3. g \in Frames
    <3>1. CASE cont[c].assigned /\ Accumulates(cont[c], f)
      <4>1. g = [cont[c].f EXCEPT !.val = sum] /\ cont[c].f.kind = "cont"
        BY <2>1, <3>1 DEF Accumulates
      <4> HIDE DEF sum
      <4> QED
        BY <2>1, <2>2, <4>1 DEF Frames, AnyFrame
    <3> QED
      BY <3>1
  <2>4. s \in ContSlot
    BY <2>3 DEF ContSlot
  <2>5. DueJog(s) = JogOf(g)
    BY DEF DueJog
  <2>6. cont' = [cont EXCEPT ![c] = s]
    BY <1>5
  <2> HIDE DEF s
  <2>7. ScheduledJog' = ScheduledJog - DueJog(cont[c]) + DueJog(s) /\ DueJog(cont[c]) \in Int
        /\ DueJog(s) \in Int
    BY <2>4, <2>6, SlotJog, JogTypes
  <2>8. CASE f.id \in JogIds /\ cont[c].dirty
    <3>1. g = [cont[c].f EXCEPT !.val = sum]
      BY <2>1, <2>8 DEF Accumulates
    <3>2. g.kind = "cont" /\ g.id = f.id /\ g.val = sum
      <4> HIDE DEF sum, g
      <4> QED
        BY <2>1, <2>8, <3>1 DEF Frames, AnyFrame
    <3>3. DueJog(s) = sum /\ DueJog(cont[c]) = old /\ JogOf(f) = f.val
      BY <2>1, <2>5, <2>8, <3>2 DEF DueJog, JogOf
    <3>4. jogLost' = jogLost + f.val + old - sum
      BY <1>5, <2>8
    <3> HIDE DEF sum, old, g
    <3>5. sum - old \in Int /\ ScheduledJog' = ScheduledJog + (sum - old)
          /\ jogLost' = jogLost + (JogOf(f) - (sum - old))
      BY <1>1, <2>1, <2>2, <2>7, <3>3, <3>4
    <3> QED
      BY <1>3, <3>5
  <2>9. CASE f.id \in JogIds /\ ~cont[c].dirty
    <3>1. g = f /\ jogLost' = jogLost
      BY <1>5, <2>9 DEF Accumulates
    <3>2. DueJog(s) = JogOf(f) /\ DueJog(cont[c]) = 0
      BY <2>5, <2>9, <3>1 DEF DueJog
    <3>3. ScheduledJog' = ScheduledJog + JogOf(f) /\ jogLost' = jogLost + (JogOf(f) - JogOf(f))
      BY <1>1, <2>7, <3>1, <3>2
    <3> QED
      BY <1>1, <1>3, <3>3
  <2>10. CASE f.id \notin JogIds
    <3>1. g = f /\ jogLost' = jogLost /\ JogOf(f) = 0
      BY <1>5, <2>10 DEF Accumulates, JogOf
    <3>2. DueJog(s) = 0
      BY <2>5, <3>1
    <3>3. DueJog(cont[c]) = 0
      BY <2>1, <2>10 DEF DueJog, JogOf
    <3>4. ScheduledJog' = ScheduledJog + 0 /\ jogLost' = jogLost + (JogOf(f) - 0)
      BY <1>1, <2>7, <3>1, <3>2, <3>3
    <3> QED
      BY <1>3, <3>4
  <2> QED
    BY <2>8, <2>9, <2>10
<1> QED
  BY <1>4, <1>5 DEF PublishContinuous

-----------------------------------------------------------------------------
\* The steps of the USB task.
LEMMA UsbJog ==
  ASSUME IInv, JogInv, Input \/ UsbReplay \/ UsbPublish
  PROVE  JogInv'
<1>1. ASSUME NEW k \in HeldKeys, NEW v \in Levels, MidiHeld(k, v) PROVE JogInv'
  BY <1>1, JogStill DEF MidiHeld, schedVars, taskVars, p4Vars, JogInv
<1>2. ASSUME NEW i \in AbsIds, NEW v \in AbsValues, MidiAbsolute(i, v) PROVE JogInv'
  <2> DEFINE f == Frame("cont", i, v)
  <2>1. v \in Int /\ i \in Nat /\ i \notin JogIds
    BY TxAssumption DEF AbsIds, JogIds
  <2>2. f \in Frames /\ f.kind = "cont" /\ JogOf(f) = 0
    BY <2>1, FrameTypes DEF Frame, JogOf
  <2>3. /\ PublishContinuous(f) /\ jogIn \in Int /\ jogIn' = jogIn
        /\ UNCHANGED <<hand, pc, wire, p4Jog>>
    BY <1>2 DEF MidiAbsolute, taskVars, p4Vars, JogInv
  <2> HIDE DEF f
  <2>4. jogIn' = jogIn + JogOf(f)
    BY <2>2, <2>3
  <2> QED
    BY <2>2, <2>3, <2>4, PublishJog
<1>3. ASSUME NEW i \in JogIds, NEW d \in {-DeltaMax, DeltaMax}, MidiJog(i, d) PROVE JogInv'
  <2> DEFINE f == Frame("cont", i, d)
  <2>1. d \in Int /\ i \in Nat
    BY TxAssumption DEF JogIds
  <2>2. f \in Frames /\ f.kind = "cont" /\ JogOf(f) = d
    BY <2>1, FrameTypes DEF Frame, JogOf
  <2>3. PublishContinuous(f) /\ jogIn' = jogIn + d /\ UNCHANGED <<hand, pc, wire, p4Jog>>
    BY <1>3 DEF MidiJog, taskVars, p4Vars
  <2> HIDE DEF f
  <2> QED
    BY <2>2, <2>3, PublishJog
<1>4. CASE MidiDiscrete
  BY <1>4, JogStill DEF MidiDiscrete, EnqueueDiscrete, taskVars, p4Vars, JogInv
<1>5. ASSUME NEW t \in {"snap", "publish"}, pc["usb"] = "idle", Goto("usb", t), UNCHANGED hand
      PROVE  /\ hand'["tx"] = hand["tx"] /\ JogOf(hand'["tx"]) = JogOf(hand["tx"])
             /\ hand'["tx"].kind = "cont" => pc'["tx"] = "contSend"
  BY <1>5 DEF Goto, JogInv, IInv, Types, TaskType, Tasks
<1>6. CASE UsbConnect
  BY <1>5, <1>6, JogStill DEF UsbConnect, schedVars, p4Vars, inputVars
<1>7. CASE UsbDisconnect
  <2>1. /\ ScheduledJog \in Int /\ JogOf(hand["tx"]) \in Int /\ JogIn(wire) \in Int
        /\ jogIn \in Int /\ p4Jog \in Int /\ jogLost \in Int
    BY JogTypes DEF JogInv
  <2>2. /\ UNCHANGED <<wire, jogIn, p4Jog, hand>> /\ jogLost' = jogLost + ScheduledJog
        /\ \A c \in ContSlots : ~cont'[c].dirty
    BY <1>7 DEF UsbDisconnect, inputVars, p4Vars, FreeSlot
  <2>3. ScheduledJog' = 0
    BY <2>2, ResetJog DEF ScheduledJog
  <2>4. jogIn' = p4Jog' + JogIn(wire') + JogOf(hand'["tx"]) + ScheduledJog' + jogLost'
    BY <2>1, <2>2, <2>3 DEF JogInv, JogConserved
  <2>5. hand'["tx"].kind = "cont" => pc'["tx"] = "contSend"
    BY <1>5, <1>7 DEF UsbDisconnect
  <2>6. jogIn' \in Int /\ p4Jog' \in Int /\ jogLost' \in Int
    BY <2>1, <2>2
  <2> QED
    BY <2>4, <2>5, <2>6 DEF JogInv, JogConserved
<1>8. CASE UsbReplay
  BY <1>8, JogStill DEF UsbReplay, schedVars, taskVars, p4Vars, inputVars, JogInv
<1>9. CASE UsbPublish
  <2>1. /\ UNCHANGED <<jogIn, p4Jog, cont, hand>> /\ Goto("usb", "idle") /\ pc["usb"] # "contSend"
        /\ "usb" \in Tasks
    BY <1>9 DEF UsbPublish, schedVars, p4Vars, inputVars, Tasks
  <2>2. /\ hand'["tx"] \in Frames /\ JogOf(hand'["tx"]) = JogOf(hand["tx"])
        /\ hand'["tx"].kind = "cont" => pc'["tx"] = "contSend"
    BY <2>1, TaskStill
  <2>3. ASSUME NEW v \in {0, 1}, Transmit(Frame("conn", 0, v)) \/ Fail(Frame("conn", 0, v))
        PROVE  JogInv'
    <3> DEFINE f == Frame("conn", 0, v)
    <3>1. f \in Frames /\ JogOf(f) = 0 /\ JogOf(hand["tx"]) \in Int
      BY FrameTypes, JogTypes DEF Frame, JogOf
    <3>2. Transmit(f) \/ Fail(f)
      BY <2>3
    <3> HIDE DEF f
    <3>3. JogOf(hand["tx"]) = JogOf(hand'["tx"]) + JogOf(f)
      BY <2>2, <3>1
    <3> QED
      BY <2>1, <2>2, <3>1, <3>2, <3>3, JogTry
  <2>4. CASE Transmit(Frame("conn", 0, IF connected THEN 1 ELSE 0))
    BY <2>3, <2>4
  <2>5. CASE Fail(Frame("conn", 0, 0))
    BY <2>3, <2>5
  <2>6. CASE UNCHANGED <<wire, jogLost>>
    BY <2>1, <2>2, <2>6, JogStill
  <2> QED
    BY <1>9, <2>4, <2>5, <2>6 DEF UsbPublish
<1> QED
  BY <1>1, <1>2, <1>3, <1>4, <1>6, <1>7, <1>8, <1>9 DEF Input

\* The replays and the held levels carry no movement.
LEMMA HeldJog ==
  ASSUME IInv, JogInv, NEW t \in Tasks,
         ReplayInput(t) \/ HeldPick(t) \/ HeldSend(t) \/ HeldMark(t)
  PROVE  JogInv'
<1>0. hand[t] \in Frames /\ NoFrame \in Frames /\ NoFrame.kind # "cont"
  BY FrameTypes DEF IInv, Types, TaskType, NoFrame
<1>1. ASSUME NEW f \in Frames, JogOf(f) = 0, Transmit(f) \/ Fail(f),
             UNCHANGED <<jogIn, p4Jog, cont>>,
             hand'["tx"] \in Frames, JogOf(hand'["tx"]) = JogOf(hand["tx"]),
             hand'["tx"].kind = "cont" => pc'["tx"] = "contSend"
      PROVE  JogInv'
  <2>1. JogOf(hand["tx"]) \in Int
    BY JogTypes
  <2>2. JogOf(hand["tx"]) = JogOf(hand'["tx"]) + JogOf(f)
    BY <1>1, <2>1
  <2> QED
    BY <1>1, <2>2, JogTry
<1>2. CASE ReplayInput(t)
  <2>1. UNCHANGED <<jogIn, p4Jog, cont, hand>> /\ pc[t] = "snap"
    BY <1>2 DEF ReplayInput, schedVars, p4Vars, inputVars
  <2>2. ASSUME NEW i \in AbsIds, snap[t][i] # Unknown, UNCHANGED pc,
               LET f == Frame("cont", i, snap[t][i]) IN Transmit(f) \/ Fail(f)
        PROVE  JogInv'
    <3> DEFINE f == Frame("cont", i, snap[t][i])
    <3>1. i \in Nat /\ i \notin JogIds /\ snap[t][i] \in Int
      <4>1. snap[t] \in Positions
        BY DEF IInv, Types, MapType
      <4>2. snap[t][i] \in AbsValues
        BY <2>2, <4>1 DEF Positions
      <4>3. (\A v \in AbsValues : v \in Int) /\ NAbs \in Nat /\ NJog \in Nat
        BY TxAssumption
      <4>4. i \in Nat /\ i \notin JogIds
        BY <4>3 DEF AbsIds, JogIds
      <4> QED
        BY <4>2, <4>3, <4>4
    <3>2. f \in Frames /\ JogOf(f) = 0
      BY <3>1, FrameTypes DEF Frame, JogOf
    <3>3. Transmit(f) \/ Fail(f)
      BY <2>2
    <3>4. /\ hand'["tx"] \in Frames /\ JogOf(hand'["tx"]) = JogOf(hand["tx"])
          /\ hand'["tx"].kind = "cont" => pc'["tx"] = "contSend"
      BY <2>1, <2>2, JogTypes DEF JogInv
    <3> HIDE DEF f
    <3> QED
      BY <1>1, <2>1, <3>2, <3>3, <3>4
  <2>3. CASE Goto(t, "pick") /\ UNCHANGED <<wire, jogLost>>
    BY <2>1, <2>3, TaskStill, JogStill
  <2> QED
    BY <1>2, <2>2, <2>3 DEF ReplayInput
<1>3. CASE HeldPick(t)
  <2>1. UNCHANGED <<jogIn, p4Jog, wire, cont, jogLost>> /\ pc[t] = "pick"
    BY <1>3 DEF HeldPick, schedVars, p4Vars, inputVars
  <2>2. ASSUME NEW k \in HeldKeys, hand' = [hand EXCEPT ![t] = Frame("held", k, slots[k].desired)],
               Goto(t, "send")
        PROVE  JogInv'
    <3> DEFINE g == Frame("held", k, slots[k].desired)
    <3>1. slots[k].desired \in Levels
      BY DEF IInv, Types, HeldType, Slot
    <3>2. g \in Frames /\ g.kind # "cont"
      BY <3>1, FrameTypes DEF Frame
    <3>3. hand' = [hand EXCEPT ![t] = g]
      BY <2>2
    <3> HIDE DEF g
    <3> QED
      BY <2>1, <2>2, <3>2, <3>3, HandStill, JogStill
  <2>3. CASE Goto(t, AfterHeld(t)) /\ UNCHANGED hand
    BY <2>1, <2>3, TaskStill, JogStill
  <2> QED
    BY <1>3, <2>2, <2>3 DEF HeldPick
<1>4. CASE HeldSend(t)
  <2>1. UNCHANGED <<jogIn, p4Jog, cont>> /\ pc[t] = "send"
    BY <1>4 DEF HeldSend, schedVars, p4Vars, inputVars
  <2>2. JogOf(hand[t]) = 0
    BY <2>1 DEF JogOf, IInv, Types, TaskType
  <2>3. CASE Transmit(hand[t]) /\ Goto(t, "mark") /\ UNCHANGED hand
    BY <1>0, <1>1, <2>1, <2>2, <2>3, TaskStill
  <2>4. CASE Fail(hand[t]) /\ Goto(t, AfterHeld(t)) /\ hand' = [hand EXCEPT ![t] = NoFrame]
    BY <1>0, <1>1, <2>1, <2>2, <2>4, HandStill
  <2> QED
    BY <1>4, <2>3, <2>4 DEF HeldSend
<1>5. CASE HeldMark(t)
  <2>1. /\ UNCHANGED <<jogIn, p4Jog, wire, cont, jogLost>> /\ pc[t] = "mark" /\ Goto(t, "pick")
        /\ hand' = [hand EXCEPT ![t] = NoFrame]
    BY <1>5 DEF HeldMark, schedVars, p4Vars, inputVars
  <2> QED
    BY <1>0, <2>1, HandStill, JogStill
<1> QED
  BY <1>2, <1>3, <1>4, <1>5

\* The translator takes a sample from its slot into its hand and sends it; the
\* commands it takes carry no movement.
LEMMA TranslatorJog ==
  ASSUME IInv, JogInv, TranslatorStart \/ TakeDiscrete \/ TakeContinuous \/ SendScheduled
  PROVE  JogInv'
<1>0. /\ "tx" \in Tasks /\ hand \in [Tasks -> Frames] /\ pc \in [Tasks -> Pcs]
      /\ NoFrame \in Frames /\ NoFrame.kind # "cont" /\ JogOf(NoFrame) = 0
  BY FrameTypes DEF IInv, Types, TaskType, NoFrame, Tasks, JogOf
<1>1. CASE TranslatorStart
  <2>1. /\ UNCHANGED <<jogIn, p4Jog, wire, cont, jogLost, hand>> /\ pc["tx"] = "idle"
        /\ Goto("tx", "pick")
    BY <1>1 DEF TranslatorStart, schedVars, p4Vars, inputVars
  <2> QED
    BY <1>0, <2>1, TaskStill, JogStill
<1>2. CASE TakeDiscrete
  <2>1. UNCHANGED <<jogIn, p4Jog, wire, cont, jogLost>> /\ pc["tx"] = "fifo"
    BY <1>2 DEF TakeDiscrete, p4Vars, inputVars
  <2>2. CASE /\ fifo # <<>> /\ hand' = [hand EXCEPT !["tx"] = Oldest]
             /\ Goto("tx", "fifoSend")
    <3>1. fifo \in Seq(Frames) /\ \A i \in 1 .. Len(fifo) : IsCmd(fifo[i])
      BY DEF IInv, Types, FifoType
    <3>2. Len(fifo) \in Nat \ {0} /\ Oldest = fifo[1] /\ Oldest \in Frames
      BY <2>2, <3>1 DEF Oldest
    <3>3. Oldest \in Frames /\ Oldest.kind # "cont"
      BY <3>1, <3>2 DEF IsCmd
    <3> QED
      BY <1>0, <2>1, <2>2, <3>3, HandStill, JogStill
  <2>3. CASE Goto("tx", "cont") /\ UNCHANGED hand
    BY <1>0, <2>1, <2>3, TaskStill, JogStill
  <2> QED
    BY <1>2, <2>2, <2>3 DEF TakeDiscrete
<1>3. CASE TakeContinuous
  <2>1. UNCHANGED <<jogIn, p4Jog, wire, jogLost>> /\ pc["tx"] = "cont"
    BY <1>3 DEF TakeContinuous, p4Vars, inputVars
  <2>2. ASSUME NEW c \in ContSlots, IsNextContinuous(c), hand' = [hand EXCEPT !["tx"] = cont[c].f],
               cont' = [cont EXCEPT ![c].dirty = FALSE], Goto("tx", "contSend")
        PROVE  JogInv'
    <3>1. PICK s \in ContSlot : s.dirty = FALSE /\ s = [cont[c] EXCEPT !.dirty = FALSE]
      <4>1. cont[c] \in ContSlot /\ FALSE \in BOOLEAN
        BY DEF IInv, Types, ContType
      <4> QED
        BY <4>1 DEF ContSlot
    <3>2. cont' = [cont EXCEPT ![c] = s]
      BY <2>2, <3>1
    <3>3. DueJog(s) = 0 /\ DueJog(cont[c]) = JogOf(cont[c].f)
      BY <2>2, <3>1 DEF DueJog, IsNextContinuous
    <3>4. ScheduledJog' = ScheduledJog - DueJog(cont[c]) + DueJog(s)
      BY <3>2, SlotJog
    <3>5. hand'["tx"] = cont[c].f /\ pc'["tx"] = "contSend" /\ JogOf(hand["tx"]) = 0
      BY <1>0, <2>1, <2>2 DEF Goto, JogInv, JogOf
    <3>6. /\ ScheduledJog \in Int /\ JogIn(wire) \in Int /\ DueJog(cont[c]) \in Int
          /\ jogIn \in Int /\ p4Jog \in Int /\ jogLost \in Int
      BY JogTypes DEF JogInv
    <3>7. JogOf(hand'["tx"]) = DueJog(cont[c])
      BY <3>3, <3>5
    <3>8. jogIn = p4Jog + JogIn(wire) + JogOf(hand["tx"]) + ScheduledJog + jogLost
      BY DEF JogInv, JogConserved
    <3>9. JogIn(wire') = JogIn(wire)
      BY <2>1
    <3>10. jogIn' = p4Jog' + JogIn(wire') + JogOf(hand'["tx"]) + ScheduledJog' + jogLost'
      BY <2>1, <3>3, <3>4, <3>5, <3>6, <3>7, <3>8, <3>9
    <3>11. jogIn' \in Int /\ p4Jog' \in Int /\ jogLost' \in Int
      BY <2>1, <3>6
    <3> QED
      BY <3>5, <3>10, <3>11 DEF JogInv, JogConserved
  <2>3. CASE Goto("tx", "idle") /\ UNCHANGED <<hand, cont>>
    BY <1>0, <2>1, <2>3, TaskStill, JogStill
  <2> QED
    BY <1>3, <2>2, <2>3 DEF TakeContinuous
<1>4. CASE SendScheduled
  <2>1. /\ UNCHANGED <<jogIn, p4Jog, cont>> /\ (Transmit(hand["tx"]) \/ Fail(hand["tx"]))
        /\ hand' = [hand EXCEPT !["tx"] = NoFrame]
    BY <1>4 DEF SendScheduled, schedVars, p4Vars, inputVars
  <2>2. hand'["tx"] = NoFrame /\ hand["tx"] \in Frames /\ JogOf(hand["tx"]) \in Int
    BY <1>0, <2>1, JogTypes
  <2>3. JogOf(hand["tx"]) = JogOf(hand'["tx"]) + JogOf(hand["tx"])
    BY <1>0, <2>2
  <2> QED
    BY <1>0, <2>1, <2>2, <2>3, JogTry
<1> QED
  BY <1>1, <1>2, <1>3, <1>4

\* What leaves the wire goes to the P4 or is lost.
LEMMA WireJog ==
  ASSUME IInv, JogInv, Receive \/ Lose
  PROVE  JogInv'
<1>1. /\ wire \in Seq(Frames) /\ wire # <<>> /\ wire' = Tail(wire)
      /\ UNCHANGED <<jogIn, cont, hand, pc>>
  BY DEF Receive, Lose, schedVars, taskVars, inputVars, IInv, Types, WireType
<1>2. PICK f \in Frames : f = Head(wire)
  BY <1>1
<1>3. /\ JogOf(f) \in Int /\ JogIn(wire) \in Int /\ JogOf(hand["tx"]) \in Int /\ ScheduledJog \in Int
      /\ jogIn \in Int /\ p4Jog \in Int /\ jogLost \in Int
  BY JogTypes DEF JogInv
<1>4. PICK j \in Int : j = JogIn(wire')
  <2>1. wire' \in Seq(Frames)
    BY <1>1
  <2>2. \A n \in 1 .. Len(wire') : JogOf(wire'[n]) \in Int
    BY <2>1, JogTypes
  <2> DEFINE v == [n \in DOMAIN wire' |-> JogOf(wire'[n])]
  <2>3. Len(wire') \in Nat /\ \A n \in 1 .. Len(wire') : v[n] \in Int
    BY <2>1, <2>2
  <2>4. JogIn(wire') = SumUpTo(v, Len(wire'))
    BY DEF JogIn
  <2> HIDE DEF v
  <2> QED
    BY <2>3, <2>4, SumType
<1>5. JogIn(wire) = JogOf(f) + j
  BY <1>1, <1>2, <1>4, TailJog
<1>6. \/ p4Jog' = p4Jog + JogOf(f) /\ jogLost' = jogLost
      \/ p4Jog' = p4Jog /\ jogLost' = jogLost + JogOf(f)
  BY <1>2 DEF Receive, Lose, p4Vars
<1>7. ScheduledJog' = ScheduledJog /\ JogOf(hand'["tx"]) = JogOf(hand["tx"])
  BY <1>1 DEF ScheduledJog
<1>8. jogIn = p4Jog + JogIn(wire) + JogOf(hand["tx"]) + ScheduledJog + jogLost
  BY DEF JogInv, JogConserved
<1>9. jogIn' = p4Jog' + JogIn(wire') + JogOf(hand'["tx"]) + ScheduledJog' + jogLost'
  <2>1. jogIn' = jogIn
    BY <1>1
  <2> QED
    BY <1>3, <1>4, <1>5, <1>6, <1>7, <1>8, <2>1
<1>10. jogIn' \in Int /\ p4Jog' \in Int /\ jogLost' \in Int
  BY <1>1, <1>3, <1>6
<1> QED
  BY <1>1, <1>9, <1>10 DEF JogInv, JogConserved

\* Every step keeps the balance.
LEMMA JogStep == IInv /\ JogInv /\ [Next]_vars => JogInv'
<1> SUFFICES ASSUME IInv, JogInv, [Next]_vars PROVE JogInv'
  OBVIOUS
<1>1. CASE Restart
  BY <1>1, JogStill DEF Restart, schedVars, taskVars, inputVars, JogInv
<1>2. CASE HeartbeatStart
  <2>1. /\ UNCHANGED <<jogIn, p4Jog, wire, cont, jogLost, hand>> /\ pc["hb"] # "contSend"
        /\ Goto("hb", "snap") /\ "hb" \in Tasks
    BY <1>2 DEF HeartbeatStart, schedVars, p4Vars, inputVars, Tasks
  <2> QED
    BY <2>1, TaskStill, JogStill
<1>3. CASE UNCHANGED vars
  BY <1>3, JogStill DEF vars, schedVars, taskVars, p4Vars, inputVars, JogInv
<1>4. CASE Next
  <2>1. ASSUME NEW t \in Tasks, ReplayInput(t) \/ HeldPick(t) \/ HeldSend(t) \/ HeldMark(t)
        PROVE  JogInv'
    BY <2>1, HeldJog
  <2>2. "usb" \in Tasks /\ "hb" \in Tasks /\ "tx" \in Tasks
    BY DEF Tasks
  <2>3. CASE Input
    BY <2>3, UsbJog
  <2>4. CASE UsbStep
    BY <2>1, <2>2, <2>4, UsbJog DEF UsbStep
  <2>5. CASE HbStep
    BY <1>2, <2>1, <2>2, <2>5 DEF HbStep
  <2>6. CASE TxStep
    BY <2>1, <2>2, <2>6, TranslatorJog DEF TxStep
  <2>7. CASE Receive \/ Lose
    BY <2>7, WireJog
  <2> QED
    BY <1>1, <1>4, <2>3, <2>4, <2>5, <2>6, <2>7 DEF Next
<1> QED
  BY <1>3, <1>4

\* Movement is neither invented nor forgotten between the jog wheel and the P4,
\* whatever the interleaving of the sample callback, the translator's passes, a
\* disconnection's reset and any number of failed sends and lost frames: what
\* is missing at the P4 is on its way or was discarded at a known place.
THEOREM JogIsConserved == Spec => []JogConserved
<1>1. JogInv => JogConserved
  BY DEF JogInv
<1> QED
  BY InitInv, NextInv, JogInit, JogStep, <1>1, PTL DEF Spec
=============================================================================
