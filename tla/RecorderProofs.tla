--------------------------- MODULE RecorderProofs ---------------------------
(***************************************************************************)
(* What the recorder guarantees for every ring and segment size, every set *)
(* of callers, rates, faults and power failures, when calls do not overlap *)
(* (Serial) and no start fails with a producer inside (~Overlap).          *)
(*                                                                         *)
(* The ring's memory has two users besides the call that frees it: the     *)
(* output task, kept out by the producer gate, and the writer, waited for  *)
(* by its exit bit.  The invariant says what each step of start() and      *)
(* stop() knows of them: before the ring is bound and after the producers  *)
(* have left, none can be between its check and its push; before the       *)
(* writer is created and after the join, none runs.  The same steps know   *)
(* whether a segment is open, which is why a start never overwrites one.   *)
(*                                                                         *)
(* For what a recording holds a second invariant follows the blocks:       *)
(* whatever fails, the accepted ones are those of the session's segments   *)
(* in the order of their numbers, then those of the open segment, then     *)
(* those in the ring.  It rests on what FlattenSeq computes, shown first.  *)
(***************************************************************************)
EXTENDS Recorder, SumsProofs, SequenceTheorems

States == {"BOOT", "STOPPED", "STARTING", "RECORDING", "STOPPING", "ERROR"}
ProdPcs == {"idle", "enter", "recheck", "push", "leave"}
WrPcs == {"none", "look", "peek", "write", "consume", "exit"}
CallPcs == {"idle", "alloc", "open", "bind", "run", "create", "active", "quiet", "join",
            "close", "release"}
AnyRate == Rates \cup {0}
Block == [b : Nat, rate : AnyRate]
File == [id : Nat \X Nat \X Nat, rate : AnyRate, kind : {"part", "wav", "recovered"},
         data : Seq(Block)]
SinkRec == [open : BOOLEAN, sess : Nat, seg : Nat, rate : AnyRate, data : Seq(Block),
            synced : Nat]

MemType ==
  /\ state \in States /\ nalloc \in Nat /\ slots \in 0 .. nalloc
  /\ ring \in [slots : Nat, q : Seq(Block)] /\ Len(ring.q) <= Capacity
ProdType ==
  /\ gate \in [acc : BOOLEAN, act : Nat] /\ prod \in [pc : ProdPcs, rate : AnyRate]
  /\ nblk \in Nat
  /\ gate.act = IF prod.pc \in {"recheck", "push", "leave"} THEN 1 ELSE 0
WrType ==
  /\ wr \in [pc : WrPcs, st : States \cup {"none"}]
  /\ writer \in BOOLEAN /\ exited \in BOOLEAN /\ err \in BOOLEAN
SinkType == sink \in SinkRec /\ sink.synced <= Len(sink.data)
CardType == card \subseteq File /\ boot \in Nat /\ sess \in Nat
CallType == op \in [Callers -> [pc : CallPcs, st : States \cup {"none"}]]

\* Calls do not overlap.
Alone == \A c, d \in Callers : op[c].pc # "idle" /\ op[d].pc # "idle" => c = d

\* No producer is past its second look at the gate, and none can get there.
Shut == ~gate.acc /\ prod.pc # "push"
\* No writer runs and none has to be joined.
NoWriter == ~writer /\ wr.pc = "none"
Bound == slots # 0 /\ ring.slots = slots

\* What each step of start() and stop() knows.
Knows(c) ==
  /\ op[c].pc \in {"open", "bind", "run"} => state = "STARTING"
  /\ op[c].pc = "alloc" => state = "STOPPED"
  /\ op[c].pc = "create" => state = "RECORDING"
  /\ op[c].pc \in {"open", "bind"} => slots # 0
  /\ op[c].pc \in {"run", "create"} => Bound /\ ~exited
  /\ op[c].pc \in {"alloc", "open", "bind", "join", "close", "release"} => Shut
  /\ op[c].pc = "quiet" => ~gate.acc
  /\ op[c].pc \in {"alloc", "open", "bind", "run", "create", "close", "release"} => NoWriter
  /\ op[c].pc \in {"alloc", "open", "release"} => ~sink.open
Calls == \A c \in Callers : Knows(c)

\* A recorder that does not run has nothing open, bound or running.
AtRest ==
  /\ state \in {"BOOT", "STOPPED"} => Shut /\ NoWriter /\ ~sink.open
  /\ state = "BOOT" => prod.pc = "idle" /\ \A c \in Callers : op[c].pc = "idle"

\* Whoever may touch the ring finds its memory.
Users ==
  /\ gate.acc \/ prod.pc = "push" => Bound
  /\ wr.pc # "none" => Bound /\ writer /\ ~exited
  /\ wr.pc \in {"write", "consume"} => ring.q # <<>>

Types == MemType /\ ProdType /\ WrType /\ SinkType /\ CardType /\ CallType
IInv == Types /\ Alone /\ Calls /\ AtRest /\ Users

-----------------------------------------------------------------------------
\* A power-up leaves no producer, writer, call or open segment.
LEMMA PoweredInv ==
  ASSUME Powered, CardType', nblk' \in Nat, nalloc' \in Nat
  PROVE  IInv'
<1> USE DEF Powered
<1>1. MemType'
  <2>1. <<>> \in Seq(Block) /\ Len(<<>>) = 0
    OBVIOUS
  <2>2. ring' \in [slots : Nat, q : Seq(Block)] /\ Len(ring'.q) = 0
    BY <2>1 DEF NoRing
  <2> QED
    BY <2>2, RecorderAssumption DEF MemType, States
<1>2. ProdType'
  <2>1. gate' = [acc |-> FALSE, act |-> 0] /\ prod' = [pc |-> "idle", rate |-> 0]
    OBVIOUS
  <2> QED
    BY <2>1 DEF ProdType, ProdPcs, AnyRate
<1>3. WrType'
  BY DEF WrType, WrPcs
<1>4. SinkType'
  <2>1. <<>> \in Seq(Block) /\ Len(<<>>) = 0
    OBVIOUS
  <2> QED
    BY <2>1 DEF SinkType, SinkRec, NoSink, AnyRate
<1>5. CallType' /\ \A c \in Callers : op'[c].pc = "idle"
  BY DEF CallType, CallPcs
<1>6. Shut' /\ NoWriter' /\ ~sink'.open /\ prod'.pc = "idle"
  BY DEF Shut, NoWriter, NoSink
<1>7. Alone' /\ Calls'
  BY <1>5 DEF Alone, Calls, Knows
<1>8. AtRest' /\ Users'
  BY <1>5, <1>6 DEF AtRest, Users, Shut, NoWriter
<1> QED
  BY <1>1, <1>2, <1>3, <1>4, <1>5, <1>7, <1>8 DEF IInv, Types

\* The recorder starts powered up, with an empty card.
LEMMA InitInv == Init => IInv
<1> SUFFICES ASSUME Init PROVE IInv
  OBVIOUS
<1> USE DEF Init
<1>1. MemType
  <2>1. <<>> \in Seq(Block) /\ Len(<<>>) = 0
    OBVIOUS
  <2>2. ring \in [slots : Nat, q : Seq(Block)] /\ Len(ring.q) = 0
    BY <2>1 DEF NoRing
  <2> QED
    BY <2>2, RecorderAssumption DEF MemType, States
<1>2. ProdType
  <2>1. gate = [acc |-> FALSE, act |-> 0] /\ prod = [pc |-> "idle", rate |-> 0]
    OBVIOUS
  <2> QED
    BY <2>1 DEF ProdType, ProdPcs, AnyRate
<1>3. WrType
  BY DEF WrType, WrPcs
<1>4. SinkType
  <2>1. <<>> \in Seq(Block) /\ Len(<<>>) = 0
    OBVIOUS
  <2> QED
    BY <2>1 DEF SinkType, SinkRec, NoSink, AnyRate
<1>5. CallType /\ \A c \in Callers : op[c].pc = "idle"
  BY DEF CallType, CallPcs
<1>6. Shut /\ NoWriter /\ ~sink.open /\ prod.pc = "idle"
  BY DEF Shut, NoWriter, NoSink
<1>7. Alone /\ Calls
  BY <1>5 DEF Alone, Calls, Knows
<1>8. AtRest /\ Users
  BY <1>5, <1>6 DEF AtRest, Users, Shut, NoWriter
<1>9. CardType
  BY DEF CardType
<1> QED
  BY <1>1, <1>2, <1>3, <1>4, <1>5, <1>7, <1>8, <1>9 DEF IInv, Types

-----------------------------------------------------------------------------
(* The card.                                                               *)

\* A segment written to the card is a file.
LEMMA SegmentIsFile ==
  ASSUME NEW s \in SinkRec, CardType, NEW k \in {"part", "wav"}, NEW data \in Seq(Block)
  PROVE  Segment(s, k, data) \in File /\ Segment(s, k, data).data = data
BY DEF SinkRec, CardType, Segment, Id, File

\* A segment just opened is empty.
LEMMA OpenedType ==
  ASSUME NEW s \in SinkRec, NEW r \in AnyRate
  PROVE  /\ Opened(s, r) \in SinkRec /\ Opened(s, r).open
         /\ Opened(s, r).sess = s.sess /\ Opened(s, r).seg = s.seg /\ Opened(s, r).rate = r
         /\ Opened(s, r).data = <<>> /\ Opened(s, r).synced = 0
         /\ Opened(s, r).synced <= Len(Opened(s, r).data)
<1>1. <<>> \in Seq(Block) /\ Len(<<>>) = 0
  OBVIOUS
<1> QED
  BY <1>1 DEF Opened, SinkRec

\* A segment that is not opened leaves the card as it was, or an empty file.
LEMMA NotOpenedIsCard ==
  ASSUME NEW s \in SinkRec, NEW r \in AnyRate, CardType, NEW cards \in SUBSET File,
         NEW new \in NotOpened(s, r, cards)
  PROVE  new \subseteq File
<1>1. Opened(s, r) \in SinkRec /\ <<>> \in Seq(Block) /\ "part" \in {"part", "wav"}
  BY OpenedType
<1>2. Segment(Opened(s, r), "part", <<>>) \in File
  BY <1>1, SegmentIsFile
<1> QED
  BY <1>2 DEF NotOpened

\* Closing a segment adds it to the card.
LEMMA ClosedIsCard ==
  ASSUME SinkType, CardType, NEW p, NEW ok
  PROVE  Closed(sink, p, ok) \subseteq File
<1> DEFINE k == IF p /\ ok THEN "wav" ELSE "part"
<1>1. k \in {"part", "wav"} /\ sink \in SinkRec /\ sink.data \in Seq(Block)
  BY DEF SinkType, SinkRec
<1> HIDE DEF k
<1>2. Segment(sink, k, sink.data) \in File
  BY <1>1, SegmentIsFile
<1>3. Closed(sink, p, ok) = card \cup {Segment(sink, k, sink.data)}
  BY DEF Closed, k
<1> QED
  BY <1>2, <1>3 DEF CardType

\* A partial segment found at boot becomes a published one or goes away.
LEMMA RecoverKeeps == ASSUME IInv, Recover PROVE IInv'
<1> USE DEF IInv, Types
<1>1. PICK f \in Parts : card' = RecoverOne(f)
  BY DEF Recover
<1>2. f \in File
  BY <1>1 DEF Parts, CardType
<1>3. [f EXCEPT !.kind = "recovered"] \in File
  BY <1>2 DEF File
<1>4. CardType'
  BY <1>1, <1>2, <1>3 DEF RecoverOne, CardType, Recover, ctlVars
<1> QED
  BY <1>4 DEF Recover, ctlVars, MemType, ProdType, WrType, SinkType, CallType, Alone,
     Calls, Knows, AtRest, Users, Shut, NoWriter, Bound

\* The recorder is ready once the walk over the directory is over.
LEMMA InitDoneKeeps == ASSUME IInv, InitDone PROVE IInv'
<1> USE DEF IInv, Types
<1>1. gate.act = 0 /\ gate.acc = FALSE /\ gate \in [acc : BOOLEAN, act : Nat]
  BY DEF InitDone, AtRest, ProdType, Shut
<1>2. gate' = gate
  BY <1>1 DEF InitDone
<1>3. \A c \in Callers : op[c].pc = "idle"
  BY DEF InitDone, AtRest
<1>4. Calls' /\ AtRest'
  BY <1>2, <1>3 DEF InitDone, ctlVars, Calls, Knows, AtRest, Shut, NoWriter
<1> QED
  BY <1>2, <1>4 DEF InitDone, ctlVars, MemType, States, ProdType, WrType, SinkType, CardType,
     CallType, Alone, Users, Bound

\* The power fails: what of an open segment was durable is on the card.
LEMMA CrashKeeps == ASSUME IInv, Crash PROVE IInv'
<1> USE DEF IInv, Types
<1>1. PICK n \in sink.synced .. Len(sink.data) :
         card' = IF sink.open THEN card \cup {Segment(sink, "part", SubSeq(sink.data, 1, n))}
                 ELSE card
  BY DEF Crash
<1>2. sink \in SinkRec /\ SubSeq(sink.data, 1, n) \in Seq(Block)
  BY <1>1 DEF SinkType, SinkRec
<1>3. Segment(sink, "part", SubSeq(sink.data, 1, n)) \in File
  BY <1>2, SegmentIsFile
<1>4. CardType'
  BY <1>1, <1>3 DEF CardType, Crash, Powered
<1>5. nblk' \in Nat /\ nalloc' \in Nat /\ Powered
  BY DEF Crash, ProdType, MemType
<1> QED
  BY <1>4, <1>5, PoweredInv

-----------------------------------------------------------------------------
(* The output task.                                                        *)

\* The first look at the gate claims nothing.
LEMMA PushKeeps == ASSUME IInv, NEW r \in Rates, Push(r) PROVE IInv'
<1> USE DEF IInv, Types, Push, prodFrame, ctlVars
<1>1. ProdType'
  BY DEF ProdType, ProdPcs, AnyRate
<1>2. prod'.pc = "enter" /\ UNCHANGED gate /\ state = "RECORDING"
  OBVIOUS
<1>3. Calls' /\ AtRest' /\ Users'
  BY <1>2 DEF Calls, Knows, AtRest, Users, Shut, NoWriter, Bound
<1> QED
  BY <1>1, <1>3 DEF MemType, WrType, SinkType, CardType, CallType, Alone

\* The producer is counted before it looks at the gate again.
LEMMA PushEnterKeeps == ASSUME IInv, PushEnter PROVE IInv'
<1> USE DEF IInv, Types, PushEnter, prodFrame, ctlVars, At
<1>1. prod'.pc = "recheck" /\ gate'.acc = gate.acc /\ prod.pc = "enter"
  BY DEF ProdType
<1>2. ProdType'
  <2>1. gate' \in [acc : BOOLEAN, act : Nat] /\ gate'.act = 1
    BY DEF ProdType
  <2>2. prod' \in [pc : ProdPcs, rate : AnyRate]
    BY DEF ProdType, ProdPcs
  <2> QED
    BY <1>1, <2>1, <2>2 DEF ProdType
<1>3. Calls' /\ AtRest' /\ Users'
  BY <1>1 DEF Calls, Knows, AtRest, Users, Shut, NoWriter, Bound
<1> QED
  BY <1>2, <1>3 DEF MemType, WrType, SinkType, CardType, CallType, Alone

\* Only an open gate lets a producer through to the ring.
LEMMA RecheckKeeps == ASSUME IInv, PushRecheck PROVE IInv'
<1> USE DEF IInv, Types, PushRecheck, prodFrame, ctlVars, At
<1>1. prod.pc = "recheck" /\ gate'.acc = gate.acc
  BY DEF ProdType
<1>2. prod'.pc = "push" => gate.acc
  BY DEF ProdType
<1>3. ProdType'
  <2>1. CASE gate.acc
    <3>1. prod' \in [pc : ProdPcs, rate : AnyRate] /\ prod'.pc = "push" /\ gate' = gate
      BY <2>1 DEF ProdType, ProdPcs
    <3> QED
      BY <1>1, <3>1 DEF ProdType
  <2>2. CASE ~gate.acc
    <3>1. prod' \in [pc : ProdPcs, rate : AnyRate] /\ prod'.pc = "idle"
      BY <2>2 DEF ProdType, ProdPcs
    <3>2. gate' \in [acc : BOOLEAN, act : Nat] /\ gate'.act = 0
      BY <2>2 DEF ProdType
    <3> QED
      BY <3>1, <3>2 DEF ProdType
  <2> QED
    BY <2>1, <2>2
<1>4. Calls' /\ AtRest' /\ Users'
  BY <1>1, <1>2 DEF Calls, Knows, AtRest, Users, Shut, NoWriter, Bound
<1> QED
  BY <1>3, <1>4 DEF MemType, WrType, SinkType, CardType, CallType, Alone

\* A block goes into the ring only if it has a free slot.
LEMMA PushRingKeeps == ASSUME IInv, PushRing PROVE IInv'
<1> USE DEF IInv, Types, PushRing, prodFrame, ctlVars, At
<1>1. prod.pc = "push" /\ prod'.pc = "leave" /\ UNCHANGED gate
  BY DEF ProdType
<1>2. ProdType'
  <2>1. prod' \in [pc : ProdPcs, rate : AnyRate] /\ nblk' \in Nat
    BY DEF ProdType, ProdPcs
  <2> QED
    BY <1>1, <2>1 DEF ProdType
<1>3. /\ MemType' /\ ring'.slots = ring.slots
      /\ ring.q # <<>> => ring'.q # <<>>
  <2>1. CASE Len(ring.q) < Capacity
    <3> DEFINE blk == [b |-> nblk + 1, rate |-> prod.rate]
    <3>1. blk \in Block
      BY DEF Block, ProdType
    <3> HIDE DEF blk
    <3>2. ring' = [ring EXCEPT !.q = Append(@, blk)]
      BY <2>1 DEF blk
    <3>3. /\ ring' \in [slots : Nat, q : Seq(Block)] /\ ring'.slots = ring.slots
          /\ Len(ring'.q) = Len(ring.q) + 1
      <4>1. PICK q \in Seq(Block) : q = ring.q
        BY DEF MemType
      <4>2. Append(q, blk) \in Seq(Block) /\ Len(Append(q, blk)) = Len(q) + 1
        BY <3>1, <4>1
      <4>3. ring' = [ring EXCEPT !.q = Append(q, blk)]
        BY <3>2, <4>1
      <4> QED
        BY <4>1, <4>2, <4>3 DEF MemType
    <3>4. Len(ring.q) \in Nat /\ Len(ring'.q) <= Capacity /\ ring'.q # <<>>
      BY <2>1, <3>3, RecorderAssumption DEF MemType
    <3> QED
      BY <3>3, <3>4 DEF MemType
  <2>2. CASE ~(Len(ring.q) < Capacity)
    BY <2>2 DEF MemType
  <2> QED
    BY <2>1, <2>2
<1>4. Calls' /\ AtRest' /\ Users'
  BY <1>1, <1>3 DEF Calls, Knows, AtRest, Users, Shut, NoWriter, Bound
<1> QED
  BY <1>2, <1>3, <1>4 DEF WrType, SinkType, CardType, CallType, Alone

\* The producer leaves and is no longer counted.
LEMMA PushLeaveKeeps == ASSUME IInv, PushLeave PROVE IInv'
<1> USE DEF IInv, Types, PushLeave, prodFrame, ctlVars, At
<1>1. prod.pc = "leave" /\ prod'.pc = "idle" /\ gate'.acc = gate.acc
  BY DEF ProdType
<1>2. ProdType'
  <2>1. gate' \in [acc : BOOLEAN, act : Nat] /\ gate'.act = 0
    BY DEF ProdType
  <2>2. prod' \in [pc : ProdPcs, rate : AnyRate]
    BY DEF ProdType, ProdPcs
  <2> QED
    BY <1>1, <2>1, <2>2 DEF ProdType
<1>3. Calls' /\ AtRest' /\ Users'
  BY <1>1 DEF Calls, Knows, AtRest, Users, Shut, NoWriter, Bound
<1> QED
  BY <1>2, <1>3 DEF MemType, WrType, SinkType, CardType, CallType, Alone

-----------------------------------------------------------------------------
(* The writer.                                                             *)

\* While the writer runs no call is between its first step and the creation of
\* a writer or past the join, and the recorder is not at rest.
LEMMA WriterRuns ==
  ASSUME IInv, wr.pc # "none"
  PROVE  /\ state \notin {"BOOT", "STOPPED"} /\ writer /\ ~exited /\ Bound
         /\ \A c \in Callers : op[c].pc \in {"idle", "active", "quiet", "join"}
BY DEF IInv, Types, CallType, CallPcs, AtRest, Users, Calls, Knows, NoWriter

\* A step of the writer that leaves memory, gate and calls alone.
LEMMA WriterStepKeeps ==
  ASSUME IInv, wr.pc # "none", WrType', MemType', SinkType', CardType', wr'.pc # "none",
         ring'.slots = ring.slots, writer' = writer, exited' = exited,
         wr'.pc \in {"write", "consume"} => ring'.q # <<>>,
         state' \notin {"BOOT", "STOPPED"}, ~gate.acc => ~gate'.acc, ProdType',
         UNCHANGED <<slots, op, prod>>
  PROVE  IInv'
<1>1. /\ state \notin {"BOOT", "STOPPED"} /\ writer /\ ~exited /\ Bound
      /\ \A c \in Callers : op[c].pc \in {"idle", "active", "quiet", "join"}
  BY WriterRuns
<1>2. CallType' /\ Alone'
  BY DEF IInv, Types, CallType, Alone
<1>3. Calls'
  BY <1>1 DEF IInv, Calls, Knows, Shut
<1>4. AtRest' /\ Users'
  BY <1>1 DEF AtRest, Users, Bound
<1> QED
  BY <1>2, <1>3, <1>4 DEF IInv, Types

\* The top of the loop.
LEMMA WriterLookKeeps == ASSUME IInv, WriterLook PROVE IInv'
<1> USE DEF WriterLook, wrFrame, ctlVars, prodVars
<1>1. wr' \in [pc : WrPcs, st : States \cup {"none"}] /\ wr'.pc \in {"peek", "exit"}
  BY DEF IInv, Types, MemType, WrPcs
<1>2. WrType' /\ MemType' /\ SinkType' /\ CardType' /\ ProdType'
  BY <1>1 DEF IInv, Types, WrType, MemType, SinkType, CardType, ProdType
<1> QED
  BY <1>1, <1>2, WriterRuns, WriterStepKeeps

\* The writer looks for a block.
LEMMA WriterPeekKeeps == ASSUME IInv, WriterPeek PROVE IInv'
<1> USE DEF WriterPeek, wrFrame, ctlVars, prodVars
<1>1. /\ wr' \in [pc : WrPcs, st : States \cup {"none"}] /\ wr'.pc \in {"write", "exit", "look"}
      /\ wr'.pc = "write" => ring.q # <<>>
  BY DEF IInv, Types, WrType, WrPcs
<1>2. WrType' /\ MemType' /\ SinkType' /\ CardType' /\ ProdType'
  BY <1>1 DEF IInv, Types, WrType, MemType, SinkType, CardType, ProdType
<1> QED
  BY <1>1, <1>2, WriterRuns, WriterStepKeeps

\* A fault closes the gate and sends the writer to its exit.
LEMMA WriterFaultTypes ==
  ASSUME IInv, WriterFault, UNCHANGED <<prod, nblk, writer, exited>>
  PROVE  /\ WrType' /\ ProdType' /\ wr'.pc = "exit" /\ state' = "ERROR" /\ ~gate'.acc
<1> USE DEF IInv, Types, WriterFault
<1>1. gate' \in [acc : BOOLEAN, act : Nat] /\ gate'.act = gate.act /\ ~gate'.acc
  BY DEF ProdType
<1>2. wr' \in [pc : WrPcs, st : States \cup {"none"}] /\ wr'.pc = "exit"
  BY DEF WrType, WrPcs
<1> QED
  BY <1>1, <1>2 DEF ProdType, WrType

\* A fault with the ring and the calls as they are.
LEMMA WriterFaultKeeps ==
  ASSUME IInv, wr.pc # "none", WriterFault, SinkType', CardType',
         UNCHANGED <<ring, exited>>, wrFrame
  PROVE  IInv'
<1> USE DEF wrFrame, ctlVars, prodVars
<1>1. /\ WrType' /\ ProdType' /\ wr'.pc = "exit" /\ state' = "ERROR" /\ ~gate'.acc
  BY WriterFaultTypes
<1>2. MemType'
  BY <1>1 DEF IInv, Types, MemType, States
<1> QED
  BY <1>1, <1>2, WriterStepKeeps

\* The block at the head of the ring, and the segment it goes to.
LEMMA WriteTypes ==
  ASSUME IInv, wr.pc = "write"
  PROVE  /\ ring.q \in Seq(Block) /\ ring.q # <<>> /\ Head(ring.q) \in Block
         /\ Head(ring.q).rate \in AnyRate /\ [sink EXCEPT !.seg = @ + 1] \in SinkRec
<1> USE DEF IInv, Types
<1>1. ring.q \in Seq(Block) /\ ring.q # <<>>
  BY DEF MemType, Users
<1>2. Head(ring.q) \in Block
  BY <1>1
<1>3. PICK n \in Nat : n = sink.seg + 1
  BY DEF SinkType, SinkRec
<1>4. [sink EXCEPT !.seg = n] \in SinkRec
  BY DEF SinkType, SinkRec
<1> QED
  BY <1>1, <1>2, <1>3, <1>4 DEF Block

\* What a block's writing can come to: the block is in the segment; its write, the
\* closing of the segment or the opening of the next one has failed.
WriteOk(blk, s, published) ==
  /\ sink' = [s EXCEPT !.data = Append(@, blk)] /\ card' = published
  /\ wr' = [wr EXCEPT !.pc = "consume"] /\ UNCHANGED <<state, gate, err, left>>
WriteFails(s, published) == WriterFault /\ sink' = s /\ card' = published
CloseFails == WriterFault /\ sink' = [sink EXCEPT !.open = FALSE] /\ card' = Closed(sink, TRUE, FALSE)
OpenFails(blk, next) ==
  /\ WriterFault /\ sink' = [next EXCEPT !.open = FALSE]
  /\ card' \in NotOpened(next, blk.rate, Closed(sink, TRUE, TRUE))

\* The cases of writer's write, by whether the segment is rolled over.
LEMMA WriteCases ==
  ASSUME WriterWrite
  PROVE  \/ /\ ~Rolls(Head(ring.q))
            /\ WriteOk(Head(ring.q), sink, card) \/ WriteFails(sink, card)
         \/ /\ Rolls(Head(ring.q))
            /\ \/ WriteOk(Head(ring.q), Opened([sink EXCEPT !.seg = @ + 1], Head(ring.q).rate),
                          Closed(sink, TRUE, TRUE))
               \/ WriteFails(Opened([sink EXCEPT !.seg = @ + 1], Head(ring.q).rate),
                             Closed(sink, TRUE, TRUE))
               \/ CloseFails
               \/ OpenFails(Head(ring.q), [sink EXCEPT !.seg = @ + 1])
<1>1. CASE Rolls(Head(ring.q))
  BY <1>1 DEF WriterWrite, WriteOk, WriteFails, CloseFails, OpenFails
<1>2. CASE ~Rolls(Head(ring.q))
  BY <1>2 DEF WriterWrite, WriteOk, WriteFails, CloseFails, OpenFails
<1> QED
  BY <1>1, <1>2

\* A block added to a segment.
LEMMA AppendType ==
  ASSUME NEW s \in SinkRec, NEW blk \in Block, s.synced <= Len(s.data),
         NEW n, n = [s EXCEPT !.data = Append(@, blk)]
  PROVE  /\ n \in SinkRec /\ n.data = Append(s.data, blk) /\ n.synced <= Len(n.data)
         /\ n.open = s.open /\ n.sess = s.sess /\ n.seg = s.seg /\ n.rate = s.rate
         /\ n.synced = s.synced /\ Len(n.data) = Len(s.data) + 1
<1>1. PICK data \in Seq(Block) : data = s.data
  BY DEF SinkRec
<1>2. Append(data, blk) \in Seq(Block) /\ Len(Append(data, blk)) = Len(data) + 1
  BY <1>1
<1>3. PICK new \in Seq(Block) : new = Append(data, blk)
  BY <1>2
<1>4. n = [s EXCEPT !.data = new]
  BY <1>1, <1>3
<1>5. n \in SinkRec /\ n.data = new /\ n.synced = s.synced
      /\ n.open = s.open /\ n.sess = s.sess /\ n.seg = s.seg /\ n.rate = s.rate
  BY <1>4 DEF SinkRec
<1>6. Len(data) \in Nat /\ s.synced \in Nat /\ s.synced <= Len(data)
  BY <1>1 DEF SinkRec
<1> QED
  BY <1>1, <1>2, <1>3, <1>5, <1>6

\* A block is added to the open segment, or starts the next one.
LEMMA WriterWriteKeeps == ASSUME IInv, WriterWrite PROVE IInv'
<1>1. wr.pc = "write" /\ UNCHANGED <<ring, exited>> /\ wrFrame
  BY DEF WriterWrite
<1>2. PICK blk \in Block : blk = Head(ring.q)
  BY <1>1, WriteTypes
<1>3. PICK next \in SinkRec : next = [sink EXCEPT !.seg = @ + 1]
  BY <1>1, WriteTypes
<1>4. blk.rate \in AnyRate
  BY DEF Block
<1>5. PICK first \in SinkRec : first = Opened(next, blk.rate) /\ first.synced <= Len(first.data)
  BY <1>4, OpenedType
<1>6. sink \in SinkRec /\ sink.synced <= Len(sink.data)
  BY DEF IInv, Types, SinkType
<1>7. \A p, ok \in BOOLEAN : Closed(sink, p, ok) \in SUBSET File
  BY ClosedIsCard DEF IInv, Types
<1>8. CardType /\ boot' \in Nat /\ sess' \in Nat /\ card \in SUBSET File
  BY <1>1 DEF wrFrame, ctlVars, IInv, Types, CardType
<1>9. ASSUME NEW s \in SinkRec, s.synced <= Len(s.data), NEW cards \in SUBSET File,
             WriteOk(blk, s, cards)
      PROVE  IInv'
  <2>1. sink' = [s EXCEPT !.data = Append(@, blk)]
    BY <1>9 DEF WriteOk
  <2>2. sink' \in SinkRec /\ sink'.synced <= Len(sink'.data)
    BY <1>9, <2>1, AppendType
  <2>3. SinkType' /\ CardType'
    BY <1>8, <1>9, <2>2 DEF SinkType, CardType, WriteOk
  <2>4. WrType' /\ wr'.pc = "consume"
    BY <1>1, <1>9 DEF WriteOk, wrFrame, IInv, Types, WrType, WrPcs
  <2>5. MemType' /\ ProdType' /\ state' = state
    BY <1>1, <1>9 DEF WriteOk, wrFrame, ctlVars, prodVars, IInv, Types, MemType, ProdType
  <2>6. ring.q # <<>>
    BY <1>1 DEF IInv, Users
  <2> QED
    BY <1>1, <1>9, <2>3, <2>4, <2>5, <2>6, WriterRuns, WriterStepKeeps
       DEF WriteOk, wrFrame, prodVars
<1>10. ASSUME NEW s \in SinkRec, s.synced <= Len(s.data), NEW cards \in SUBSET File,
              WriterFault, sink' = s, card' = cards
       PROVE  IInv'
  <2>1. SinkType' /\ CardType'
    BY <1>8, <1>10 DEF SinkType, CardType
  <2> QED
    BY <1>1, <1>10, <2>1, WriterFaultKeeps
<1>11. CASE WriteOk(blk, sink, card) \/ WriteFails(sink, card)
  BY <1>6, <1>8, <1>9, <1>10, <1>11 DEF WriteFails
<1>12. CASE WriteOk(blk, first, Closed(sink, TRUE, TRUE)) \/ WriteFails(first, Closed(sink, TRUE, TRUE))
  BY <1>5, <1>7, <1>9, <1>10, <1>12 DEF WriteFails
<1>13. CASE CloseFails
  <2>1. [sink EXCEPT !.open = FALSE] \in SinkRec
        /\ [sink EXCEPT !.open = FALSE].synced <= Len([sink EXCEPT !.open = FALSE].data)
    BY <1>6 DEF SinkRec
  <2> QED
    BY <1>7, <1>10, <1>13, <2>1 DEF CloseFails
<1>14. CASE OpenFails(blk, next)
  <2>1. PICK s \in SinkRec : s = [next EXCEPT !.open = FALSE] /\ s.synced <= Len(s.data)
    <3>1. next.synced = sink.synced /\ next.data = sink.data
      BY <1>3, <1>6 DEF SinkRec
    <3>2. [next EXCEPT !.open = FALSE] \in SinkRec
      BY DEF SinkRec
    <3> QED
      BY <1>6, <3>1, <3>2 DEF SinkRec
  <2>2. card' \in NotOpened(next, blk.rate, Closed(sink, TRUE, TRUE))
    BY <1>14 DEF OpenFails
  <2>3. card' \in SUBSET File
    BY <1>4, <1>7, <1>8, <2>2, NotOpenedIsCard
  <2> QED
    BY <1>10, <1>14, <2>1, <2>3 DEF OpenFails
<1> QED
  BY <1>2, <1>3, <1>5, <1>11, <1>12, <1>13, <1>14, WriteCases

\* The slot of a written block is free again; a checkpoint makes all of the
\* segment durable.
LEMMA WriterConsumeKeeps == ASSUME IInv, WriterConsume PROVE IInv'
<1>1. /\ wr.pc = "consume" /\ UNCHANGED <<exited, card>> /\ wrFrame
      /\ ring' = [ring EXCEPT !.q = Tail(@)]
      /\ UNCHANGED sink \/ sink' = [sink EXCEPT !.synced = Len(sink.data)]
  BY DEF WriterConsume
<1>2. \/ wr' = [wr EXCEPT !.pc = "look"] /\ UNCHANGED <<state, gate, err, left>>
      \/ WriterFault
  BY DEF WriterConsume
<1>3. /\ ring' \in [slots : Nat, q : Seq(Block)] /\ Len(ring'.q) <= Capacity
      /\ ring'.slots = ring.slots
  <2>1. PICK q \in Seq(Block) : q = ring.q
    BY DEF IInv, Types, MemType
  <2>2. q # <<>> /\ Len(q) <= Capacity
    BY <1>1, <2>1 DEF IInv, Types, MemType, Users
  <2>3. Tail(q) \in Seq(Block) /\ Len(Tail(q)) <= Capacity
    BY <2>2, RecorderAssumption
  <2>4. ring' = [ring EXCEPT !.q = Tail(q)]
    BY <1>1, <2>1
  <2> QED
    BY <2>3, <2>4 DEF IInv, Types, MemType
<1>4. CardType' /\ SinkType'
  <2>1. CardType'
    BY <1>1 DEF wrFrame, ctlVars, IInv, Types, CardType
  <2>2. CASE UNCHANGED sink
    BY <2>1, <2>2 DEF IInv, Types, SinkType
  <2>3. CASE sink' = [sink EXCEPT !.synced = Len(sink.data)]
    <3>1. PICK n \in Nat : n = Len(sink.data)
      BY DEF IInv, Types, SinkType, SinkRec
    <3>2. sink' = [sink EXCEPT !.synced = n]
      BY <2>3, <3>1
    <3> QED
      BY <2>1, <3>1, <3>2 DEF IInv, Types, SinkType, SinkRec
  <2> QED
    BY <1>1, <2>2, <2>3
<1>5. CASE wr' = [wr EXCEPT !.pc = "look"] /\ UNCHANGED <<state, gate, err, left>>
  <2>1. WrType' /\ wr'.pc = "look"
    BY <1>1, <1>5 DEF wrFrame, IInv, Types, WrType, WrPcs
  <2>2. MemType' /\ ProdType' /\ state' = state
    BY <1>1, <1>3, <1>5 DEF wrFrame, ctlVars, prodVars, IInv, Types, MemType, ProdType
  <2> QED
    BY <1>1, <1>3, <1>4, <1>5, <2>1, <2>2, WriterRuns, WriterStepKeeps
       DEF wrFrame, prodVars
<1>6. CASE WriterFault
  <2>1. /\ WrType' /\ ProdType' /\ wr'.pc = "exit" /\ state' = "ERROR" /\ ~gate'.acc
    BY <1>1, <1>6, WriterFaultTypes DEF wrFrame, prodVars
  <2>2. MemType'
    BY <1>1, <1>3, <2>1 DEF wrFrame, ctlVars, IInv, Types, MemType, States
  <2> QED
    BY <1>1, <1>3, <1>4, <2>1, <2>2, WriterStepKeeps DEF wrFrame, prodVars
<1> QED
  BY <1>2, <1>5, <1>6

\* The exit bit is set when the writer is done with the ring.
LEMMA WriterExitKeeps == ASSUME IInv, WriterExit PROVE IInv'
<1> USE DEF WriterExit, wrFrame, ctlVars, prodVars
<1>1. wr' \in [pc : WrPcs, st : States \cup {"none"}] /\ wr'.pc = "none"
  BY DEF IInv, Types, WrType, WrPcs
<1>2. WrType' /\ MemType' /\ SinkType' /\ CardType' /\ ProdType' /\ CallType' /\ Alone'
  BY <1>1 DEF IInv, Types, WrType, MemType, SinkType, CardType, ProdType, CallType, Alone
<1>3. Calls' /\ AtRest'
  BY <1>1 DEF IInv, Calls, Knows, AtRest, Shut, NoWriter, Bound
<1>4. Users'
  BY <1>1 DEF IInv, Users, Bound
<1> QED
  BY <1>2, <1>3, <1>4 DEF IInv, Types

-----------------------------------------------------------------------------
(* start() and stop().                                                     *)

\* A call moves on: every other caller is idle, so only what this one knows
\* has to be shown.
LEMMA CallMoves ==
  ASSUME IInv, NEW c \in Callers, op[c].pc # "idle", NEW pc \in CallPcs, Goto(c, pc)
  PROVE  CallType' /\ Alone' /\ op'[c].pc = pc /\ (Knows(c)' => Calls')
<1>1. op' \in [Callers -> [pc : CallPcs, st : States \cup {"none"}]] /\ op'[c].pc = pc
  BY DEF IInv, Types, CallType, Goto
<1>2. \A d \in Callers : d # c => op'[d].pc = "idle"
  <2> SUFFICES ASSUME NEW d \in Callers, d # c PROVE op'[d].pc = "idle"
    OBVIOUS
  <2>1. op'[d] = op[d]
    BY DEF IInv, Types, CallType, Goto
  <2> QED
    BY <2>1 DEF IInv, Alone
<1>3. Alone'
  BY <1>2 DEF Alone
<1>4. ASSUME Knows(c)' PROVE Calls'
  <2> SUFFICES ASSUME NEW d \in Callers PROVE Knows(d)'
    BY DEF Calls
  <2>1. CASE d = c
    BY <1>4, <2>1
  <2>2. CASE d # c
    BY <1>2, <2>2 DEF Knows
  <2> QED
    BY <2>1, <2>2
<1> QED
  BY <1>1, <1>2, <1>3, <1>4 DEF CallType

\* start() looks at the state with nobody else in a call.
LEMMA StartKeeps ==
  ASSUME Serial, IInv, NEW c \in Callers, Start(c)
  PROVE  IInv'
<1> USE DEF Start, ctlVars, prodVars
<1>1. \A d \in Callers : op[d].pc = "idle"
  BY DEF Calm
<1>2. /\ op' \in [Callers -> [pc : CallPcs, st : States \cup {"none"}]]
      /\ op'[c].pc = "alloc" /\ \A d \in Callers : d # c => op'[d].pc = "idle"
  BY <1>1 DEF IInv, Types, CallType, CallPcs, Goto
<1>3. CallType' /\ Alone'
  BY <1>2 DEF CallType, Alone
<1>4. Shut /\ NoWriter /\ ~sink.open /\ state = "STOPPED"
  BY DEF IInv, AtRest
<1>5. Calls'
  <2> SUFFICES ASSUME NEW d \in Callers PROVE Knows(d)'
    BY DEF Calls
  <2>1. op'[d].pc \in {"idle", "alloc"}
    BY <1>2
  <2> QED
    BY <1>4, <2>1 DEF Knows, Shut, NoWriter
<1>6. AtRest' /\ Users'
  BY <1>4 DEF IInv, AtRest, Users, Shut, NoWriter, Bound
<1> QED
  BY <1>3, <1>5, <1>6 DEF IInv, Types, MemType, ProdType, WrType, SinkType, CardType

\* The ring's memory is allocated.
LEMMA StartAllocKeeps == ASSUME IInv, NEW c \in Callers, StartAlloc(c) PROVE IInv'
<1> USE DEF StartAlloc, prodVars
<1>1. op[c].pc = "alloc" /\ Goto(c, "open") /\ "open" \in CallPcs
  BY DEF CallPcs
<1>2. CallType' /\ Alone' /\ op'[c].pc = "open" /\ (Knows(c)' => Calls')
  BY <1>1, CallMoves
<1>3. Shut /\ NoWriter /\ ~sink.open /\ slots' \in Nat \ {0} /\ state' = "STARTING"
  BY <1>1 DEF IInv, Types, MemType, Calls, Knows
<1>4. Knows(c)'
  BY <1>2, <1>3 DEF Knows, Shut, NoWriter
<1>5. AtRest' /\ Users'
  BY <1>3 DEF AtRest, Users, Shut, NoWriter
<1>6. MemType'
  BY <1>3 DEF IInv, Types, MemType, States
<1> QED
  BY <1>2, <1>4, <1>5, <1>6 DEF IInv, Types, ProdType, WrType, SinkType, CardType

\* The first segment is opened, or everything is given back.
LEMMA StartOpenKeeps == ASSUME IInv, NEW c \in Callers, StartOpen(c) PROVE IInv'
<1>1. /\ op[c].pc = "open" /\ UNCHANGED <<ring, gate, wr, writer, exited, err, boot, active, nalloc>>
      /\ UNCHANGED <<prod, taken, nblk>>
  BY DEF StartOpen, prodVars
<1>2. Shut /\ NoWriter /\ ~sink.open /\ slots # 0 /\ state = "STARTING"
  BY <1>1 DEF IInv, Calls, Knows
<1>3. {"bind", "idle"} \subseteq CallPcs
  BY DEF CallPcs
<1>4. ProdType' /\ WrType'
  BY <1>1 DEF IInv, Types, ProdType, WrType
<1>5. PICK first \in SinkRec : first = [NoSink EXCEPT !.sess = sess + 1]
                              /\ ~first.open /\ first.synced <= Len(first.data)
  <2>1. <<>> \in Seq(Block) /\ Len(<<>>) = 0 /\ sess + 1 \in Nat
    BY DEF IInv, Types, CardType
  <2>2. PICK first : first = [NoSink EXCEPT !.sess = sess + 1]
    OBVIOUS
  <2>3. PICK n \in Nat : n = sess + 1
    BY <2>1
  <2>4. first = [open |-> FALSE, sess |-> n, seg |-> 0, rate |-> 0, data |-> <<>>,
                 synced |-> 0]
    BY <2>2, <2>3 DEF NoSink
  <2>5. first \in SinkRec /\ ~first.open /\ first.synced = 0 /\ first.data = <<>>
    BY <2>1, <2>4 DEF SinkRec, AnyRate
  <2>6. first.synced <= Len(first.data)
    BY <2>1, <2>5
  <2> QED
    BY <2>2, <2>5, <2>6, Zenon
<1>6. PICK r \in Rates :
        \/ /\ sess' = sess + 1 /\ sink' = Opened(first, r)
           /\ Goto(c, "bind") /\ UNCHANGED <<state, slots, card, left>>
        \/ /\ \/ UNCHANGED <<sess, sink, card>>
              \/ sess' = sess + 1 /\ sink' = first /\ card' \in NotOpened(first, r, card)
           /\ slots' = 0 /\ state' = "STOPPED" /\ Goto(c, "idle")
  BY <1>5 DEF StartOpen
<1>7. r \in AnyRate /\ sess + 1 \in Nat /\ CardType /\ card \in SUBSET File
  BY DEF AnyRate, IInv, Types, CardType
<1>8. CASE /\ sess' = sess + 1 /\ sink' = Opened(first, r)
           /\ Goto(c, "bind") /\ UNCHANGED <<state, slots, card, left>>
  <2>1. SinkType'
    BY <1>7, <1>8, OpenedType DEF SinkType
  <2>2. CardType' /\ MemType'
    BY <1>1, <1>7, <1>8 DEF IInv, Types, CardType, MemType
  <2>3. CallType' /\ Alone' /\ op'[c].pc = "bind" /\ (Knows(c)' => Calls')
    BY <1>1, <1>3, <1>8, CallMoves
  <2>4. Knows(c)' /\ AtRest' /\ Users'
    BY <1>1, <1>2, <1>8, <2>3 DEF Knows, AtRest, Users, Shut, NoWriter
  <2> QED
    BY <1>4, <2>1, <2>2, <2>3, <2>4 DEF IInv, Types
<1>9. CASE /\ \/ UNCHANGED <<sess, sink, card>>
              \/ sess' = sess + 1 /\ sink' = first /\ card' \in NotOpened(first, r, card)
           /\ slots' = 0 /\ state' = "STOPPED" /\ Goto(c, "idle")
  <2>1. CardType' /\ SinkType' /\ ~sink'.open
    <3>1. CASE UNCHANGED <<sess, sink, card>>
      BY <1>1, <1>2, <3>1 DEF IInv, Types, CardType, SinkType
    <3>2. CASE sess' = sess + 1 /\ sink' = first /\ card' \in NotOpened(first, r, card)
      <4>1. card' \subseteq File
        BY <1>7, <3>2, NotOpenedIsCard
      <4> QED
        BY <1>1, <1>5, <1>7, <3>2, <4>1 DEF CardType, SinkType, IInv, Types
    <3> QED
      BY <1>9, <3>1, <3>2
  <2>2. MemType'
    BY <1>1, <1>9 DEF IInv, Types, MemType, States
  <2>3. CallType' /\ Alone' /\ op'[c].pc = "idle" /\ (Knows(c)' => Calls')
    BY <1>1, <1>3, <1>9, CallMoves
  <2>4. Knows(c)' /\ AtRest' /\ Users'
    BY <1>1, <1>2, <1>9, <2>1, <2>3 DEF Knows, AtRest, Users, Shut, NoWriter
  <2> QED
    BY <1>4, <2>1, <2>2, <2>3, <2>4 DEF IInv, Types
<1> QED
  BY <1>6, <1>8, <1>9

\* A failed start or a stop closes the segment, if one is open.
LEMMA CloseTypes ==
  ASSUME IInv, NEW p \in BOOLEAN, NEW ok \in BOOLEAN,
         card' = (IF sink.open THEN Closed(sink, p, ok) ELSE card) \/ card' = Closed(sink, p, ok),
         sink' = [sink EXCEPT !.open = FALSE], UNCHANGED <<boot, sess>>
  PROVE  CardType' /\ SinkType' /\ ~sink'.open
<1>1. Closed(sink, p, ok) \subseteq File /\ card \subseteq File
  BY ClosedIsCard DEF IInv, Types, CardType
<1>2. card' \subseteq File
  BY <1>1
<1> QED
  BY <1>2 DEF IInv, Types, CardType, SinkType, SinkRec

\* The ring is bound to its memory and the gate opened, if no producer of the
\* last recording is still inside.
LEMMA StartBindKeeps == ASSUME IInv, NEW c \in Callers, StartBind(c) PROVE IInv'
<1>1. /\ op[c].pc = "bind" /\ ring' = [slots |-> slots, q |-> <<>>] /\ err' = FALSE /\ exited' = FALSE
      /\ UNCHANGED <<wr, writer, prod, nblk, left>> /\ UNCHANGED <<boot, sess, active, nalloc>>
  BY DEF StartBind, ctlVars
<1>2. Shut /\ NoWriter /\ slots # 0 /\ state = "STARTING"
  BY <1>1 DEF IInv, Calls, Knows
<1>3. {"run", "idle"} \subseteq CallPcs
  BY DEF CallPcs
<1>4. ring' \in [slots : Nat, q : Seq(Block)] /\ Len(ring'.q) <= Capacity
  <2>1. <<>> \in Seq(Block) /\ Len(<<>>) = 0
    OBVIOUS
  <2> QED
    BY <1>1, <2>1, RecorderAssumption DEF IInv, Types, MemType
<1>5. WrType'
  BY <1>1 DEF IInv, Types, WrType
<1>6. CASE /\ card' = IF sink.open THEN Closed(sink, FALSE, TRUE) ELSE card
           /\ sink' = [sink EXCEPT !.open = FALSE]
           /\ slots' = 0 /\ state' = "STOPPED" /\ Goto(c, "idle") /\ UNCHANGED gate
  <2>1. CardType' /\ SinkType' /\ ~sink'.open
    BY <1>1, <1>6, CloseTypes
  <2>2. MemType' /\ ProdType'
    BY <1>1, <1>4, <1>6 DEF IInv, Types, MemType, States, ProdType
  <2>3. CallType' /\ Alone' /\ op'[c].pc = "idle" /\ (Knows(c)' => Calls')
    BY <1>1, <1>3, <1>6, CallMoves
  <2>4. Knows(c)' /\ AtRest' /\ Users'
    BY <1>1, <1>2, <1>6, <2>1, <2>3 DEF Knows, AtRest, Users, Shut, NoWriter
  <2> QED
    BY <1>5, <2>1, <2>2, <2>3, <2>4 DEF IInv, Types
<1>7. CASE gate' = [gate EXCEPT !.acc = TRUE] /\ Goto(c, "run") /\ UNCHANGED <<card, sink, slots, state>>
  <2>1. CardType' /\ SinkType' /\ MemType'
    BY <1>1, <1>4, <1>7 DEF IInv, Types, CardType, SinkType, SinkRec, MemType
  <2>2. ProdType'
    BY <1>1, <1>7 DEF IInv, Types, ProdType
  <2>3. CallType' /\ Alone' /\ op'[c].pc = "run" /\ (Knows(c)' => Calls')
    BY <1>1, <1>3, <1>7, CallMoves
  <2>4. Bound' /\ NoWriter' /\ ~exited' /\ state' = "STARTING"
    BY <1>1, <1>2, <1>7 DEF Bound, NoWriter
  <2>5. Knows(c)' /\ AtRest' /\ Users'
    BY <2>3, <2>4 DEF Knows, AtRest, Users, NoWriter
  <2> QED
    BY <1>5, <2>1, <2>2, <2>3, <2>5 DEF IInv, Types
<1> QED
  BY <1>6, <1>7 DEF StartBind

\* RECORDING is published before the writer exists.
LEMMA StartRunKeeps == ASSUME IInv, NEW c \in Callers, StartRun(c) PROVE IInv'
<1> USE DEF StartRun, ctlVars, prodVars
<1>1. op[c].pc = "run" /\ Goto(c, "create") /\ "create" \in CallPcs
  BY DEF CallPcs
<1>2. CallType' /\ Alone' /\ op'[c].pc = "create" /\ (Knows(c)' => Calls')
  BY <1>1, CallMoves
<1>3. Bound /\ NoWriter /\ ~exited /\ state' = "RECORDING"
  BY <1>1 DEF IInv, Calls, Knows
<1>4. Knows(c)' /\ AtRest' /\ Users'
  BY <1>2, <1>3 DEF IInv, Knows, AtRest, Users, Bound, NoWriter
<1>5. MemType'
  BY DEF IInv, Types, MemType, States
<1> QED
  BY <1>2, <1>4, <1>5 DEF IInv, Types, ProdType, WrType, SinkType, SinkRec, CardType

\* The writer starts with the ring bound and its exit bit clear.
LEMMA StartCreateKeeps == ASSUME IInv, NEW c \in Callers, StartCreate(c) PROVE IInv'
<1> USE DEF StartCreate, ctlVars, prodVars
<1>1. op[c].pc = "create" /\ Goto(c, "active") /\ "active" \in CallPcs
  BY DEF CallPcs
<1>2. CallType' /\ Alone' /\ op'[c].pc = "active" /\ (Knows(c)' => Calls')
  BY <1>1, CallMoves
<1>3. Bound /\ ~exited /\ state' = "RECORDING"
  BY <1>1 DEF IInv, Calls, Knows
<1>4. wr'.pc = "look" /\ writer'
  OBVIOUS
<1>5. Knows(c)' /\ AtRest' /\ Users'
  BY <1>2, <1>3, <1>4 DEF IInv, Knows, AtRest, Users, Bound
<1>6. WrType'
  BY DEF IInv, Types, WrType, WrPcs
<1> QED
  BY <1>2, <1>5, <1>6 DEF IInv, Types, MemType, ProdType, SinkType, SinkRec, CardType

\* The card's other users are held off.
LEMMA StartActiveKeeps == ASSUME IInv, NEW c \in Callers, StartActive(c) PROVE IInv'
<1> USE DEF StartActive, prodVars
<1>1. op[c].pc = "active" /\ Goto(c, "idle") /\ "idle" \in CallPcs
  BY DEF CallPcs
<1>2. CallType' /\ Alone' /\ op'[c].pc = "idle" /\ (Knows(c)' => Calls')
  BY <1>1, CallMoves
<1>3. state # "BOOT"
  BY <1>1 DEF IInv, AtRest
<1>4. Knows(c)' /\ AtRest' /\ Users'
  BY <1>2, <1>3 DEF IInv, Knows, AtRest, Users, Bound, Shut, NoWriter
<1> QED
  BY <1>2, <1>4 DEF IInv, Types, MemType, ProdType, WrType, SinkType, SinkRec, CardType

\* No writer can be created: nobody is inside the ring when it is released.
LEMMA StartNoTaskKeeps ==
  ASSUME ~Overlap, IInv, NEW c \in Callers, StartNoTask(c)
  PROVE  IInv'
<1> USE DEF StartNoTask, ctlVars, prodVars
<1>1. op[c].pc = "create" /\ Goto(c, "idle") /\ "idle" \in CallPcs
  BY DEF CallPcs
<1>2. CallType' /\ Alone' /\ op'[c].pc = "idle" /\ (Knows(c)' => Calls')
  BY <1>1, CallMoves
<1>3. NoWriter /\ gate.act = 0 /\ state' = "STOPPED"
  BY <1>1 DEF IInv, Calls, Knows
<1>4. prod.pc # "push" /\ ProdType' /\ ~gate'.acc
  <2>1. prod.pc # "push"
    BY <1>3 DEF IInv, Types, ProdType
  <2>2. gate' \in [acc : BOOLEAN, act : Nat] /\ gate'.act = gate.act /\ ~gate'.acc
    BY DEF IInv, Types, ProdType
  <2> QED
    BY <2>1, <2>2 DEF IInv, Types, ProdType
<1>5. CardType' /\ SinkType' /\ ~sink'.open
  BY CloseTypes
<1>6. Knows(c)' /\ AtRest' /\ Users'
  BY <1>2, <1>3, <1>4, <1>5 DEF Knows, AtRest, Users, Shut, NoWriter
<1>7. MemType'
  BY DEF IInv, Types, MemType, States
<1> QED
  BY <1>2, <1>4, <1>5, <1>6, <1>7 DEF IInv, Types, WrType

\* stop() closes the gate; with the recorder stopped it is done.
LEMMA StopKeeps ==
  ASSUME Serial, IInv, NEW c \in Callers, Stop(c)
  PROVE  IInv'
<1> USE DEF Stop, stopFrame
<1>1. \A d \in Callers : op[d].pc = "idle"
  BY DEF Calm
<1> DEFINE pc == IF state = "STOPPED" /\ slots = 0 THEN "idle" ELSE "quiet"
<1>2. /\ op' \in [Callers -> [pc : CallPcs, st : States \cup {"none"}]]
      /\ op'[c].pc \in {"idle", "quiet"} /\ \A d \in Callers : d # c => op'[d].pc = "idle"
  <2>1. pc \in {"idle", "quiet"} /\ pc \in CallPcs /\ state \in States
    BY DEF CallPcs, IInv, Types, MemType
  <2>2. op' = [op EXCEPT ![c] = [pc |-> pc, st |-> state]]
    OBVIOUS
  <2> HIDE DEF pc
  <2> QED
    BY <1>1, <2>1, <2>2 DEF IInv, Types, CallType
<1>3. CallType' /\ Alone'
  BY <1>2 DEF CallType, Alone
<1>4. gate' \in [acc : BOOLEAN, act : Nat] /\ gate'.act = gate.act /\ ~gate'.acc
  BY DEF IInv, Types, ProdType
<1>5. ProdType'
  BY <1>4 DEF IInv, Types, ProdType
<1>6. Calls'
  <2> SUFFICES ASSUME NEW d \in Callers PROVE Knows(d)'
    BY DEF Calls
  <2>1. op'[d].pc \in {"idle", "quiet"}
    BY <1>2
  <2> QED
    BY <1>4, <2>1 DEF Knows
<1>7. AtRest' /\ Users'
  BY <1>4 DEF IInv, AtRest, Users, Shut, NoWriter, Bound
<1> QED
  BY <1>3, <1>5, <1>6, <1>7 DEF IInv, Types, MemType, WrType, SinkType, SinkRec, CardType

\* No producer is counted: none can reach the ring any more.
LEMMA StopQuietKeeps == ASSUME IInv, NEW c \in Callers, StopQuiet(c) PROVE IInv'
<1> USE DEF StopQuiet, stopFrame
<1>1. op[c].pc = "quiet" /\ Goto(c, "join") /\ "join" \in CallPcs
  BY DEF CallPcs
<1>2. CallType' /\ Alone' /\ op'[c].pc = "join" /\ (Knows(c)' => Calls')
  BY <1>1, CallMoves
<1>3. Shut /\ state # "BOOT"
  BY <1>1 DEF IInv, Types, ProdType, Calls, Knows, Shut, AtRest
<1>4. state' \in {state, "STOPPING"}
  OBVIOUS
<1>5. Knows(c)' /\ AtRest' /\ Users'
  BY <1>2, <1>3, <1>4 DEF IInv, Knows, AtRest, Users, Shut, NoWriter, Bound
<1>6. MemType'
  BY <1>4 DEF IInv, Types, MemType, States
<1> QED
  BY <1>2, <1>5, <1>6 DEF IInv, Types, ProdType, WrType, SinkType, SinkRec, CardType

\* The writer, if there was one, has exited.
LEMMA StopJoinKeeps == ASSUME IInv, NEW c \in Callers, StopJoin(c) PROVE IInv'
<1> USE DEF StopJoin, stopFrame
<1>1. op[c].pc = "join" /\ Goto(c, "close") /\ "close" \in CallPcs
  BY DEF CallPcs
<1>2. CallType' /\ Alone' /\ op'[c].pc = "close" /\ (Knows(c)' => Calls')
  BY <1>1, CallMoves
<1>3. Shut /\ state # "BOOT" /\ wr.pc = "none" /\ ~writer'
  BY <1>1 DEF IInv, Calls, Knows, AtRest, Users
<1>4. Knows(c)' /\ AtRest' /\ Users'
  BY <1>2, <1>3 DEF IInv, Knows, AtRest, Users, Shut, NoWriter, Bound
<1>5. WrType'
  BY DEF IInv, Types, WrType
<1> QED
  BY <1>2, <1>4, <1>5 DEF IInv, Types, MemType, ProdType, SinkType, SinkRec, CardType

\* The segment is closed, published or not.
LEMMA StopCloseKeeps == ASSUME IInv, NEW c \in Callers, StopClose(c) PROVE IInv'
<1> USE DEF StopClose, stopFrame
<1>1. op[c].pc = "close" /\ Goto(c, "release") /\ "release" \in CallPcs
  BY DEF CallPcs
<1>2. CallType' /\ Alone' /\ op'[c].pc = "release" /\ (Knows(c)' => Calls')
  BY <1>1, CallMoves
<1>3. Shut /\ state # "BOOT" /\ NoWriter
  BY <1>1 DEF IInv, Calls, Knows, AtRest
<1>4. CardType' /\ SinkType' /\ ~sink'.open
  <2>1. SessionOk \in BOOLEAN
    BY DEF SessionOk
  <2> QED
    BY <2>1, CloseTypes
<1>5. WrType'
  <2>1. err' \in BOOLEAN
    BY DEF IInv, Types, WrType
  <2> QED
    BY <2>1 DEF IInv, Types, WrType
<1>6. Knows(c)' /\ AtRest' /\ Users'
  BY <1>2, <1>3, <1>4 DEF IInv, Knows, AtRest, Users, Shut, NoWriter, Bound
<1> QED
  BY <1>2, <1>4, <1>5, <1>6 DEF IInv, Types, MemType, ProdType

\* The ring is freed with nobody left to use it.
LEMMA StopReleaseKeeps == ASSUME IInv, NEW c \in Callers, StopRelease(c) PROVE IInv'
<1> USE DEF StopRelease, stopFrame
<1>1. op[c].pc = "release" /\ Goto(c, "idle") /\ "idle" \in CallPcs
  BY DEF CallPcs
<1>2. CallType' /\ Alone' /\ op'[c].pc = "idle" /\ (Knows(c)' => Calls')
  BY <1>1, CallMoves
<1>3. Shut /\ NoWriter /\ ~sink.open /\ state' = "STOPPED"
  BY <1>1 DEF IInv, Calls, Knows
<1>4. Knows(c)' /\ AtRest' /\ Users'
  BY <1>2, <1>3 DEF Knows, AtRest, Users, Shut, NoWriter
<1>5. MemType'
  BY DEF IInv, Types, MemType, States
<1> QED
  BY <1>2, <1>4, <1>5 DEF IInv, Types, ProdType, WrType, SinkType, SinkRec, CardType

-----------------------------------------------------------------------------
\* Every step of the recorder keeps the invariant.
LEMMA NextInv ==
  ASSUME Serial, ~Overlap, IInv, [Next]_vars
  PROVE  IInv'
<1>1. CASE Recover \/ InitDone \/ Crash
  BY <1>1, RecoverKeeps, InitDoneKeeps, CrashKeeps
<1>2. ASSUME NEW r \in Rates, Push(r) PROVE IInv'
  BY <1>2, PushKeeps
<1>3. CASE Producer
  BY <1>3, PushEnterKeeps, RecheckKeeps, PushRingKeeps, PushLeaveKeeps DEF Producer
<1>4. CASE Writer
  BY <1>4, WriterLookKeeps, WriterPeekKeeps, WriterWriteKeeps, WriterConsumeKeeps,
     WriterExitKeeps DEF Writer
<1>5. ASSUME NEW c \in Callers, Start(c) PROVE IInv'
  BY <1>5, StartKeeps
<1>6. ASSUME NEW c \in Callers, Stop(c) PROVE IInv'
  BY <1>6, StopKeeps
<1>7. ASSUME NEW c \in Callers, Call(c) PROVE IInv'
  BY <1>7, StartAllocKeeps, StartOpenKeeps, StartBindKeeps, StartRunKeeps, StartCreateKeeps,
     StartActiveKeeps, StartNoTaskKeeps, StopQuietKeeps, StopJoinKeeps, StopCloseKeeps,
     StopReleaseKeeps DEF Call
<1>8. CASE UNCHANGED vars
  BY <1>8 DEF vars, IInv, Types, MemType, ProdType, WrType, SinkType, SinkRec, CardType, CallType,
     Alone, Calls, Knows, AtRest, Users, Shut, NoWriter, Bound
<1> QED
  BY <1>1, <1>2, <1>3, <1>4, <1>5, <1>6, <1>7, <1>8 DEF Next

\* The inductive invariant holds throughout every run in which calls do not
\* overlap (audio_recorder_start and _stop take no lock) and no start fails
\* with a producer inside.
THEOREM Invariance == ASSUME Serial, ~Overlap PROVE Spec => []IInv
<1>1. IInv /\ [Next]_vars => IInv'
  BY NextInv
<1> QED
  BY <1>1, InitInv, PTL DEF Spec

\* The state keeps its types, the ring never holds more blocks than it has
\* slots, and the gate counts exactly the producers inside
\* (audio_recorder_stop_gate_enter and _leave).
THEOREM TypeCorrect == ASSUME Serial, ~Overlap PROVE Spec => []TypeOK
<1>1. IInv => TypeOK
  BY DEF IInv, Types, MemType, States, ProdType, CardType, File, CallType, CallPcs, TypeOK
<1> QED
  BY <1>1, Invariance, PTL

\* The output task and the writer touch the ring only while its memory is
\* allocated and it is the memory the ring was bound to.
THEOREM RingSafe == ASSUME Serial, ~Overlap PROVE Spec => []RingOwned
<1>1. IInv => RingOwned
  BY DEF IInv, Users, Bound, RingOwned
<1> QED
  BY <1>1, Invariance, PTL

-----------------------------------------------------------------------------
(* What is durable stays durable.                                          *)

OnCard(b) == \E f \in card : \E i \in 1 .. Len(f.data) : f.data[i] = b
Synced(b) == sink.open /\ \E i \in 1 .. sink.synced : sink.data[i] = b
Kept(b) == OnCard(b) \/ Synced(b)

\* The blocks that are durable, by where they are.
LEMMA DurableIsKept ==
  ASSUME CardType, SinkType
  PROVE  \A b : b \in Blocks \cup Range(SubSeq(sink.data, 1, IF sink.open THEN sink.synced ELSE 0))
                  <=> Kept(b)
<1> SUFFICES ASSUME NEW b
             PROVE  b \in Blocks \cup Range(SubSeq(sink.data, 1, IF sink.open THEN sink.synced ELSE 0))
                      <=> Kept(b)
  OBVIOUS
<1>1. b \in Blocks <=> OnCard(b)
  <2>1. \A f \in card : DOMAIN f.data = 1 .. Len(f.data)
    BY DEF CardType, File
  <2> QED
    BY <2>1 DEF Blocks, OnCard, Range
<1>2. PICK n \in 0 .. Len(sink.data) : n = IF sink.open THEN sink.synced ELSE 0
  BY DEF SinkType, SinkRec
<1>3. b \in Range(SubSeq(sink.data, 1, n)) <=> \E i \in 1 .. n : sink.data[i] = b
  <2>1. /\ DOMAIN SubSeq(sink.data, 1, n) = 1 .. n
        /\ \A i \in 1 .. n : SubSeq(sink.data, 1, n)[i] = sink.data[i]
    BY <1>2 DEF SinkType, SinkRec
  <2> QED
    BY <2>1 DEF Range
<1>4. (\E i \in 1 .. n : sink.data[i] = b) <=> Synced(b)
  BY <1>2 DEF Synced, SinkType, SinkRec
<1> QED
  BY <1>1, <1>2, <1>3, <1>4 DEF Kept

\* A segment that is closed takes all of its blocks to the card.
LEMMA ClosingKeeps ==
  ASSUME IInv, NEW p \in BOOLEAN, NEW ok \in BOOLEAN, Closed(sink, p, ok) \subseteq card', NEW b, Kept(b)
  PROVE  Kept(b)'
<1> DEFINE k == IF p /\ ok THEN "wav" ELSE "part"
           seg == Segment(sink, k, sink.data)
<1>1. card \subseteq card' /\ seg \in card' /\ seg.data = sink.data
  BY DEF Closed, Segment
<1> HIDE DEF seg
<1>2. CASE OnCard(b)
  BY <1>1, <1>2 DEF OnCard, Kept
<1>3. CASE Synced(b)
  <2>1. PICK i \in 1 .. sink.synced : sink.data[i] = b
    BY <1>3 DEF Synced
  <2>2. i \in 1 .. Len(sink.data)
    BY <2>1 DEF IInv, Types, SinkType, SinkRec
  <2> QED
    BY <1>1, <2>1, <2>2 DEF OnCard, Kept
<1> QED
  BY <1>2, <1>3 DEF Kept

\* A card that only grows, with the open segment kept open and its
\* checkpointed part as it was.
LEMMA GrowingKeeps ==
  ASSUME IInv, card \subseteq card',
         sink.open => /\ sink'.open /\ sink'.synced \in Nat /\ sink.synced <= sink'.synced
                      /\ \A i \in 1 .. sink.synced : sink'.data[i] = sink.data[i],
         NEW b, Kept(b)
  PROVE  Kept(b)'
<1>1. CASE OnCard(b)
  BY <1>1 DEF OnCard, Kept
<1>2. CASE Synced(b)
  <2>1. PICK i \in 1 .. sink.synced : sink.data[i] = b
    BY <1>2 DEF Synced
  <2>2. sink'.open /\ i \in 1 .. sink'.synced /\ sink'.data[i] = b
    BY <1>2, <2>1 DEF Synced, IInv, Types, SinkType, SinkRec
  <2> QED
    BY <2>2 DEF Synced, Kept
<1> QED
  BY <1>1, <1>2 DEF Kept

\* Recovery drops only segments without a block.
LEMMA RecoverDurable == ASSUME IInv, Recover, NEW b, Kept(b) PROVE Kept(b)'
<1>1. PICK f \in Parts : card' = RecoverOne(f)
  BY DEF Recover
<1>2. f \in card /\ f \in File /\ UNCHANGED sink
  BY <1>1 DEF Recover, Parts, IInv, Types, CardType
<1>3. CASE Synced(b)
  BY <1>2, <1>3 DEF Synced, Kept
<1>4. CASE OnCard(b)
  <2>1. PICK g \in card : \E i \in 1 .. Len(g.data) : g.data[i] = b
    BY <1>4 DEF OnCard
  <2>2. CASE g # f
    BY <1>1, <2>1, <2>2 DEF RecoverOne, OnCard, Kept
  <2>3. CASE g = f
    <3>1. f.data # <<>>
      BY <2>1, <2>3
    <3> DEFINE h == [f EXCEPT !.kind = "recovered"]
    <3>2. h \in card' /\ h.data = f.data
      BY <1>1, <1>2, <3>1 DEF RecoverOne, File
    <3> HIDE DEF h
    <3> QED
      BY <2>1, <2>3, <3>2 DEF OnCard, Kept
  <2> QED
    BY <2>2, <2>3
<1> QED
  BY <1>3, <1>4 DEF Kept

\* A power failure leaves at least the checkpointed part of the segment.
LEMMA CrashDurable == ASSUME IInv, Crash, NEW b, Kept(b) PROVE Kept(b)'
<1>1. PICK n \in sink.synced .. Len(sink.data) :
         card' = IF sink.open THEN card \cup {Segment(sink, "part", SubSeq(sink.data, 1, n))}
                 ELSE card
  BY DEF Crash
<1>2. CASE OnCard(b)
  BY <1>1, <1>2 DEF OnCard, Kept
<1>3. CASE Synced(b)
  <2>1. PICK i \in 1 .. sink.synced : sink.data[i] = b
    BY <1>3 DEF Synced
  <2> DEFINE seg == Segment(sink, "part", SubSeq(sink.data, 1, n))
  <2>2. seg \in card' /\ seg.data = SubSeq(sink.data, 1, n)
    BY <1>1, <1>3 DEF Synced, Segment
  <2>3. /\ i \in 1 .. Len(SubSeq(sink.data, 1, n))
        /\ SubSeq(sink.data, 1, n)[i] = b
    BY <1>1, <2>1 DEF IInv, Types, SinkType, SinkRec
  <2> HIDE DEF seg
  <2> QED
    BY <2>2, <2>3 DEF OnCard, Kept
<1> QED
  BY <1>2, <1>3 DEF Kept

\* The writer closes a full segment before it starts the next one.
LEMMA WriteDurable == ASSUME IInv, WriterWrite, NEW b, Kept(b) PROVE Kept(b)'
<1>0. PICK blk \in Block : blk = Head(ring.q)
  BY WriteTypes DEF WriterWrite
<1>1. CASE WriteOk(blk, sink, card)
  <2>1. sink \in SinkRec /\ sink.synced <= Len(sink.data)
    BY DEF IInv, Types, SinkType
  <2>2. sink' = [sink EXCEPT !.data = Append(@, blk)] /\ card' = card
    BY <1>1 DEF WriteOk
  <2>3. /\ sink'.open = sink.open /\ sink'.synced = sink.synced
        /\ sink'.data = Append(sink.data, blk)
    BY <2>1, <2>2, AppendType
  <2>4. \A i \in 1 .. sink.synced : Append(sink.data, blk)[i] = sink.data[i]
    BY <2>1 DEF SinkRec
  <2>5. sink.synced \in Nat
    BY <2>1 DEF SinkRec
  <2>6. \A i \in 1 .. sink.synced : sink'.data[i] = sink.data[i]
    BY <2>3, <2>4
  <2>7. sink'.synced \in Nat /\ sink.synced <= sink'.synced
    BY <2>3, <2>5
  <2>8. card \subseteq card' /\ (sink.open => sink'.open)
    BY <2>2, <2>3
  <2> QED
    BY <2>6, <2>7, <2>8, GrowingKeeps
<1>2. CASE UNCHANGED <<sink, card>>
  BY <1>2 DEF Kept, OnCard, Synced
<1>3. CASE \E p, ok \in BOOLEAN : Closed(sink, p, ok) \subseteq card'
  BY <1>3, ClosingKeeps
<1>4. \/ WriteOk(blk, sink, card)
      \/ UNCHANGED <<sink, card>>
      \/ \E p, ok \in BOOLEAN : Closed(sink, p, ok) \subseteq card'
  BY <1>0, WriteCases DEF WriteOk, WriteFails, CloseFails, OpenFails, NotOpened
<1> QED
  BY <1>1, <1>2, <1>3, <1>4

\* A call closes a segment by writing it to the card, and opens one only when
\* none is open.
LEMMA CallDurable ==
  ASSUME IInv, NEW c \in Callers, Call(c), NEW b, Kept(b)
  PROVE  Kept(b)'
<1>1. CASE UNCHANGED <<sink, card>>
  BY <1>1 DEF Kept, OnCard, Synced
<1>2. CASE ~sink.open /\ card \subseteq card'
  BY <1>2, GrowingKeeps
<1>3. CASE \E p, ok \in BOOLEAN : card' = Closed(sink, p, ok)
  BY <1>3, ClosingKeeps
<1>4. CASE StartOpen(c)
  <2>1. ~sink.open /\ card \subseteq card'
    BY <1>4 DEF StartOpen, NotOpened, IInv, Calls, Knows
  <2> QED
    BY <1>2, <2>1
<1>5. CASE StartBind(c)
  BY <1>1, <1>2, <1>3, <1>5 DEF StartBind
<1>6. CASE StartNoTask(c)
  BY <1>2, <1>3, <1>6 DEF StartNoTask
<1>7. CASE StopClose(c)
  <2>1. SessionOk \in BOOLEAN
    BY DEF SessionOk
  <2> QED
    BY <1>2, <1>3, <1>7, <2>1 DEF StopClose
<1>8. CASE \/ StartAlloc(c) \/ StartRun(c) \/ StartCreate(c) \/ StartActive(c)
           \/ StopQuiet(c) \/ StopJoin(c) \/ StopRelease(c)
  BY <1>1, <1>8 DEF StartAlloc, StartRun, StartCreate, StartActive, StopQuiet, StopJoin,
     StopRelease
<1> QED
  BY <1>4, <1>5, <1>6, <1>7, <1>8 DEF Call

\* No step loses a durable block.
LEMMA StepDurable ==
  ASSUME IInv, [Next]_vars, NEW b, Kept(b)
  PROVE  Kept(b)'
<1>1. CASE UNCHANGED <<sink, card>>
  BY <1>1 DEF Kept, OnCard, Synced
<1>2. CASE WriterConsume
  <2>1. card' = card
    BY <1>2 DEF WriterConsume
  <2>2. CASE UNCHANGED sink
    BY <1>1, <2>1, <2>2
  <2>3. CASE sink' = [sink EXCEPT !.synced = Len(sink.data)]
    <3>1. /\ sink'.open = sink.open /\ sink'.data = sink.data
          /\ sink'.synced = Len(sink.data) /\ Len(sink.data) \in Nat
          /\ sink.synced <= Len(sink.data)
      BY <2>3 DEF IInv, Types, SinkType, SinkRec
    <3> QED
      BY <2>1, <3>1, GrowingKeeps
  <2> QED
    BY <1>2, <2>2, <2>3 DEF WriterConsume
<1>3. CASE Recover \/ Crash \/ WriterWrite
  BY <1>3, RecoverDurable, CrashDurable, WriteDurable
<1>4. ASSUME NEW c \in Callers, Call(c) PROVE Kept(b)'
  BY <1>4, CallDurable
<1>5. CASE InitDone \/ (\E r \in Rates : Push(r)) \/ Producer
  BY <1>1, <1>5 DEF InitDone, Push, Producer, PushEnter, PushRecheck, PushRing, PushLeave,
     prodFrame
<1>6. CASE WriterLook \/ WriterPeek \/ WriterExit
  BY <1>1, <1>6 DEF WriterLook, WriterPeek, WriterExit
<1>7. CASE \E c \in Callers : Start(c) \/ Stop(c)
  BY <1>1, <1>7 DEF Start, Stop
<1>8. CASE UNCHANGED vars
  BY <1>1, <1>8 DEF vars
<1> QED
  BY <1>2, <1>3, <1>4, <1>5, <1>6, <1>7, <1>8 DEF Next, Writer

\* A checkpointed block survives every step: a power failure, a failed
\* finalisation, a later recording (recover_one, sink_checkpoint, finalize).
THEOREM CheckpointsSurvive == ASSUME Serial, ~Overlap PROVE Spec => Durable
<1> DEFINE Held == Blocks \cup Range(SubSeq(sink.data, 1, IF sink.open THEN sink.synced ELSE 0))
           Facts == \A b : b \in Held <=> Kept(b)
           Step == \A b \in Blocks \cup Range(SubSeq(sink.data, 1, IF sink.open THEN sink.synced ELSE 0)) :
                     b \in Blocks' \cup Range(SubSeq(sink.data, 1, IF sink.open THEN sink.synced ELSE 0))'
<1>0. (CardType /\ SinkType => Facts) /\ (CardType /\ SinkType => Facts)'
  <2>1. CardType /\ SinkType => Facts
    BY DurableIsKept
  <2> HIDE DEF Facts
  <2> QED
    BY <2>1, PTL
<1>1. ASSUME IInv, IInv', [Next]_vars PROVE Step
  <2> SUFFICES ASSUME NEW b, b \in Held
               PROVE  b \in Blocks' \cup Range(SubSeq(sink.data, 1, IF sink.open THEN sink.synced ELSE 0))'
    OBVIOUS
  <2>1. Kept(b)
    BY <1>1, DurableIsKept DEF IInv, Types
  <2>2. Kept(b)'
    BY <1>1, <2>1, StepDurable
  <2>3. (CardType /\ SinkType)'
    BY <1>1 DEF IInv, Types
  <2>4. Facts'
    BY <1>0, <2>3
  <2> QED
    BY <2>2, <2>4
<1>2. IInv /\ IInv' /\ [Next]_vars => [Step]_vars
  BY <1>1
<1> HIDE DEF Step
<1>3. Spec => [][Step]_vars
  BY <1>2, Invariance, PTL DEF Spec
<1> QED
  BY <1>3 DEF Durable, Step

-----------------------------------------------------------------------------
(* Concatenations.                                                         *)

\* The first n of the sequences v, one after the other.
Flat(v, n) == FlattenSeq([k \in 1 .. n |-> v[k]])

\* The function that FlattenSeq defines by recursion.
IsFlat(g, s, n) == g = [i \in 1 .. n |-> IF i = 1 THEN s[i] ELSE g[i - 1] \o s[i]]

FlatSteps(g, s, n) ==
  /\ n # 0 => g[1] = s[1]
  /\ \A i \in Nat : i \in 1 .. n /\ i + 1 \in 1 .. n => g[i + 1] = g[i] \o s[i + 1]

\* The equation read as facts about the values.
LEMMA IsFlatValues ==
  ASSUME NEW n \in Nat, NEW s, NEW g, IsFlat(g, s, n)
  PROVE  FlatSteps(g, s, n)
<1>1. \A i \in 1 .. n : g[i] = IF i = 1 THEN s[i] ELSE g[i - 1] \o s[i]
  BY DEF IsFlat
<1>2. n # 0 => g[1] = s[1]
  BY <1>1
<1>3. ASSUME NEW i \in Nat, i \in 1 .. n, i + 1 \in 1 .. n
      PROVE  g[i + 1] = g[i] \o s[i + 1]
  <2>1. i + 1 # 1 /\ i + 1 - 1 = i
    BY <1>3
  <2>2. PICK j \in 1 .. n : j = i + 1 /\ j # 1 /\ j - 1 = i
    BY <1>3, <2>1
  <2>3. g[j] = g[j - 1] \o s[j]
    BY <1>1, <2>2
  <2> QED
    BY <2>2, <2>3
<1> QED
  BY <1>2, <1>3 DEF FlatSteps

\* There is such a function ...
LEMMA FlatExists ==
  ASSUME NEW s, NEW n \in Nat
  PROVE  \E g : IsFlat(g, s, n)
<1> DEFINE S == {m \in Nat : \E g : IsFlat(g, s, m)}
<1>1. 0 \in S
  <2>1. IsFlat([i \in 1 .. 0 |-> 0], s, 0)
    BY DEF IsFlat
  <2> QED
    BY <2>1
<1>2. ASSUME NEW m \in Nat, m \in S PROVE m + 1 \in S
  <2>1. PICK g : IsFlat(g, s, m)
    BY <1>2
  <2> DEFINE h == [i \in 1 .. m + 1 |-> IF i = m + 1 THEN (IF i = 1 THEN s[i] ELSE g[m] \o s[i])
                                        ELSE g[i]]
  <2>2. \A i \in 1 .. m : g[i] = IF i = 1 THEN s[i] ELSE g[i - 1] \o s[i]
    BY <2>1 DEF IsFlat
  <2>3. \A i \in 1 .. m + 1 : h[i] = IF i = 1 THEN s[i] ELSE h[i - 1] \o s[i]
    <3> TAKE i \in 1 .. m + 1
    <3>1. CASE i = m + 1
      <4>1. i # 1 => i - 1 \in 1 .. m + 1 /\ i - 1 # m + 1 /\ i - 1 = m
        BY <3>1
      <4> QED
        BY <3>1, <4>1
    <3>2. CASE i # m + 1
      <4>1. i \in 1 .. m /\ (i # 1 => i - 1 \in 1 .. m + 1 /\ i - 1 # m + 1)
        BY <3>2
      <4> QED
        BY <2>2, <3>2, <4>1
    <3> QED
      BY <3>1, <3>2
  <2>4. IsFlat(h, s, m + 1)
    BY <2>3 DEF IsFlat
  <2> QED
    BY <2>4
<1> HIDE DEF S
<1>3. Nat \subseteq S
  BY <1>1, <1>2, Induction
<1> QED
  BY <1>3 DEF S

\* ... and it depends on the sequences up to its argument only.
LEMMA FlatUnique ==
  ASSUME NEW s, NEW t, NEW m \in Nat, NEW n \in Nat, m <= n, \A i \in 1 .. m : s[i] = t[i],
         NEW g, NEW h, IsFlat(g, s, m), IsFlat(h, t, n)
  PROVE  \A i \in 1 .. m : g[i] = h[i]
<1> DEFINE S == {k \in Nat : k \in 1 .. m => g[k] = h[k]}
<1>0. FlatSteps(g, s, m) /\ FlatSteps(h, t, n)
  BY IsFlatValues, Zenon
<1>1. /\ m # 0 => g[1] = s[1]
      /\ \A i \in Nat : i \in 1 .. m /\ i + 1 \in 1 .. m => g[i + 1] = g[i] \o s[i + 1]
  BY <1>0 DEF FlatSteps
<1>2. /\ n # 0 => h[1] = t[1]
      /\ \A i \in Nat : i \in 1 .. n /\ i + 1 \in 1 .. n => h[i + 1] = h[i] \o t[i + 1]
  BY <1>0 DEF FlatSteps
<1>3. 0 \in S
  OBVIOUS
<1>4. ASSUME NEW k \in Nat, k \in S PROVE k + 1 \in S
  <2> SUFFICES ASSUME k + 1 \in 1 .. m PROVE g[k + 1] = h[k + 1]
    OBVIOUS
  <2>1. k + 1 \in 1 .. m /\ k + 1 \in 1 .. n /\ s[k + 1] = t[k + 1]
    OBVIOUS
  <2>2. CASE k = 0
    BY <1>1, <1>2, <2>1, <2>2
  <2>3. CASE k # 0
    <3>1. k \in 1 .. m /\ k \in 1 .. n
      BY <2>1, <2>3
    <3>2. g[k] = h[k]
      BY <1>4, <3>1
    <3>3. g[k + 1] = g[k] \o s[k + 1] /\ h[k + 1] = h[k] \o t[k + 1]
      BY <1>1, <1>2, <2>1, <3>1, Zenon
    <3> QED
      BY <2>1, <3>2, <3>3, Zenon
  <2> QED
    BY <2>2, <2>3
<1> HIDE DEF S
<1>5. Nat \subseteq S
  BY <1>3, <1>4, Induction
<1> QED
  BY <1>5 DEF S

\* FlattenSeq is the last of its values.
LEMMA FlatIs ==
  ASSUME NEW v, NEW n \in Nat \ {0}, \A k \in 1 .. n : v[k] \in Seq(Block)
  PROVE  \E g : IsFlat(g, v, n) /\ Flat(v, n) = g[n]
<1> DEFINE s == [k \in 1 .. n |-> v[k]]
           g == CHOOSE f : IsFlat(f, s, n)
<1>1. s \in Seq(Seq(Block)) /\ Len(s) = n /\ \A k \in 1 .. n : s[k] = v[k]
  OBVIOUS
<1> HIDE DEF s
<1>2. IsFlat(g, s, n)
  BY FlatExists
<1>3. FlattenSeq(s) = g[n]
  BY <1>1 DEF FlattenSeq, IsFlat
<1> HIDE DEF g
<1>4. IsFlat(g, v, n)
  BY <1>1, <1>2 DEF IsFlat
<1>5. Flat(v, n) = FlattenSeq(s)
  BY DEF Flat, s
<1> QED
  BY <1>3, <1>4, <1>5

\* Nothing concatenated is the empty sequence, ...
LEMMA FlatEmpty ==
  ASSUME NEW v
  PROVE  Flat(v, 0) = <<>>
<1>1. [k \in 1 .. 0 |-> v[k]] = <<>>
  OBVIOUS
<1> QED
  BY <1>1 DEF Flat, FlattenSeq

\* ... and one more sequence goes to the end.
LEMMA FlatNext ==
  ASSUME NEW v, NEW n \in Nat, \A k \in 1 .. n + 1 : v[k] \in Seq(Block)
  PROVE  Flat(v, n + 1) = Flat(v, n) \o v[n + 1]
<1>0. n + 1 \in Nat \ {0} /\ n + 1 \in 1 .. n + 1 /\ (n # 0 => n \in Nat \ {0} /\ n \in 1 .. n)
  OBVIOUS
<1>1. PICK h : IsFlat(h, v, n + 1) /\ Flat(v, n + 1) = h[n + 1]
  BY <1>0, FlatIs, Zenon
<1>2. h[1] = v[1] /\ (n \in 1 .. n + 1 => h[n + 1] = h[n] \o v[n + 1])
  <2>1. FlatSteps(h, v, n + 1)
    BY <1>0, <1>1, IsFlatValues, Zenon
  <2>2. n + 1 # 0
    OBVIOUS
  <2> QED
    BY <1>0, <2>1, <2>2, Zenon DEF FlatSteps
<1>3. CASE n = 0
  <2>1. Flat(v, n) = <<>> /\ h[n + 1] = v[n + 1] /\ v[n + 1] \in Seq(Block)
    BY <1>2, <1>3, FlatEmpty
  <2>2. <<>> \o v[n + 1] = v[n + 1]
    BY <2>1
  <2> QED
    BY <1>1, <2>1, <2>2
<1>4. CASE n # 0
  <2>1. \A k \in 1 .. n : v[k] \in Seq(Block)
    OBVIOUS
  <2>2. PICK g : IsFlat(g, v, n) /\ Flat(v, n) = g[n]
    BY <1>0, <1>4, <2>1, FlatIs, Zenon
  <2>3. \A i \in 1 .. n : g[i] = h[i]
    BY <1>1, <2>2, FlatUnique, n <= n + 1
  <2>4. g[n] = h[n]
    BY <1>0, <1>4, <2>3
  <2>5. n \in 1 .. n + 1
    BY <1>4
  <2> QED
    BY <1>1, <1>2, <2>2, <2>4, <2>5, Zenon
<1> QED
  BY <1>3, <1>4

\* A concatenation of sequences of blocks is one.
LEMMA FlatType ==
  ASSUME NEW n \in Nat, NEW v, \A k \in 1 .. n : v[k] \in Seq(Block)
  PROVE  Flat(v, n) \in Seq(Block)
<1> DEFINE S == {m \in Nat : m <= n => Flat(v, m) \in Seq(Block)}
<1>1. 0 \in S
  <2>1. <<>> \in Seq(Block)
    OBVIOUS
  <2> QED
    BY <2>1, FlatEmpty
<1>2. ASSUME NEW m \in Nat, m \in S PROVE m + 1 \in S
  <2> SUFFICES ASSUME m + 1 <= n PROVE Flat(v, m + 1) \in Seq(Block)
    OBVIOUS
  <2>1. Flat(v, m) \in Seq(Block) /\ v[m + 1] \in Seq(Block) /\ \A k \in 1 .. m + 1 : v[k] \in Seq(Block)
    BY <1>2
  <2>2. Flat(v, m + 1) = Flat(v, m) \o v[m + 1]
    BY <2>1, FlatNext
  <2>3. \A a, b \in Seq(Block) : a \o b \in Seq(Block)
    OBVIOUS
  <2> QED
    BY <2>1, <2>2, <2>3, Zenon
<1> HIDE DEF S
<1>3. Nat \subseteq S
  BY <1>1, <1>2, Induction
<1> QED
  BY <1>3 DEF S

-----------------------------------------------------------------------------
(* What a session has on the card.                                         *)

DataIn(gs) == IF gs = {} THEN <<>> ELSE (CHOOSE f \in gs : TRUE).data
DataOf(fs, n) == DataIn({f \in fs : f.id[3] = n})
DataSeq(fs) == [k \in Nat |-> DataOf(fs, k - 1)]
Cat(fs, n) == Flat(DataSeq(fs), n)

\* The property reads the card in the same way.
LEMMA CatIsRecorded ==
  ASSUME NEW n \in Nat
  PROVE  FlattenSeq([k \in 1 .. n |-> Recorded(k - 1)]) = Cat(SessionFiles, n)
<1>1. \A m : Recorded(m) = DataOf(SessionFiles, m)
  BY DEF Recorded, DataOf, DataIn
<1>2. \A k \in 1 .. n : k \in Nat /\ DataSeq(SessionFiles)[k] = Recorded(k - 1)
  BY <1>1 DEF DataSeq
<1>3. [k \in 1 .. n |-> Recorded(k - 1)] = [k \in 1 .. n |-> DataSeq(SessionFiles)[k]]
  BY <1>2, Zenon
<1> QED
  BY <1>3, Zenon DEF Cat, Flat

\* A segment holds blocks, a missing one none.
LEMMA DataOfType ==
  ASSUME NEW fs \in SUBSET File, NEW n
  PROVE  DataOf(fs, n) \in Seq(Block)
<1> DEFINE gs == {f \in fs : f.id[3] = n}
<1>1. gs # {} => (CHOOSE f \in gs : TRUE) \in gs
  BY Zenon
<1>2. CASE gs = {}
  <2>1. DataOf(fs, n) = <<>>
    BY <1>2, Zenon DEF DataOf, DataIn
  <2> QED
    BY <2>1
<1>3. CASE gs # {}
  <2>1. PICK f \in File : f = CHOOSE e \in gs : TRUE
    BY <1>1, <1>3
  <2>2. DataOf(fs, n) = f.data
    BY <1>3, <2>1, Zenon DEF DataOf, DataIn
  <2> QED
    BY <2>1, <2>2 DEF File
<1> QED
  BY <1>2, <1>3

\* Segment by segment.
LEMMA CatNext ==
  ASSUME NEW fs \in SUBSET File, NEW n \in Nat
  PROVE  /\ Cat(fs, n + 1) = Cat(fs, n) \o DataOf(fs, n)
         /\ Cat(fs, n) \in Seq(Block)
<1>1. \A k \in Nat : DataSeq(fs)[k] = DataOf(fs, k - 1) /\ DataSeq(fs)[k] \in Seq(Block)
  BY DataOfType DEF DataSeq
<1>2. /\ \A k \in 1 .. n + 1 : DataSeq(fs)[k] \in Seq(Block)
      /\ \A k \in 1 .. n : DataSeq(fs)[k] \in Seq(Block)
  BY <1>1
<1>3. Flat(DataSeq(fs), n + 1) = Flat(DataSeq(fs), n) \o DataSeq(fs)[n + 1]
  BY <1>2, FlatNext
<1>4. Flat(DataSeq(fs), n) \in Seq(Block)
  BY <1>2, FlatType
<1>5. DataSeq(fs)[n + 1] = DataOf(fs, n)
  <2>1. n + 1 \in Nat /\ n + 1 - 1 = n
    OBVIOUS
  <2>2. DataSeq(fs)[n + 1] = DataOf(fs, n + 1 - 1)
    BY <1>1, <2>1
  <2> QED
    BY <2>1, <2>2, Zenon
<1> QED
  BY <1>3, <1>4, <1>5, Zenon DEF Cat

\* A session with nothing on the card has no block there.
LEMMA CatEmpty ==
  ASSUME NEW fs
  PROVE  Cat(fs, 0) = <<>>
BY FlatEmpty DEF Cat

\* The segment that follows the others ends the recording.
LEMMA CatGrows ==
  ASSUME NEW fs \in SUBSET File, NEW f \in File, NEW n \in Nat, f.id[3] = n,
         \A g \in fs : g.id[3] < n
  PROVE  Cat(fs \cup {f}, n + 1) = Cat(fs, n) \o f.data
<1> DEFINE hs == fs \cup {f}
<1>1. {g \in hs : g.id[3] = n} = {f}
  <2>1. \A g \in fs : g.id[3] # n
    BY DEF File
  <2> QED
    BY <2>1
<1>2. DataOf(hs, n) = f.data
  <2>1. {g \in hs : g.id[3] = n} # {} /\ (CHOOSE g \in {f} : TRUE) = f
    BY <1>1
  <2> QED
    BY <1>1, <2>1, Zenon DEF DataOf, DataIn
<1>3. \A k \in 1 .. n : DataSeq(hs)[k] = DataSeq(fs)[k]
  <2> SUFFICES ASSUME NEW k \in 1 .. n PROVE DataSeq(hs)[k] = DataSeq(fs)[k]
    OBVIOUS
  <2>1. k \in Nat /\ f.id[3] # k - 1
    OBVIOUS
  <2>2. {g \in hs : g.id[3] = k - 1} = {g \in fs : g.id[3] = k - 1}
    BY <2>1
  <2>3. DataOf(hs, k - 1) = DataOf(fs, k - 1)
    BY <2>2 DEF DataOf
  <2> QED
    BY <2>1, <2>3, Zenon DEF DataSeq
<1>4. Cat(hs, n) = Cat(fs, n)
  <2>1. [k \in 1 .. n |-> DataSeq(hs)[k]] = [k \in 1 .. n |-> DataSeq(fs)[k]]
    BY <1>3, Zenon
  <2> QED
    BY <2>1, Zenon DEF Cat, Flat
<1>5. hs \in SUBSET File
  OBVIOUS
<1>6. Cat(hs, n + 1) = Cat(hs, n) \o DataOf(hs, n)
  BY <1>5, CatNext
<1> QED
  BY <1>2, <1>4, <1>6, Zenon

\* A block may be added before or after the concatenation, ...
LEMMA AppendConcat ==
  ASSUME NEW a \in Seq(Block), NEW b \in Seq(Block), NEW x \in Block
  PROVE  Append(a \o b, x) = a \o Append(b, x)
<1>1. a \o b \in Seq(Block) /\ <<x>> \in Seq(Block)
  BY ConcatProperties
<1>2. Append(a \o b, x) = (a \o b) \o <<x>> /\ Append(b, x) = b \o <<x>>
  BY <1>1, AppendIsConcat
<1>3. (a \o b) \o <<x>> = a \o (b \o <<x>>)
  BY <1>1, ConcatAssociative
<1> QED
  BY <1>2, <1>3, Zenon

\* ... and one that is written moves from the ring to the segment.
LEMMA MoveHead ==
  ASSUME NEW a \in Seq(Block), NEW q \in Seq(Block), q # <<>>
  PROVE  Append(a, Head(q)) \o Tail(q) = a \o q
<1>1. PICK h \in Block : h = Head(q)
  BY HeadTailProperties
<1>2. PICK t \in Seq(Block) : /\ t = Tail(q) /\ Len(t) = Len(q) - 1
                              /\ \A i \in 1 .. Len(t) : t[i] = q[i + 1]
  BY HeadTailProperties
<1>3. PICK hs \in Seq(Block) : hs = <<h>> /\ Len(hs) = 1 /\ hs[1] = h
  <2>1. <<h>> \in Seq(Block) /\ Len(<<h>>) = 1 /\ <<h>>[1] = h
    OBVIOUS
  <2> QED
    BY <2>1, Zenon
<1>4. hs \o t = q
  <2>1. Len(q) \in Nat \ {0} /\ h = q[1]
    BY <1>1, EmptySeq DEF Head
  <2>2. PICK w \in Seq(Block) : /\ w = hs \o t /\ Len(w) = 1 + Len(t)
                                /\ \A i \in 1 .. 1 + Len(t) : w[i] = IF i <= 1 THEN hs[i] ELSE t[i - 1]
    <3>1. /\ hs \o t \in Seq(Block) /\ Len(hs \o t) = Len(hs) + Len(t)
          /\ \A i \in 1 .. Len(hs) + Len(t) :
                (hs \o t)[i] = IF i <= Len(hs) THEN hs[i] ELSE t[i - Len(hs)]
      BY ConcatProperties
    <3>2. Len(hs) = 1
      BY <1>3
    <3> QED
      BY <3>1, <3>2, Zenon
  <2>3. Len(w) = Len(q)
    BY <1>2, <2>1, <2>2
  <2>4. \A i \in 1 .. Len(w) : w[i] = q[i]
    <3> SUFFICES ASSUME NEW i \in 1 .. Len(q) PROVE w[i] = q[i]
      BY <2>3
    <3>1. CASE i = 1
      BY <1>3, <2>1, <2>2, <3>1
    <3>2. CASE i # 1
      <4>1. PICK k \in 1 .. Len(t) : i = k + 1 /\ ~(i <= 1) /\ i - 1 = k
        <5>1. i - 1 \in 1 .. Len(t) /\ i = i - 1 + 1 /\ ~(i <= 1)
          BY <1>2, <2>1, <3>2
        <5> QED
          BY <5>1
      <4> QED
        BY <1>2, <2>1, <2>2, <2>3, <4>1
    <3> QED
      BY <3>1, <3>2
  <2>5. w = q
    BY <2>3, <2>4, SeqEqual
  <2> QED
    BY <2>2, <2>5
<1>5. Append(a, h) = a \o hs
  BY <1>3, AppendIsConcat
<1>6. (a \o hs) \o t = a \o (hs \o t)
  BY <1>3, ConcatAssociative
<1> QED
  BY <1>1, <1>2, <1>4, <1>5, <1>6, Zenon

-----------------------------------------------------------------------------
(* Every accepted block is in a finished segment, in the open one or in    *)
(* the ring, in the order in which it came.                                *)

\* The blocks that the segments hold, and those that none holds yet.
Stored == IF sink.open THEN Cat(SessionFiles, sink.seg) \o sink.data
          ELSE Cat(SessionFiles, sink.seg + 1)
Unwritten == IF wr.pc = "consume" THEN Tail(ring.q) ELSE ring.q

\* The session's segments are numbered, the open one last, and no segment of
\* a later session is on the card; all but the last are finished, and a session
\* that failed has not published the last.
FilesInv ==
  /\ sink.sess = sess
  /\ \A f \in card : f.id[1] <= boot /\ (f.id[1] = boot => f.id[2] <= sess)
  /\ state = "BOOT" => SessionFiles = {}
  /\ \A f \in SessionFiles :
       /\ f.id[3] <= sink.seg /\ (sink.open => f.id[3] < sink.seg)
       /\ f.id[3] < sink.seg => f.kind = "wav"
  /\ err /\ ~sink.open => \A f \in SessionFiles : f.id[3] = sink.seg => f.kind = "part"

\* No segment mixes two rates.
OneRate(data, r) == \A i \in 1 .. Len(data) : data[i].rate = r
RateInv ==
  /\ \A f \in card : OneRate(f.data, f.rate)
  /\ sink.open => OneRate(sink.data, sink.rate)

\* The writer works on an open segment until a fault, and leaves without one
\* only when the producers are out and the ring is empty.
PhaseInv ==
  /\ state = "ERROR" => err
  /\ state \in {"BOOT", "STOPPED"} => slots = 0
  /\ state = "STOPPING" => Shut
  /\ wr.pc # "none" => state \in {"RECORDING", "STOPPING", "ERROR"}
  /\ wr.pc # "none" /\ wr.st = "STOPPING" => Shut
  /\ wr.pc \in {"look", "peek", "write", "consume"} => sink.open /\ ~err
  /\ wr.pc = "exit" /\ ~err => sink.open /\ ring.q = <<>> /\ Shut
  /\ writer /\ exited /\ ~err => ring.q = <<>> /\ Shut

\* What each step of start() and stop() knows of the recording.
Learns(c) ==
  /\ op[c].pc = "bind" => sink.open /\ sink.seg = 0 /\ sink.data = <<>> /\ SessionFiles = {}
  /\ op[c].pc \in {"run", "create"} => sink.open /\ ~err
  /\ op[c].pc = "active" => state \in {"RECORDING", "ERROR"} /\ writer /\ (err \/ sink.open)
  /\ op[c].pc \in {"quiet", "join", "close", "release"} =>
       state \in {"RECORDING", "STOPPING", "ERROR"}
  /\ op[c].pc \in {"quiet", "join"} => err \/ (writer /\ sink.open)
  /\ op[c].pc = "close" => err \/ (sink.open /\ ring.q = <<>>)
  /\ op[c].pc = "release" /\ ~err => ring.q = <<>> /\ \A f \in SessionFiles : f.kind = "wav"
LearnInv == \A c \in Callers : Learns(c)

\* Between two calls the recorder rests, records or has failed.
IdleInv ==
  (\A c \in Callers : op[c].pc = "idle") =>
     /\ state \in {"BOOT", "STOPPED", "RECORDING", "ERROR"}
     /\ state = "RECORDING" => writer /\ (err \/ sink.open)

\* From the ring's binding to the end of the session nothing is lost, whatever
\* fails.
InSession == state \in {"RECORDING", "STOPPING", "ERROR"} \/ \E c \in Callers : op[c].pc = "run"
InOrder == taken = Stored \o Unwritten
DataInv == InSession => InOrder

TruthInv == FilesInv /\ RateInv /\ PhaseInv /\ LearnInv /\ IdleInv /\ DataInv

\* The stored blocks are a sequence of blocks.
LEMMA StoredType ==
  ASSUME SinkType, CardType
  PROVE  /\ Stored \in Seq(Block) /\ Cat(SessionFiles, sink.seg) \in Seq(Block)
         /\ sink.data \in Seq(Block) /\ sink.seg \in Nat /\ SessionFiles \in SUBSET File
<1>1. /\ sink.data \in Seq(Block) /\ sink.seg \in Nat /\ sink.seg + 1 \in Nat
      /\ SessionFiles \in SUBSET File
  BY DEF SinkType, SinkRec, SessionFiles, CardType
<1>2. Cat(SessionFiles, sink.seg) \in Seq(Block) /\ Cat(SessionFiles, sink.seg + 1) \in Seq(Block)
  BY <1>1, CatNext
<1> QED
  BY <1>1, <1>2, ConcatProperties DEF Stored

\* A step that leaves the session's segments and their numbers alone.
LEMMA SameFiles ==
  ASSUME FilesInv, RateInv, UNCHANGED <<card, boot, sess>>,
         sink'.open = sink.open, sink'.sess = sink.sess, sink'.seg = sink.seg,
         sink'.rate = sink.rate, sink'.data = sink.data,
         state' = "BOOT" => state = "BOOT", err' /\ ~sink'.open => err
  PROVE  FilesInv' /\ RateInv'
<1>1. SessionFiles' = SessionFiles
  BY DEF SessionFiles
<1>2. FilesInv'
  BY <1>1 DEF FilesInv
<1>3. RateInv'
  BY DEF RateInv
<1> QED
  BY <1>2, <1>3

\* What is stored does not depend on the sink's other fields.
LEMMA SameOrder ==
  ASSUME UNCHANGED <<card, boot, sess>>, sink'.open = sink.open, sink'.seg = sink.seg,
         sink'.data = sink.data
  PROVE  Stored' = Stored /\ (taken' = taken /\ Unwritten' = Unwritten /\ InOrder => InOrder')
<1>1. SessionFiles' = SessionFiles
  BY DEF SessionFiles
<1>2. Stored' = Stored
  BY <1>1 DEF Stored
<1> QED
  BY <1>2 DEF InOrder

\* The segment that a close puts on the card is the session's next one.
LEMMA ClosedSession ==
  ASSUME SinkType, CardType, FilesInv, RateInv, sink.open, NEW p \in BOOLEAN, NEW ok \in BOOLEAN,
         card' = Closed(sink, p, ok), UNCHANGED <<boot, sess>>
  PROVE  \E f \in File : /\ f.id = <<boot, sess, sink.seg>> /\ f.data = sink.data
                         /\ f.kind = IF p /\ ok THEN "wav" ELSE "part"
                         /\ OneRate(f.data, f.rate)
                         /\ card' = card \cup {f}
                         /\ SessionFiles' = SessionFiles \cup {f}
<1> DEFINE k == IF p /\ ok THEN "wav" ELSE "part"
           f == Segment(sink, k, sink.data)
<1>1. k \in {"part", "wav"} /\ sink \in SinkRec /\ sink.data \in Seq(Block)
  BY DEF SinkType, SinkRec
<1>2. f \in File
  BY <1>1, SegmentIsFile
<1>3. f.id = <<boot, sess, sink.seg>> /\ f.data = sink.data /\ f.kind = k
      /\ OneRate(f.data, f.rate)
  BY DEF Segment, Id, FilesInv, RateInv
<1>4. card' = card \cup {f}
  BY DEF Closed
<1> HIDE DEF f, k
<1>5. f.id[1] = boot /\ f.id[2] = sess
  BY <1>3
<1>6. SessionFiles' = SessionFiles \cup {f}
  BY <1>4, <1>5 DEF SessionFiles
<1> QED
  BY <1>2, <1>3, <1>4, <1>6 DEF k

\* A closed segment holds what the open one held.
LEMMA ClosedStored ==
  ASSUME SinkType, CardType, FilesInv, RateInv, sink.open, NEW p \in BOOLEAN, NEW ok \in BOOLEAN,
         card' = Closed(sink, p, ok), UNCHANGED <<boot, sess>>
  PROVE  Cat(SessionFiles', sink.seg + 1) = Stored
<1>1. PICK f \in File : /\ f.id = <<boot, sess, sink.seg>> /\ f.data = sink.data
                        /\ SessionFiles' = SessionFiles \cup {f}
  BY ClosedSession
<1>2. f.id[3] = sink.seg /\ \A g \in SessionFiles : g.id[3] < sink.seg
  BY <1>1 DEF FilesInv
<1>3. SessionFiles \in SUBSET File /\ sink.seg \in Nat
  BY StoredType
<1>4. Cat(SessionFiles \cup {f}, sink.seg + 1) = Cat(SessionFiles, sink.seg) \o f.data
  BY <1>2, <1>3, CatGrows
<1> QED
  BY <1>1, <1>4 DEF Stored

\* Closing the open segment, or going on to the next one.
LEMMA ClosingFiles ==
  ASSUME SinkType, CardType, FilesInv, RateInv, sink.open, NEW p \in BOOLEAN, NEW ok \in BOOLEAN,
         card' = Closed(sink, p, ok), UNCHANGED <<boot, sess>>, state' # "BOOT",
         sink'.sess = sink.sess, sink'.open => OneRate(sink'.data, sink'.rate),
         \/ sink'.seg = sink.seg + 1 /\ p /\ ok
         \/ sink'.seg = sink.seg /\ ~sink'.open /\ (err' => ~(p /\ ok))
  PROVE  FilesInv' /\ RateInv'
<1>1. PICK f \in File : /\ f.id = <<boot, sess, sink.seg>> /\ f.data = sink.data
                        /\ f.kind = IF p /\ ok THEN "wav" ELSE "part"
                        /\ OneRate(f.data, f.rate)
                        /\ card' = card \cup {f}
                        /\ SessionFiles' = SessionFiles \cup {f}
  BY ClosedSession
<1>2. f.id[1] = boot /\ f.id[2] = sess /\ f.id[3] = sink.seg
  BY <1>1
<1>3. boot \in Nat /\ sess \in Nat /\ sink.seg \in Nat
  BY DEF CardType, SinkType, SinkRec
<1>4. \A g \in SessionFiles : g.id[3] < sink.seg /\ g.id[3] \in Nat /\ g.kind = "wav"
  BY DEF FilesInv, SessionFiles, CardType, File
<1>5. \A g \in card' : g.id[1] <= boot /\ (g.id[1] = boot => g.id[2] <= sess)
  BY <1>1, <1>2, <1>3 DEF FilesInv
<1>6. \A g \in SessionFiles' : g.id[3] <= sink.seg /\ (g.id[3] = sink.seg => g = f)
                              /\ (g.kind = "wav" \/ g = f)
  BY <1>1, <1>2, <1>3, <1>4
<1>7. /\ \A g \in SessionFiles' : /\ g.id[3] <= sink'.seg /\ (sink'.open => g.id[3] < sink'.seg)
                                  /\ g.id[3] < sink'.seg => g.kind = "wav"
      /\ err' /\ ~sink'.open => \A g \in SessionFiles' : g.id[3] = sink'.seg => g.kind = "part"
  <2>1. \A g \in SessionFiles' : g.id[3] \in Nat
    BY <1>1, <1>2, <1>3, <1>4
  <2>2. CASE sink'.seg = sink.seg + 1 /\ p /\ ok
    BY <1>1, <1>3, <1>6, <2>1, <2>2
  <2>3. CASE sink'.seg = sink.seg /\ ~sink'.open /\ (err' => ~(p /\ ok))
    BY <1>1, <1>2, <1>6, <2>1, <2>3
  <2> QED
    BY <2>2, <2>3
<1>8. FilesInv'
  <2>1. sink'.sess = sess' /\ boot' = boot
    BY DEF FilesInv
  <2>2. \A g \in card' : g.id[1] <= boot' /\ (g.id[1] = boot' => g.id[2] <= sess')
    BY <1>5
  <2>3. state' = "BOOT" => SessionFiles' = {}
    OBVIOUS
  <2> QED
    BY <1>7, <2>1, <2>2, <2>3, Zenon DEF FilesInv
<1>9. RateInv'
  BY <1>1 DEF RateInv
<1> QED
  BY <1>8, <1>9

\* A step that moves a producer, with the ring and the gate's state as before.
LEMMA StillTruth ==
  ASSUME TruthInv, Shut => Shut',
         UNCHANGED <<state, slots, ring, wr, writer, exited, err, sink, card, op, boot, sess,
                     taken>>
  PROVE  TruthInv'
<1>1. FilesInv' /\ RateInv'
  BY SameFiles DEF TruthInv
<1>2. PhaseInv'
  BY DEF TruthInv, PhaseInv
<1>3. Unwritten' = Unwritten
  BY DEF Unwritten
<1>4. SessionFiles' = SessionFiles
  BY DEF SessionFiles
<1>5. LearnInv'
  BY <1>4 DEF TruthInv, LearnInv, Learns
<1>6. IdleInv'
  BY DEF TruthInv, IdleInv
<1>7. DataInv'
  BY <1>3, SameOrder DEF TruthInv, DataInv, InSession
<1> QED
  BY <1>1, <1>2, <1>5, <1>6, <1>7 DEF TruthInv

\* The recorder starts with an empty card.
LEMMA InitTruth == Init => TruthInv
<1> SUFFICES ASSUME Init PROVE TruthInv
  OBVIOUS
<1>1. SessionFiles = {} /\ \A c \in Callers : op[c].pc = "idle"
  BY DEF Init, SessionFiles
<1>2. FilesInv /\ RateInv
  BY <1>1 DEF Init, FilesInv, RateInv, NoSink
<1>3. PhaseInv
  BY DEF Init, PhaseInv
<1>4. LearnInv /\ IdleInv
  BY <1>1 DEF Init, LearnInv, Learns, IdleInv
<1>5. DataInv
  BY <1>1 DEF Init, DataInv, InSession
<1> QED
  BY <1>2, <1>3, <1>4, <1>5 DEF TruthInv

-----------------------------------------------------------------------------
(* Power, card and producer.                                               *)

\* At boot nothing of the session that is about to begin is on the card.
LEMMA RecoverTruth == ASSUME IInv, TruthInv, Recover PROVE TruthInv'
<1> USE DEF Recover, ctlVars
<1>1. PICK f \in card : card' = RecoverOne(f)
  BY DEF Parts
<1>2. \A g \in card' : \E e \in card : e.id = g.id /\ e.rate = g.rate /\ e.data = g.data
  <2>1. f \in File
    BY <1>1 DEF IInv, Types, CardType
  <2> DEFINE h == [f EXCEPT !.kind = "recovered"]
  <2>2. h.id = f.id /\ h.rate = f.rate /\ h.data = f.data
    BY <2>1 DEF File
  <2>3. \A g \in card' : g \in card \/ g = h
    BY <1>1 DEF RecoverOne
  <2> HIDE DEF h
  <2> QED
    BY <1>1, <2>2, <2>3
<1>3. SessionFiles' = {}
  BY <1>2 DEF TruthInv, FilesInv, SessionFiles
<1>4. ~sink.open /\ \A c \in Callers : op[c].pc = "idle"
  BY DEF IInv, AtRest
<1>5. FilesInv'
  BY <1>2, <1>3 DEF TruthInv, FilesInv
<1>6. RateInv'
  BY <1>2, <1>4 DEF TruthInv, RateInv
<1>7. PhaseInv'
  BY DEF TruthInv, PhaseInv, Shut
<1>8. LearnInv' /\ IdleInv' /\ DataInv'
  BY <1>4 DEF TruthInv, LearnInv, Learns, IdleInv, DataInv, InSession
<1> QED
  BY <1>5, <1>6, <1>7, <1>8 DEF TruthInv

\* The recorder becomes ready.
LEMMA InitDoneTruth == ASSUME IInv, TruthInv, InitDone PROVE TruthInv'
<1> USE DEF InitDone, ctlVars
<1>1. ~sink.open /\ Shut /\ wr.pc = "none" /\ ~writer /\ \A c \in Callers : op[c].pc = "idle"
  BY DEF IInv, AtRest, NoWriter
<1>2. FilesInv' /\ RateInv'
  BY SameFiles DEF TruthInv
<1>3. PhaseInv'
  BY <1>1 DEF TruthInv, PhaseInv
<1>4. LearnInv' /\ IdleInv' /\ DataInv'
  BY <1>1 DEF LearnInv, Learns, IdleInv, DataInv, InSession
<1> QED
  BY <1>2, <1>3, <1>4 DEF TruthInv

\* After a power failure the sessions on the card are those of earlier boots.
LEMMA CrashTruth == ASSUME IInv, TruthInv, Crash PROVE TruthInv'
<1> USE DEF Crash, Powered
<1>1. PICK n \in sink.synced .. Len(sink.data) :
         card' = IF sink.open THEN card \cup {Segment(sink, "part", SubSeq(sink.data, 1, n))}
                 ELSE card
  OBVIOUS
<1>2. boot \in Nat
  BY DEF IInv, Types, CardType
<1>3. \A g \in card' : g.id[1] <= boot
  <2>1. Segment(sink, "part", SubSeq(sink.data, 1, n)).id[1] = boot
    BY DEF Segment, Id
  <2> QED
    BY <1>1, <1>2, <2>1 DEF TruthInv, FilesInv
<1>4. \A g \in card' : g.id[1] \in Nat
  <2>1. card' \subseteq File
    BY CrashKeeps DEF IInv, Types, CardType
  <2> QED
    BY <2>1 DEF File
<1>5. \A g \in card' : g.id[1] <= boot' /\ g.id[1] # boot'
  BY <1>2, <1>3, <1>4
<1>6. SessionFiles' = {}
  BY <1>5 DEF SessionFiles
<1>7. FilesInv' /\ RateInv'
  <2>1. FilesInv'
    BY <1>5, <1>6 DEF FilesInv, NoSink
  <2> DEFINE f == Segment(sink, "part", SubSeq(sink.data, 1, n))
  <2>2. sink.open => OneRate(f.data, f.rate)
    BY <1>1 DEF Segment, OneRate, TruthInv, RateInv, IInv, Types, SinkType, SinkRec
  <2>3. \A g \in card' : g \in card \/ (sink.open /\ g = f)
    BY <1>1
  <2> HIDE DEF f
  <2>4. \A g \in card' : OneRate(g.data, g.rate)
    BY <2>2, <2>3 DEF TruthInv, RateInv
  <2> QED
    BY <2>1, <2>4 DEF RateInv, NoSink
<1>8. PhaseInv'
  BY DEF PhaseInv
<1>9. \A c \in Callers : op'[c].pc = "idle"
  OBVIOUS
<1>10. LearnInv' /\ IdleInv' /\ DataInv'
  BY <1>9 DEF LearnInv, Learns, IdleInv, DataInv, InSession, NoSink
<1> QED
  BY <1>7, <1>8, <1>10 DEF TruthInv

\* A producer looks at the gate.
LEMMA PushTruth == ASSUME TruthInv, NEW r \in Rates, Push(r) PROVE TruthInv'
<1>1. Shut => Shut'
  BY DEF Push, Shut
<1> QED
  BY <1>1, StillTruth DEF Push, prodFrame, ctlVars

\* It is counted, looks again, and is counted out.
LEMMA GateTruth ==
  ASSUME IInv, TruthInv, PushEnter \/ PushRecheck \/ PushLeave
  PROVE  TruthInv'
<1>1. prod \in [pc : ProdPcs, rate : AnyRate] /\ gate \in [acc : BOOLEAN, act : Nat]
  BY DEF IInv, Types, ProdType
<1>2. CASE PushEnter
  <2>1. Shut => Shut'
    BY <1>1, <1>2 DEF PushEnter, At, Shut
  <2> QED
    BY <1>2, <2>1, StillTruth DEF PushEnter, prodFrame, ctlVars
<1>3. CASE PushRecheck
  <2>1. Shut => Shut'
    BY <1>1, <1>3 DEF PushRecheck, At, Shut
  <2> QED
    BY <1>3, <2>1, StillTruth DEF PushRecheck, prodFrame, ctlVars
<1>4. CASE PushLeave
  <2>1. Shut => Shut'
    BY <1>1, <1>4 DEF PushLeave, At, Shut
  <2> QED
    BY <1>4, <2>1, StillTruth DEF PushLeave, prodFrame, ctlVars
<1> QED
  BY <1>2, <1>3, <1>4

\* The block that goes into the ring is the last one accepted.
LEMMA PushRingTruth == ASSUME IInv, TruthInv, PushRing PROVE TruthInv'
<1> USE DEF PushRing, prodFrame, ctlVars
<1>1. CASE ~(Len(ring.q) < Capacity)
  <2>1. Shut => Shut'
    BY DEF Shut
  <2> QED
    BY <1>1, <2>1, StillTruth
<1>2. CASE Len(ring.q) < Capacity
  <2> DEFINE x == [b |-> nblk + 1, rate |-> prod.rate]
  <2>1. /\ x \in Block /\ ring.q \in Seq(Block)
        /\ ring' = [ring EXCEPT !.q = Append(@, x)] /\ taken' = Append(taken, x)
        /\ ring \in [slots : Nat, q : Seq(Block)]
    BY <1>2 DEF IInv, Types, MemType, ProdType, Block
  <2> HIDE DEF x
  <2>2. ring'.q = Append(ring.q, x)
    BY <2>1
  <2>3. ~Shut
    BY DEF Shut
  <2>4. \A c \in Callers : op[c].pc \in {"idle", "run", "create", "active", "quiet"}
    BY <2>3 DEF IInv, Types, CallType, CallPcs, Calls, Knows
  <2>5. FilesInv' /\ RateInv'
    BY SameFiles DEF TruthInv
  <2>6. PhaseInv'
    BY <2>3 DEF TruthInv, PhaseInv
  <2>7. LearnInv'
    BY <2>4 DEF TruthInv, LearnInv, Learns
  <2>8. IdleInv'
    BY DEF TruthInv, IdleInv
  <2>9. Unwritten \in Seq(Block) /\ Unwritten' = Append(Unwritten, x)
    <3>1. CASE wr.pc = "consume"
      <4>1. ring.q # <<>>
        BY <3>1 DEF IInv, Users
      <4>2. Tail(Append(ring.q, x)) = Append(Tail(ring.q), x) /\ Tail(ring.q) \in Seq(Block)
        BY <2>1, <4>1, HeadTailAppend, HeadTailProperties
      <4> QED
        BY <2>2, <3>1, <4>2 DEF Unwritten
    <3>2. CASE wr.pc # "consume"
      BY <2>1, <2>2, <3>2 DEF Unwritten
    <3> QED
      BY <3>1, <3>2
  <2>10. DataInv'
    <3> SUFFICES ASSUME InSession' PROVE InOrder'
      BY DEF DataInv
    <3>1. InOrder
      BY DEF InSession, TruthInv, DataInv
    <3>2. Stored' = Stored /\ Stored \in Seq(Block)
      BY SameOrder, StoredType DEF IInv, Types
    <3>3. Append(Stored \o Unwritten, x) = Stored \o Append(Unwritten, x)
      BY <2>1, <2>9, <3>2, AppendConcat
    <3> QED
      BY <2>1, <2>9, <3>1, <3>2, <3>3 DEF InOrder
  <2> QED
    BY <2>5, <2>6, <2>7, <2>8, <2>10 DEF TruthInv
<1> QED
  BY <1>1, <1>2

-----------------------------------------------------------------------------
(* The writer.                                                             *)

\* A step of the writer that keeps the order and the calls, and that leaves
\* the loop only through a fault or with the ring empty.
LEMMA WriterTruth ==
  ASSUME IInv, TruthInv, wr.pc # "none", FilesInv', RateInv', DataInv', Shut => Shut',
         UNCHANGED <<slots, writer, op, exited>>,
         err => err', state' = state \/ (err' /\ state' = "ERROR"), sink'.open \/ err',
         wr'.pc \in {"look", "peek", "write", "consume"} => ~err',
         wr'.pc = "exit" /\ ~err' => ring'.q = <<>> /\ Shut',
         wr'.st = "STOPPING" => Shut'
  PROVE  TruthInv'
<1>1. /\ state \notin {"BOOT", "STOPPED"} /\ writer /\ ~exited
      /\ \A c \in Callers : op[c].pc \in {"idle", "active", "quiet", "join"}
  BY WriterRuns
<1>2. PhaseInv'
  BY <1>1 DEF TruthInv, PhaseInv
<1>3. LearnInv'
  BY <1>1 DEF TruthInv, LearnInv, Learns
<1>4. IdleInv'
  BY <1>1 DEF TruthInv, IdleInv
<1> QED
  BY <1>2, <1>3, <1>4 DEF TruthInv

\* The top of the loop.
LEMMA WriterLookTruth == ASSUME IInv, TruthInv, WriterLook PROVE TruthInv'
<1> USE DEF WriterLook, wrFrame, ctlVars, prodVars
<1>1. sink.open /\ ~err /\ state \in {"RECORDING", "STOPPING"} /\ (state = "STOPPING" => Shut)
  BY DEF TruthInv, PhaseInv
<1>2. wr'.pc = "peek" /\ wr'.st = state /\ wr.pc # "none"
  BY <1>1
<1>3. FilesInv' /\ RateInv' /\ (Shut => Shut')
  BY SameFiles DEF TruthInv, Shut
<1>4. DataInv'
  <2>1. Unwritten' = Unwritten
    BY <1>2 DEF Unwritten
  <2> QED
    BY <2>1, SameOrder DEF TruthInv, DataInv, InSession
<1>5. ~err' /\ sink'.open /\ (wr'.st = "STOPPING" => Shut')
  BY <1>1, <1>2, <1>3
<1> QED
  BY <1>1, <1>2, <1>3, <1>4, <1>5, WriterTruth

\* The writer looks for a block.
LEMMA WriterPeekTruth == ASSUME IInv, TruthInv, WriterPeek PROVE TruthInv'
<1> USE DEF WriterPeek, wrFrame, ctlVars, prodVars
<1>1. sink.open /\ ~err /\ (wr.st = "STOPPING" => Shut)
  BY DEF TruthInv, PhaseInv
<1>2. /\ wr'.pc \in {"write", "exit", "look"} /\ wr'.st = wr.st /\ wr.pc # "none"
      /\ wr'.pc = "exit" => ring.q = <<>> /\ wr.st = "STOPPING"
  BY DEF IInv, Types, WrType
<1>3. FilesInv' /\ RateInv' /\ (Shut => Shut')
  BY SameFiles DEF TruthInv, Shut
<1>4. DataInv'
  <2>1. Unwritten' = Unwritten
    BY <1>2 DEF Unwritten
  <2> QED
    BY <2>1, SameOrder DEF TruthInv, DataInv, InSession
<1>5. /\ ~err' /\ sink'.open /\ (wr'.st = "STOPPING" => Shut')
      /\ wr'.pc = "exit" => ring'.q = <<>> /\ Shut'
  BY <1>1, <1>2, <1>3
<1> QED
  BY <1>1, <1>2, <1>3, <1>4, <1>5, WriterTruth

\* A fault: the session has failed, and the segments are as they should be.
LEMMA WriterFaultTruth ==
  ASSUME IInv, TruthInv, wr.pc # "none", WriterFault, FilesInv', RateInv', InOrder => InOrder',
         wrFrame, exited' = exited
  PROVE  TruthInv'
<1> USE DEF WriterFault, wrFrame, ctlVars, prodVars
<1>1. wr'.pc = "exit" /\ wr'.st = wr.st /\ ~gate'.acc
  BY DEF IInv, Types, WrType, ProdType
<1>2. Shut => Shut'
  BY <1>1 DEF Shut
<1>3. wr'.st = "STOPPING" => Shut'
  BY <1>1, <1>2 DEF TruthInv, PhaseInv
<1>4. DataInv'
  <2>1. InSession
    BY DEF TruthInv, PhaseInv, InSession
  <2> QED
    BY <2>1 DEF TruthInv, DataInv
<1> QED
  BY <1>1, <1>2, <1>3, <1>4, WriterTruth

\* A segment that is not opened adds no block.
LEMMA NotOpenedStored ==
  ASSUME NEW f \in File, NEW n \in Nat, NEW fs \in SUBSET File, \A g \in fs : g.id[3] < n,
         f.id[3] = n, f.data = <<>>
  PROVE  Cat(fs, n + 1) = Cat(fs, n) /\ Cat(fs \cup {f}, n + 1) = Cat(fs, n)
<1>1. Cat(fs, n) \in Seq(Block) /\ Cat(fs, n + 1) = Cat(fs, n) \o DataOf(fs, n)
  BY CatNext
<1>2. DataOf(fs, n) = <<>>
  <2>1. \A g \in fs : g.id[3] # n
    BY DEF File
  <2>2. {g \in fs : g.id[3] = n} = {}
    BY <2>1
  <2> QED
    BY <2>2, Zenon DEF DataOf, DataIn
<1>3. Cat(fs, n) \o <<>> = Cat(fs, n)
  BY <1>1, ConcatEmptySeq
<1>4. Cat(fs \cup {f}, n + 1) = Cat(fs, n) \o f.data
  BY CatGrows
<1> QED
  BY <1>1, <1>2, <1>3, <1>4

\* The files of the session when the next segment cannot be opened.
LEMMA OpenFailsFiles ==
  ASSUME IInv, TruthInv, sink.open, NEW blk \in Block, NEW next \in SinkRec,
         next = [sink EXCEPT !.seg = @ + 1], OpenFails(blk, next), UNCHANGED <<boot, sess>>
  PROVE  FilesInv' /\ RateInv' /\ Stored' = Stored
<1>1. /\ SinkType /\ CardType /\ FilesInv /\ RateInv /\ sink \in SinkRec /\ sink.seg \in Nat
      /\ boot \in Nat /\ sess \in Nat /\ blk.rate \in AnyRate
  BY DEF IInv, Types, SinkType, SinkRec, CardType, TruthInv, Block
<1>2. next.sess = sess /\ next.seg = sink.seg + 1
  BY <1>1 DEF SinkRec, FilesInv
<1>3. /\ ~sink'.open /\ sink'.sess = sess /\ sink'.seg = sink.seg + 1
      /\ state' = "ERROR" /\ card' \in NotOpened(next, blk.rate, Closed(sink, TRUE, TRUE))
  BY <1>2 DEF OpenFails, WriterFault, SinkRec
<1>4. PICK f \in File : /\ f.id = <<boot, sess, sink.seg>> /\ f.kind = "wav" /\ f.data = sink.data
                        /\ OneRate(f.data, f.rate) /\ Closed(sink, TRUE, TRUE) = card \cup {f}
  <2> DEFINE g == Segment(sink, "wav", sink.data)
  <2>1. g \in File /\ g.data = sink.data
    BY <1>1, SegmentIsFile DEF SinkRec
  <2>2. g.id = <<boot, sess, sink.seg>> /\ g.kind = "wav" /\ OneRate(g.data, g.rate)
    BY <1>1 DEF Segment, Id, FilesInv, RateInv
  <2>3. Closed(sink, TRUE, TRUE) = card \cup {g}
    BY DEF Closed
  <2> HIDE DEF g
  <2> QED
    BY <2>1, <2>2, <2>3
<1>5. PICK e \in File : /\ e.id = <<boot, sess, sink.seg + 1>> /\ e.kind = "part" /\ e.data = <<>>
                        /\ OneRate(e.data, e.rate)
                        /\ (card' = card \cup {f} \/ card' = (card \cup {f}) \cup {e})
  <2>0. /\ Opened(next, blk.rate) \in SinkRec /\ Opened(next, blk.rate).sess = next.sess
        /\ Opened(next, blk.rate).seg = next.seg
    BY <1>1, OpenedType
  <2>1. PICK o \in SinkRec : /\ o = Opened(next, blk.rate) /\ o.sess = sess
                             /\ o.seg = sink.seg + 1
    BY <1>2, <2>0
  <2>2. <<>> \in Seq(Block) /\ Len(<<>>) = 0
    OBVIOUS
  <2> DEFINE g == Segment(o, "part", <<>>)
  <2>3. g \in File /\ g.data = <<>>
    BY <1>1, <2>2, SegmentIsFile
  <2>4. g.id = <<boot, sess, sink.seg + 1>> /\ g.kind = "part"
    BY <2>1 DEF Segment, Id
  <2>5. OneRate(<<>>, g.rate)
    BY DEF OneRate
  <2>6. card' = card \cup {f} \/ card' = (card \cup {f}) \cup {g}
    BY <1>3, <1>4, <2>1 DEF NotOpened
  <2> HIDE DEF g
  <2> QED
    BY <2>3, <2>4, <2>5, <2>6
<1>6. /\ f.id[1] = boot /\ f.id[2] = sess /\ f.id[3] = sink.seg
      /\ e.id[1] = boot /\ e.id[2] = sess /\ e.id[3] = sink.seg + 1
  BY <1>4, <1>5
<1> DEFINE fs == SessionFiles \cup {f}
<1>7. SessionFiles' = fs \/ SessionFiles' = fs \cup {e}
  BY <1>5, <1>6 DEF SessionFiles
<1>8. fs \in SUBSET File /\ SessionFiles \in SUBSET File
  BY <1>1, StoredType
<1>9. /\ \A g \in SessionFiles : g.id[3] < sink.seg /\ g.id[3] \in Nat /\ g.kind = "wav"
      /\ \A g \in fs : g.id[3] < sink.seg + 1 /\ g.id[3] \in Nat /\ g.kind = "wav"
  <2>1. \A g \in SessionFiles : g.id[3] < sink.seg /\ g.id[3] \in Nat /\ g.kind = "wav"
    BY <1>1, <1>8 DEF FilesInv, File
  <2> QED
    BY <1>1, <1>4, <1>6, <2>1
<1>10. FilesInv'
  <2>1. \A g \in card' : g.id[1] <= boot' /\ (g.id[1] = boot' => g.id[2] <= sess')
    BY <1>1, <1>5, <1>6 DEF FilesInv
  <2>2. \A g \in SessionFiles' : /\ g.id[3] <= sink'.seg
                                 /\ g.id[3] < sink'.seg => g.kind = "wav"
                                 /\ g.id[3] = sink'.seg => g.kind = "part"
    BY <1>1, <1>3, <1>5, <1>6, <1>7, <1>9
  <2> QED
    BY <1>3, <2>1, <2>2 DEF FilesInv
<1>11. RateInv'
  BY <1>1, <1>3, <1>4, <1>5 DEF RateInv
<1>12. Stored' = Stored
  <2>1. Cat(fs, sink.seg + 1) = Stored
    <3>1. Cat(fs, sink.seg + 1) = Cat(SessionFiles, sink.seg) \o f.data
      BY <1>1, <1>6, <1>8, <1>9, CatGrows
    <3> QED
      BY <1>4, <3>1 DEF Stored
  <2>2. Cat(fs, sink.seg + 1 + 1) = Cat(fs, sink.seg + 1)
        /\ Cat(fs \cup {e}, sink.seg + 1 + 1) = Cat(fs, sink.seg + 1)
    <3> HIDE DEF fs
    <3>1. PICK n \in Nat : n = sink.seg + 1
      BY <1>1
    <3>2. (\A g \in fs : g.id[3] < n) /\ e.id[3] = n /\ e.data = <<>>
      BY <1>5, <1>6, <1>9, <3>1
    <3>3. Cat(fs, n + 1) = Cat(fs, n) /\ Cat(fs \cup {e}, n + 1) = Cat(fs, n)
      BY <1>8, <3>2, NotOpenedStored
    <3> QED
      BY <3>1, <3>3
  <2> HIDE DEF fs
  <2>3. Stored' = Cat(SessionFiles', sink.seg + 1 + 1)
    BY <1>3 DEF Stored
  <2> QED
    BY <1>7, <2>1, <2>2, <2>3
<1> QED
  BY <1>10, <1>11, <1>12

\* A block goes to the end of the open segment, or of the next one.
LEMMA WriterWriteTruth == ASSUME IInv, TruthInv, WriterWrite PROVE TruthInv'
<1> USE DEF wrFrame, ctlVars, prodVars
<1>0. wr.pc = "write" /\ wrFrame /\ UNCHANGED <<ring, exited>>
  BY DEF WriterWrite
<1>1. /\ sink.open /\ ~err /\ wr.pc # "none" /\ state \notin {"BOOT", "STOPPED"}
      /\ SinkType /\ CardType /\ FilesInv /\ RateInv /\ ring.q # <<>> /\ ring.q \in Seq(Block)
      /\ wr.st = "STOPPING" => Shut
      /\ sink \in SinkRec /\ sink.synced <= Len(sink.data) /\ sink.sess = sess
  BY <1>0, WriterRuns DEF TruthInv, FilesInv, PhaseInv, IInv, Types, SinkType, Users, MemType
<1>2. PICK blk \in Block : blk = Head(ring.q)
  BY <1>0, WriteTypes
<1>3. PICK next \in SinkRec : next = [sink EXCEPT !.seg = @ + 1]
  BY <1>0, WriteTypes
<1>4. blk.rate \in AnyRate /\ next.sess = sink.sess /\ next.seg = sink.seg + 1
  BY <1>1, <1>3 DEF Block, SinkRec
<1>5. PICK first \in SinkRec :
         /\ first = Opened(next, blk.rate) /\ first.synced <= Len(first.data) /\ first.open
         /\ first.sess = sink.sess /\ first.seg = sink.seg + 1 /\ first.rate = blk.rate
         /\ first.data = <<>>
  BY <1>4, OpenedType
<1>6. /\ Stored \in Seq(Block) /\ sink.data \in Seq(Block)
      /\ Cat(SessionFiles, sink.seg) \in Seq(Block)
  BY <1>1, StoredType
<1>7. InOrder /\ Unwritten = ring.q
  BY <1>0 DEF TruthInv, PhaseInv, DataInv, InSession, Unwritten
\* The segment goes on, or is published and the next one opened.
<1> DEFINE Goes(s, cards) ==
             \/ ~Rolls(blk) /\ s = sink /\ cards = card
             \/ s = first /\ cards = Closed(sink, TRUE, TRUE)
<1>8. ASSUME NEW s \in SinkRec, NEW cards, Goes(s, cards), card' = cards,
             sink'.open, sink'.sess = s.sess, sink'.seg = s.seg, sink'.rate = s.rate,
             OneRate(sink'.data, s.rate), state' # "BOOT"
      PROVE  /\ FilesInv' /\ RateInv'
             /\ \E a \in Seq(Block) : Stored = a \o s.data /\ Stored' = a \o sink'.data
  <2>1. CASE ~Rolls(blk) /\ s = sink /\ cards = card
    <3>1. SessionFiles' = SessionFiles /\ card' = card
      BY <1>0, <1>8, <2>1 DEF SessionFiles
    <3>2. FilesInv' /\ RateInv'
      BY <1>0, <1>1, <1>8, <2>1, <3>1 DEF FilesInv, RateInv
    <3>3. Stored = Cat(SessionFiles, sink.seg) \o s.data /\ Stored' = Cat(SessionFiles, sink.seg) \o sink'.data
      BY <1>1, <1>8, <2>1, <3>1 DEF Stored
    <3> QED
      BY <1>6, <3>2, <3>3
  <2>2. CASE s = first /\ cards = Closed(sink, TRUE, TRUE)
    <3>1. FilesInv' /\ RateInv'
      BY <1>0, <1>1, <1>5, <1>8, <2>2, ClosingFiles
    <3>2. Cat(SessionFiles', sink.seg + 1) = Stored
      BY <1>0, <1>1, <1>8, <2>2, ClosedStored
    <3>3. Stored' = Stored \o sink'.data
      BY <1>5, <1>8, <2>2, <3>2 DEF Stored
    <3>4. Stored = Stored \o <<>>
      BY <1>6, ConcatEmptySeq
    <3> QED
      BY <1>5, <1>6, <2>2, <3>1, <3>3, <3>4
  <2> QED
    BY <1>8, <2>1, <2>2
<1>9. ASSUME NEW s \in SinkRec, NEW cards, Goes(s, cards)
      PROVE  /\ s.open /\ s.synced <= Len(s.data) /\ s.rate = blk.rate
             /\ OneRate(s.data, s.rate) /\ OneRate(Append(s.data, blk), s.rate)
  <2>1. /\ s.open /\ s.synced <= Len(s.data) /\ s.rate = blk.rate
        /\ OneRate(s.data, s.rate)
    <3>1. CASE ~Rolls(blk) /\ s = sink /\ cards = card
      BY <1>1, <3>1 DEF RateInv, Rolls
    <3>2. CASE s = first /\ cards = Closed(sink, TRUE, TRUE)
      <4>1. OneRate(<<>>, s.rate)
        BY DEF OneRate
      <4> QED
        BY <1>5, <3>2, <4>1
    <3> QED
      BY <1>9, <3>1, <3>2
  <2>2. PICK data \in Seq(Block) : data = s.data
    BY DEF SinkRec
  <2>3. /\ Len(Append(data, blk)) = Len(data) + 1 /\ Append(data, blk)[Len(data) + 1] = blk
        /\ \A i \in 1 .. Len(data) : Append(data, blk)[i] = data[i]
    BY AppendProperties
  <2>4. OneRate(Append(data, blk), s.rate)
    BY <2>1, <2>2, <2>3 DEF OneRate
  <2> QED
    BY <2>1, <2>2, <2>4
<1>10. ASSUME NEW s \in SinkRec, NEW cards, Goes(s, cards), WriteOk(blk, s, cards)
       PROVE  TruthInv'
  <2>1. /\ s.open /\ s.synced <= Len(s.data)
        /\ OneRate(s.data, s.rate) /\ OneRate(Append(s.data, blk), s.rate)
    BY <1>9, <1>10
  <2>2. /\ sink' = [s EXCEPT !.data = Append(@, blk)] /\ card' = cards
        /\ wr' = [wr EXCEPT !.pc = "consume"] /\ UNCHANGED <<state, gate, err>>
    BY <1>10 DEF WriteOk
  <2>3. /\ sink'.open /\ sink'.sess = s.sess /\ sink'.seg = s.seg /\ sink'.rate = s.rate
        /\ sink'.data = Append(s.data, blk)
    BY <2>1, <2>2, AppendType
  <2>4. wr'.pc = "consume" /\ wr'.st = wr.st
    BY <2>2 DEF IInv, Types, WrType
  <2>5. PICK a \in Seq(Block) : Stored = a \o s.data /\ Stored' = a \o sink'.data
    BY <1>1, <1>8, <1>10, <2>1, <2>2, <2>3
  <2>6. FilesInv' /\ RateInv'
    BY <1>1, <1>8, <1>10, <2>1, <2>2, <2>3
  <2>7. DataInv'
    <3>1. Stored' = Append(Stored, blk)
      <4>1. PICK data \in Seq(Block) : data = s.data
        BY DEF SinkRec
      <4>2. Append(a \o data, blk) = a \o Append(data, blk)
        BY AppendConcat
      <4> QED
        BY <2>3, <2>5, <4>1, <4>2
    <3>2. Unwritten' = Tail(ring.q)
      BY <1>0, <2>4 DEF Unwritten
    <3>3. Append(Stored, blk) \o Tail(ring.q) = Stored \o ring.q
      BY <1>1, <1>2, <1>6, MoveHead
    <3>4. taken' = Stored' \o Unwritten'
      BY <1>0, <1>7, <3>1, <3>2, <3>3 DEF InOrder
    <3> QED
      BY <3>4 DEF DataInv, InOrder
  <2>8. Shut => Shut'
    BY <1>0, <2>2 DEF Shut
  <2>9. ~err' /\ state' = state /\ (wr'.st = "STOPPING" => Shut')
    BY <1>1, <2>2, <2>4, <2>8
  <2>10. UNCHANGED <<slots, writer, op, exited>>
    BY <1>0
  <2> QED
    BY <1>1, <2>3, <2>4, <2>6, <2>7, <2>8, <2>9, <2>10, WriterTruth
<1>11. ASSUME WriterFault, FilesInv', RateInv', Stored' = Stored
       PROVE  TruthInv'
  <2>1. wr'.pc = "exit"
    BY <1>11 DEF WriterFault, IInv, Types, WrType
  <2>2. Unwritten' = Unwritten
    BY <1>0, <2>1 DEF Unwritten
  <2>3. InOrder => InOrder'
    BY <1>0, <1>11, <2>2 DEF InOrder
  <2> QED
    BY <1>0, <1>1, <1>11, <2>3, WriterFaultTruth
<1>12. ASSUME NEW s \in SinkRec, NEW cards, Goes(s, cards), WriteFails(s, cards)
       PROVE  TruthInv'
  <2>1. s.open /\ OneRate(s.data, s.rate)
    BY <1>9, <1>12
  <2>2. WriterFault /\ sink' = s /\ card' = cards /\ state' = "ERROR"
    BY <1>12 DEF WriteFails, WriterFault
  <2>3. FilesInv' /\ RateInv' /\ Stored' = Stored
    BY <1>8, <1>12, <2>1, <2>2
  <2> QED
    BY <1>11, <2>2, <2>3
<1>13. CASE CloseFails
  <2>1. /\ WriterFault /\ card' = Closed(sink, TRUE, FALSE) /\ ~sink'.open /\ sink'.seg = sink.seg
        /\ sink'.sess = sink.sess /\ state' = "ERROR"
    BY <1>1, <1>13 DEF CloseFails, SinkRec, WriterFault
  <2>2. FilesInv' /\ RateInv'
    BY <1>0, <1>1, <2>1, ClosingFiles
  <2>3. Cat(SessionFiles', sink.seg + 1) = Stored
    BY <1>0, <1>1, <2>1, ClosedStored
  <2>4. Stored' = Stored
    BY <2>1, <2>3 DEF Stored
  <2> QED
    BY <1>11, <2>1, <2>2, <2>4
<1>14. CASE OpenFails(blk, next)
  <2>1. FilesInv' /\ RateInv' /\ Stored' = Stored
    BY <1>0, <1>1, <1>3, <1>14, OpenFailsFiles
  <2> QED
    BY <1>11, <1>14, <2>1 DEF OpenFails
<1>15. CASE ~Rolls(blk) /\ (WriteOk(blk, sink, card) \/ WriteFails(sink, card))
  BY <1>1, <1>10, <1>12, <1>15
<1>16. CASE \/ WriteOk(blk, first, Closed(sink, TRUE, TRUE))
            \/ WriteFails(first, Closed(sink, TRUE, TRUE))
  BY <1>10, <1>12, <1>16
<1> HIDE DEF Goes
<1> QED
  BY <1>2, <1>3, <1>5, <1>13, <1>14, <1>15, <1>16, WriteCases

\* A written block leaves the ring.
LEMMA WriterConsumeTruth == ASSUME IInv, TruthInv, WriterConsume PROVE TruthInv'
<1> USE DEF WriterConsume, wrFrame, ctlVars, prodVars
<1>1. /\ sink.open /\ ~err /\ wr.pc = "consume" /\ state \notin {"BOOT", "STOPPED"}
      /\ SinkType /\ FilesInv /\ RateInv /\ (wr.st = "STOPPING" => Shut)
      /\ ring \in [slots : Nat, q : Seq(Block)]
  BY WriterRuns DEF TruthInv, PhaseInv, IInv, Types, MemType
<1>2. /\ sink'.open = sink.open /\ sink'.sess = sink.sess /\ sink'.seg = sink.seg
      /\ sink'.data = sink.data /\ sink'.rate = sink.rate
  <2>1. CASE UNCHANGED sink
    BY <2>1
  <2>2. CASE sink' = [sink EXCEPT !.synced = Len(sink.data)]
    BY <1>1, <2>2 DEF SinkType, SinkRec
  <2> QED
    BY <2>1, <2>2
<1>3. wr'.pc \in {"look", "exit"} /\ wr'.st = wr.st /\ state' # "BOOT"
  BY <1>1 DEF IInv, Types, WrType, WriterFault
<1>4. Unwritten' = Unwritten
  BY <1>1, <1>3 DEF Unwritten
<1>5. FilesInv' /\ RateInv' /\ (InOrder => InOrder')
  <2>1. FilesInv' /\ RateInv'
    BY <1>1, <1>2, <1>3, SameFiles
  <2> QED
    BY <1>2, <1>4, <2>1, SameOrder
<1>6. CASE wr' = [wr EXCEPT !.pc = "look"] /\ UNCHANGED <<state, gate, err, left>>
  <2>1. wr'.pc = "look" /\ (Shut => Shut')
    BY <1>6 DEF IInv, Types, WrType, Shut
  <2>2. DataInv'
    BY <1>5, <1>6 DEF TruthInv, DataInv, InSession
  <2>3. ~err' /\ state' = state /\ sink'.open /\ (wr'.st = "STOPPING" => Shut')
    BY <1>1, <1>2, <1>3, <1>6, <2>1
  <2>4. UNCHANGED <<slots, writer, op, exited>>
    OBVIOUS
  <2> QED
    BY <1>1, <1>5, <2>1, <2>2, <2>3, <2>4, WriterTruth
<1>7. CASE WriterFault
  BY <1>1, <1>5, <1>7, WriterFaultTruth
<1> QED
  BY <1>6, <1>7

\* The writer tells the joining call that it is gone.
LEMMA WriterExitTruth == ASSUME IInv, TruthInv, WriterExit PROVE TruthInv'
<1> USE DEF WriterExit, wrFrame, ctlVars, prodVars
<1>1. wr'.pc = "none" /\ wr.pc = "exit"
  BY DEF IInv, Types, WrType
<1>2. \A c \in Callers : op[c].pc \in {"idle", "active", "quiet", "join"}
  BY <1>1, WriterRuns
<1>3. FilesInv' /\ RateInv' /\ (Shut => Shut')
  BY SameFiles DEF TruthInv, Shut
<1>4. PhaseInv'
  BY <1>1, <1>3 DEF TruthInv, PhaseInv
<1>5. LearnInv'
  BY <1>2 DEF TruthInv, LearnInv, Learns
<1>6. IdleInv'
  BY DEF TruthInv, IdleInv
<1>7. DataInv'
  <2>1. Unwritten' = Unwritten
    BY <1>1 DEF Unwritten
  <2> QED
    BY <2>1, SameOrder DEF TruthInv, DataInv, InSession
<1> QED
  BY <1>3, <1>4, <1>5, <1>6, <1>7 DEF TruthInv

-----------------------------------------------------------------------------
(* start() and stop().                                                     *)

\* A call moves on: the others are idle, so only what this one learns has to
\* be shown.
LEMMA CallLearns ==
  ASSUME IInv, NEW c \in Callers, op[c].pc # "idle", NEW pc \in CallPcs, Goto(c, pc)
  PROVE  /\ op'[c].pc = pc /\ \A d \in Callers : d # c => op'[d].pc = "idle"
         /\ \A d \in Callers : d # c => op[d].pc = "idle"
         /\ Learns(c)' => LearnInv'
         /\ pc # "idle" => IdleInv'
<1>1. op'[c].pc = pc /\ \A d \in Callers : d # c => op'[d] = op[d]
  BY DEF IInv, Types, CallType, Goto
<1>2. \A d \in Callers : d # c => op[d].pc = "idle"
  BY DEF IInv, Alone
<1>3. \A d \in Callers : d # c => op'[d].pc = "idle"
  BY <1>1, <1>2
<1>4. \A d \in Callers : d # c => Learns(d)'
  BY <1>3 DEF Learns
<1>5. Learns(c)' => LearnInv'
  BY <1>4 DEF LearnInv
<1>6. pc # "idle" => IdleInv'
  BY <1>1 DEF IdleInv
<1> QED
  BY <1>1, <1>2, <1>3, <1>5, <1>6

\* A call with no writer: the states the writer could be in do not matter.
LEMMA PhaseAlone ==
  ASSUME wr'.pc = "none", ~writer', state' = "ERROR" => err',
         state' \in {"BOOT", "STOPPED"} => slots' = 0, state' = "STOPPING" => Shut'
  PROVE  PhaseInv'
BY DEF PhaseInv

\* start() finds the recorder stopped.
LEMMA StartTruth == ASSUME Serial, IInv, TruthInv, NEW c \in Callers, Start(c) PROVE TruthInv'
<1> USE DEF Start, ctlVars, prodVars
<1>1. \A d \in Callers : op[d].pc = "idle"
  BY DEF Calm
<1>2. op'[c].pc = "alloc" /\ \A d \in Callers : d # c => op'[d].pc = "idle"
  BY <1>1 DEF IInv, Types, CallType, Goto
<1>4. FilesInv' /\ RateInv'
  BY SameFiles DEF TruthInv
<1>5. PhaseInv'
  BY DEF TruthInv, PhaseInv, Shut
<1>6. LearnInv' /\ IdleInv'
  BY <1>2 DEF LearnInv, Learns, IdleInv
<1>7. DataInv'
  BY <1>2 DEF DataInv, InSession
<1> QED
  BY <1>4, <1>5, <1>6, <1>7 DEF TruthInv

\* The ring's memory is allocated.
LEMMA StartAllocTruth == ASSUME IInv, TruthInv, NEW c \in Callers, StartAlloc(c) PROVE TruthInv'
<1> USE DEF StartAlloc, prodVars
<1>1. op[c].pc = "alloc" /\ Goto(c, "open") /\ "open" \in CallPcs
  BY DEF CallPcs
<1>2. /\ op'[c].pc = "open" /\ (Learns(c)' => LearnInv') /\ IdleInv'
      /\ \A d \in Callers : d # c => op'[d].pc = "idle"
  BY <1>1, CallLearns
<1>3. ~sink.open /\ ~writer /\ wr.pc = "none"
  BY <1>1 DEF IInv, Calls, Knows, NoWriter
<1>4. FilesInv' /\ RateInv'
  BY SameFiles DEF TruthInv
<1>5. PhaseInv'
  BY <1>3, PhaseAlone
<1>6. LearnInv'
  BY <1>2 DEF Learns
<1>7. DataInv'
  BY <1>2 DEF DataInv, InSession
<1> QED
  BY <1>2, <1>4, <1>5, <1>6, <1>7 DEF TruthInv

\* A new session has nothing on the card.
LEMMA StartOpenTruth == ASSUME IInv, TruthInv, NEW c \in Callers, StartOpen(c) PROVE TruthInv'
<1> USE DEF prodVars
<1>0. op[c].pc = "open" /\ UNCHANGED <<ring, gate, wr, writer, exited, err, boot>>
  BY DEF StartOpen
<1>1. ~sink.open /\ ~writer /\ wr.pc = "none" /\ state = "STARTING"
  BY <1>0 DEF IInv, Calls, Knows, NoWriter
<1> DEFINE first == [NoSink EXCEPT !.sess = sess + 1]
<1>2. first.sess = sess + 1 /\ first.seg = 0 /\ ~first.open /\ first.data = <<>>
  BY DEF NoSink
<1>3. sess \in Nat /\ boot \in Nat /\ card \subseteq File
  BY DEF IInv, Types, CardType
<1>4. \A f \in card : f.id[1] <= boot /\ (f.id[1] = boot => f.id[2] <= sess + 1 /\ f.id[2] # sess + 1)
  <2>1. \A f \in card : f.id[2] \in Nat
    BY <1>3 DEF File
  <2> QED
    BY <1>3, <2>1 DEF TruthInv, FilesInv
<1> HIDE DEF first
<1>5. ASSUME NEW r \in Rates, sess' = sess + 1, sink' = Opened(first, r), Goto(c, "bind"),
             UNCHANGED <<state, slots, card, left>>
      PROVE  TruthInv'
  <2>1. op'[c].pc = "bind" /\ (Learns(c)' => LearnInv') /\ IdleInv'
        /\ \A d \in Callers : d # c => op'[d].pc = "idle"
    BY <1>0, <1>5, CallLearns DEF CallPcs
  <2>2. sink'.open /\ sink'.sess = sess' /\ sink'.seg = 0 /\ sink'.data = <<>>
    BY <1>2, <1>5 DEF Opened
  <2>3. SessionFiles' = {}
    BY <1>0, <1>4, <1>5 DEF SessionFiles
  <2>4. FilesInv'
    BY <1>0, <1>4, <1>5, <2>2, <2>3 DEF FilesInv
  <2>5. RateInv'
    BY <1>5, <2>2 DEF TruthInv, RateInv, OneRate
  <2>6. PhaseInv'
    BY <1>0, <1>1, <1>5, PhaseAlone
  <2>7. LearnInv'
    BY <2>1, <2>2, <2>3 DEF Learns
  <2>8. DataInv'
    BY <1>1, <1>5, <2>1 DEF DataInv, InSession
  <2> QED
    BY <2>1, <2>4, <2>5, <2>6, <2>7, <2>8 DEF TruthInv
<1>6. ASSUME NEW r \in Rates, slots' = 0, state' = "STOPPED", Goto(c, "idle"),
             \/ UNCHANGED <<sess, sink, card>>
             \/ /\ sess' = sess + 1 /\ sink' = first
                /\ card' \in NotOpened(first, r, card)
      PROVE  TruthInv'
  <2>1. /\ op'[c].pc = "idle" /\ (Learns(c)' => LearnInv')
        /\ \A d \in Callers : d # c => op'[d].pc = "idle"
    BY <1>0, <1>6, CallLearns DEF CallPcs
  <2>2. FilesInv' /\ RateInv'
    <3>1. CASE UNCHANGED <<sess, sink, card>>
      BY <1>0, <1>6, <3>1, SameFiles DEF TruthInv
    <3>2. CASE sess' = sess + 1 /\ sink' = first /\ card' \in NotOpened(first, r, card)
      <4> DEFINE f == Segment(Opened(first, r), "part", <<>>)
      <4>1. /\ f.id[1] = boot /\ f.id[2] = sess + 1 /\ f.id[3] = 0 /\ f.kind = "part"
            /\ f.data = <<>> /\ OneRate(f.data, f.rate)
        BY <1>2 DEF Segment, Opened, Id, OneRate
      <4>2. \A g \in card' : g \in card \/ g = f
        BY <3>2 DEF NotOpened
      <4> HIDE DEF f
      <4>3. \A g \in SessionFiles' : g = f
        BY <1>0, <1>4, <3>2, <4>2 DEF SessionFiles
      <4>4. \A g \in card' : g.id[1] <= boot' /\ (g.id[1] = boot' => g.id[2] <= sess')
        BY <1>0, <1>3, <1>4, <3>2, <4>1, <4>2
      <4>5. FilesInv'
        BY <1>2, <1>6, <3>2, <4>1, <4>3, <4>4 DEF FilesInv
      <4>6. RateInv'
        BY <1>2, <3>2, <4>1, <4>2 DEF TruthInv, RateInv
      <4> QED
        BY <4>5, <4>6
    <3> QED
      BY <1>6, <3>1, <3>2
  <2>3. PhaseInv'
    BY <1>0, <1>1, <1>6, PhaseAlone
  <2>4. LearnInv'
    BY <2>1 DEF Learns
  <2>5. IdleInv' /\ DataInv'
    BY <1>6, <2>1 DEF IdleInv, DataInv, InSession
  <2> QED
    BY <2>2, <2>3, <2>4, <2>5 DEF TruthInv
<1> QED
  BY <1>5, <1>6 DEF StartOpen, first

\* A start that gives up leaves a partial segment and no session.
LEMMA GivesUpTruth ==
  ASSUME IInv, TruthInv, NEW c \in Callers, op[c].pc \in {"bind", "create"}, Goto(c, "idle"),
         sink.open, card' = Closed(sink, FALSE, TRUE), sink' = [sink EXCEPT !.open = FALSE],
         slots' = 0, state' = "STOPPED", ~err', UNCHANGED <<wr, writer, boot, sess>>
  PROVE  TruthInv'
<1>1. /\ op'[c].pc = "idle" /\ (Learns(c)' => LearnInv')
      /\ \A d \in Callers : d # c => op'[d].pc = "idle"
  BY CallLearns DEF CallPcs
<1>2. ~writer /\ wr.pc = "none"
  BY DEF IInv, Calls, Knows, NoWriter
<1>3. SinkType /\ CardType /\ FilesInv /\ RateInv
  BY DEF IInv, Types, TruthInv
<1>4. ~sink'.open /\ sink'.seg = sink.seg /\ sink'.sess = sink.sess
  BY <1>3 DEF SinkType, SinkRec
<1>5. FilesInv' /\ RateInv'
  <2>1. FALSE \in BOOLEAN /\ TRUE \in BOOLEAN /\ state' # "BOOT"
    OBVIOUS
  <2> QED
    BY <1>3, <1>4, <2>1, ClosingFiles
<1>6. PhaseInv'
  BY <1>2, PhaseAlone
<1>7. LearnInv'
  BY <1>1 DEF Learns
<1>8. IdleInv' /\ DataInv'
  BY <1>1 DEF IdleInv, DataInv, InSession
<1> QED
  BY <1>5, <1>6, <1>7, <1>8 DEF TruthInv

\* The ring is bound, empty, with nothing accepted yet.
LEMMA StartBindTruth == ASSUME IInv, TruthInv, NEW c \in Callers, StartBind(c) PROVE TruthInv'
<1> USE DEF ctlVars
<1>0. /\ op[c].pc = "bind" /\ ring' = [slots |-> slots, q |-> <<>>] /\ ~err' /\ taken' = <<>>
      /\ UNCHANGED <<wr, writer, boot, sess>>
  BY DEF StartBind
<1>1. /\ sink.open /\ sink.seg = 0 /\ sink.data = <<>> /\ SessionFiles = {}
      /\ ~writer /\ wr.pc = "none" /\ state = "STARTING"
  BY <1>0 DEF TruthInv, LearnInv, Learns, IInv, Calls, Knows, NoWriter
<1>2. CASE gate.act # 0
  BY <1>0, <1>1, <1>2, GivesUpTruth DEF StartBind
<1>3. CASE gate.act = 0
  <2>0. Goto(c, "run") /\ UNCHANGED <<card, sink, slots, state>>
    BY <1>3 DEF StartBind
  <2>1. op'[c].pc = "run" /\ (Learns(c)' => LearnInv') /\ IdleInv'
    BY <1>0, <2>0, CallLearns DEF CallPcs
  <2>2. FilesInv' /\ RateInv'
    BY <1>0, <2>0, SameFiles DEF TruthInv
  <2>3. PhaseInv'
    BY <1>0, <1>1, <2>0, PhaseAlone
  <2>4. LearnInv'
    BY <1>0, <1>1, <2>0, <2>1 DEF Learns
  <2>5. SessionFiles' = {} /\ Unwritten' = <<>>
    BY <1>0, <1>1, <2>0 DEF SessionFiles, Unwritten
  <2>6. <<>> \o <<>> = <<>> /\ Cat({}, 0) = <<>>
    BY CatEmpty
  <2>7. Stored' = <<>>
    BY <1>1, <2>0, <2>5, <2>6 DEF Stored
  <2>8. InOrder'
    BY <1>0, <2>5, <2>6, <2>7 DEF InOrder
  <2> QED
    BY <2>1, <2>2, <2>3, <2>4, <2>8 DEF TruthInv, DataInv
<1> QED
  BY <1>2, <1>3

\* Recording begins.
LEMMA StartRunTruth == ASSUME IInv, TruthInv, NEW c \in Callers, StartRun(c) PROVE TruthInv'
<1> USE DEF StartRun, ctlVars, prodVars
<1>1. op[c].pc = "run" /\ Goto(c, "create") /\ "create" \in CallPcs
  BY DEF CallPcs
<1>2. /\ op'[c].pc = "create" /\ (Learns(c)' => LearnInv') /\ IdleInv'
      /\ \A d \in Callers : d # c => op[d].pc = "idle"
  BY <1>1, CallLearns
<1>3. ~writer /\ wr.pc = "none" /\ sink.open /\ ~err
  BY <1>1 DEF IInv, Calls, Knows, NoWriter, TruthInv, LearnInv, Learns
<1>4. FilesInv' /\ RateInv'
  BY SameFiles DEF TruthInv
<1>5. PhaseInv'
  BY <1>3, PhaseAlone
<1>6. LearnInv'
  BY <1>2, <1>3 DEF Learns
<1>7. DataInv'
  <2>1. InOrder
    BY <1>1, <1>2, <1>3 DEF TruthInv, DataInv, InSession
  <2>2. Unwritten' = Unwritten
    BY DEF Unwritten
  <2> QED
    BY <2>1, <2>2, SameOrder DEF DataInv
<1> QED
  BY <1>2, <1>4, <1>5, <1>6, <1>7 DEF TruthInv

\* The writer is created.
LEMMA StartCreateTruth ==
  ASSUME IInv, TruthInv, NEW c \in Callers, StartCreate(c)
  PROVE  TruthInv'
<1> USE DEF StartCreate, ctlVars, prodVars
<1>1. op[c].pc = "create" /\ Goto(c, "active") /\ "active" \in CallPcs
  BY DEF CallPcs
<1>2. /\ op'[c].pc = "active" /\ (Learns(c)' => LearnInv') /\ IdleInv'
      /\ \A d \in Callers : d # c => op[d].pc = "idle"
  BY <1>1, CallLearns
<1>3. wr.pc = "none" /\ ~exited /\ sink.open /\ ~err /\ state = "RECORDING"
  BY <1>1 DEF IInv, Calls, Knows, NoWriter, TruthInv, LearnInv, Learns
<1>4. FilesInv' /\ RateInv'
  BY SameFiles DEF TruthInv
<1>5. PhaseInv'
  BY <1>3 DEF PhaseInv
<1>6. LearnInv'
  BY <1>2, <1>3 DEF Learns
<1>7. DataInv'
  <2>1. InOrder
    BY <1>1, <1>2, <1>3 DEF TruthInv, DataInv, InSession
  <2>2. Unwritten' = Unwritten
    BY <1>3 DEF Unwritten
  <2> QED
    BY <2>1, <2>2, SameOrder DEF DataInv
<1> QED
  BY <1>2, <1>4, <1>5, <1>6, <1>7 DEF TruthInv

\* start() returns.
LEMMA StartActiveTruth ==
  ASSUME IInv, TruthInv, NEW c \in Callers, StartActive(c)
  PROVE  TruthInv'
<1> USE DEF StartActive, prodVars
<1>1. op[c].pc = "active" /\ Goto(c, "idle") /\ "idle" \in CallPcs
  BY DEF CallPcs
<1>2. /\ op'[c].pc = "idle" /\ (Learns(c)' => LearnInv')
      /\ \A d \in Callers : d # c => op'[d].pc = "idle"
  BY <1>1, CallLearns
<1>3. state \in {"RECORDING", "ERROR"} /\ writer /\ (err \/ sink.open)
  BY <1>1 DEF TruthInv, LearnInv, Learns
<1>4. FilesInv' /\ RateInv'
  BY SameFiles DEF TruthInv
<1>5. PhaseInv'
  BY DEF TruthInv, PhaseInv, Shut
<1>6. LearnInv' /\ IdleInv'
  BY <1>2, <1>3 DEF Learns, IdleInv
<1>7. DataInv'
  <2>1. InSession' => InSession
    BY <1>1, <1>2 DEF InSession
  <2>2. Unwritten' = Unwritten
    BY DEF Unwritten
  <2> QED
    BY <2>1, <2>2, SameOrder DEF TruthInv, DataInv
<1> QED
  BY <1>4, <1>5, <1>6, <1>7 DEF TruthInv

\* The writer cannot be created.
LEMMA StartNoTaskTruth ==
  ASSUME IInv, TruthInv, NEW c \in Callers, StartNoTask(c)
  PROVE  TruthInv'
<1>1. op[c].pc = "create" /\ sink.open /\ ~err
  BY DEF StartNoTask, TruthInv, LearnInv, Learns
<1> QED
  BY <1>1, GivesUpTruth DEF StartNoTask, ctlVars, prodVars

\* stop() finds a recording, a failed one, or nothing to do.
LEMMA StopTruth == ASSUME Serial, IInv, TruthInv, NEW c \in Callers, Stop(c) PROVE TruthInv'
<1> USE DEF Stop, stopFrame
<1>1. \A d \in Callers : op[d].pc = "idle"
  BY DEF Calm
<1>2. /\ op'[c].pc = IF state = "STOPPED" /\ slots = 0 THEN "idle" ELSE "quiet"
      /\ \A d \in Callers : d # c => op'[d].pc = "idle"
  BY <1>1 DEF IInv, Types, CallType
<1>3. /\ state \in {"STOPPED", "RECORDING", "ERROR"}
      /\ state = "RECORDING" => writer /\ (err \/ sink.open)
      /\ state = "STOPPED" => slots = 0
      /\ state = "ERROR" => err
  BY <1>1 DEF TruthInv, IdleInv, PhaseInv
<1>4. Shut => Shut'
  BY DEF Shut, IInv, Types, ProdType
<1>5. FilesInv' /\ RateInv'
  BY SameFiles DEF TruthInv
<1>6. PhaseInv'
  BY <1>4 DEF TruthInv, PhaseInv
<1>7. LearnInv'
  <2> SUFFICES ASSUME NEW d \in Callers PROVE Learns(d)'
    BY DEF LearnInv
  <2>1. /\ op'[d].pc \in {"idle", "quiet"}
        /\ op'[d].pc = "quiet" => /\ err \/ (writer /\ sink.open)
                                  /\ state' \in {"RECORDING", "STOPPING", "ERROR"}
    BY <1>2, <1>3
  <2> QED
    BY <2>1 DEF Learns
<1>8. IdleInv'
  BY <1>3 DEF IdleInv
<1>9. DataInv'
  <2>1. InSession' => InSession
    BY <1>1 DEF InSession
  <2>2. Unwritten' = Unwritten
    BY DEF Unwritten
  <2> QED
    BY <2>1, <2>2, SameOrder DEF TruthInv, DataInv
<1> QED
  BY <1>5, <1>6, <1>7, <1>8, <1>9 DEF TruthInv

\* The last producer has left.
LEMMA StopQuietTruth == ASSUME IInv, TruthInv, NEW c \in Callers, StopQuiet(c) PROVE TruthInv'
<1> USE DEF StopQuiet, stopFrame
<1>1. op[c].pc = "quiet" /\ Goto(c, "join") /\ "join" \in CallPcs
  BY DEF CallPcs
<1>2. /\ op'[c].pc = "join" /\ (Learns(c)' => LearnInv') /\ IdleInv'
      /\ \A d \in Callers : d # c => op'[d].pc = "idle"
  BY <1>1, CallLearns
<1>3. Shut /\ Shut'
  BY <1>1 DEF IInv, Types, ProdType, Calls, Knows, Shut
<1>4. state' = state \/ state' = "STOPPING"
  OBVIOUS
<1>5. FilesInv' /\ RateInv'
  BY <1>4, SameFiles DEF TruthInv
<1>6. PhaseInv'
  BY <1>3, <1>4 DEF TruthInv, PhaseInv
<1>7. LearnInv'
  BY <1>1, <1>2 DEF TruthInv, LearnInv, Learns
<1>8. DataInv'
  <2>1. InSession
    BY <1>1 DEF InSession, TruthInv, LearnInv, Learns
  <2>2. Unwritten' = Unwritten
    BY DEF Unwritten
  <2> QED
    BY <2>1, <2>2, SameOrder DEF TruthInv, DataInv
<1> QED
  BY <1>2, <1>5, <1>6, <1>7, <1>8 DEF TruthInv

\* The writer has exited, with the ring empty if nothing failed.
LEMMA StopJoinTruth == ASSUME IInv, TruthInv, NEW c \in Callers, StopJoin(c) PROVE TruthInv'
<1> USE DEF StopJoin, stopFrame
<1>1. op[c].pc = "join" /\ Goto(c, "close") /\ "close" \in CallPcs
  BY DEF CallPcs
<1>2. /\ op'[c].pc = "close" /\ (Learns(c)' => LearnInv') /\ IdleInv'
      /\ \A d \in Callers : d # c => op'[d].pc = "idle"
  BY <1>1, CallLearns
<1>3. (err \/ (sink.open /\ ring.q = <<>>)) /\ state \in {"RECORDING", "STOPPING", "ERROR"}
  BY <1>1 DEF TruthInv, LearnInv, Learns, PhaseInv
<1>4. FilesInv' /\ RateInv'
  BY SameFiles DEF TruthInv
<1>5. PhaseInv'
  BY DEF TruthInv, PhaseInv, Shut
<1>6. LearnInv'
  BY <1>2, <1>3 DEF Learns
<1>7. DataInv'
  <2>1. InSession
    BY <1>3 DEF InSession
  <2>2. Unwritten' = Unwritten
    BY DEF Unwritten
  <2> QED
    BY <2>1, <2>2, SameOrder DEF TruthInv, DataInv
<1> QED
  BY <1>2, <1>4, <1>5, <1>6, <1>7 DEF TruthInv

\* The last segment is published exactly if nothing failed; then the segments
\* hold what was accepted.
LEMMA StopCloseTruth == ASSUME IInv, TruthInv, NEW c \in Callers, StopClose(c) PROVE TruthInv'
<1> USE DEF stopFrame
<1>0. /\ op[c].pc = "close" /\ Goto(c, "release") /\ "release" \in CallPcs
      /\ sink' = [sink EXCEPT !.open = FALSE]
      /\ UNCHANGED <<state, slots, gate, writer, ring, wr, exited, taken, prod, boot, sess>>
  BY DEF StopClose, CallPcs
<1>1. /\ op'[c].pc = "release" /\ (Learns(c)' => LearnInv') /\ IdleInv'
      /\ \A d \in Callers : d # c => op[d].pc = "idle"
  BY <1>0, CallLearns
<1>2. /\ SinkType /\ CardType /\ FilesInv /\ RateInv /\ err \in BOOLEAN
      /\ ~writer /\ wr.pc = "none" /\ state \in {"RECORDING", "STOPPING", "ERROR"}
      /\ err \/ (sink.open /\ ring.q = <<>>)
      /\ state = "ERROR" => err
  BY <1>0 DEF IInv, Types, WrType, Calls, Knows, NoWriter, TruthInv, LearnInv, Learns, PhaseInv
<1>3. /\ ~sink'.open /\ sink'.seg = sink.seg /\ sink'.sess = sink.sess
      /\ sink'.rate = sink.rate /\ sink'.data = sink.data
  BY <1>0, <1>2 DEF SinkType, SinkRec
<1>4. SessionOk \in BOOLEAN /\ (SessionOk <=> ~err)
  BY <1>2 DEF SessionOk
<1>5. /\ err => err'
      /\ sink.open => \/ card' = Closed(sink, SessionOk, TRUE) /\ (err' => err)
                      \/ card' = Closed(sink, SessionOk, FALSE) /\ err'
      /\ ~sink.open => card' = card /\ (err' => err)
  <2>1. CASE /\ card' = IF sink.open THEN Closed(sink, SessionOk, TRUE) ELSE card
             /\ err' = err
    BY <2>1
  <2>2. CASE sink.open /\ card' = Closed(sink, SessionOk, FALSE) /\ err' = TRUE
    BY <2>2
  <2> QED
    BY <2>1, <2>2 DEF StopClose
<1>6. FilesInv' /\ RateInv' /\ Stored' = Stored
  <2>1. CASE sink.open /\ card' = Closed(sink, SessionOk, TRUE) /\ (err' => err)
    <3>1. FilesInv' /\ RateInv'
      BY <1>0, <1>2, <1>3, <1>4, <2>1, ClosingFiles
    <3>2. Cat(SessionFiles', sink.seg + 1) = Stored
      BY <1>0, <1>2, <1>4, <2>1, ClosedStored
    <3> QED
      BY <1>3, <3>1, <3>2 DEF Stored
  <2>2. CASE sink.open /\ card' = Closed(sink, SessionOk, FALSE)
    <3>1. FilesInv' /\ RateInv'
      BY <1>0, <1>2, <1>3, <1>4, <2>2, ClosingFiles
    <3>2. Cat(SessionFiles', sink.seg + 1) = Stored
      BY <1>0, <1>2, <1>4, <2>2, ClosedStored
    <3> QED
      BY <1>3, <3>1, <3>2 DEF Stored
  <2>3. CASE ~sink.open
    <3>1. card' = card /\ (err' => err)
      BY <1>5, <2>3
    <3>2. sink'.open = sink.open
      BY <1>0, <1>2, <2>3 DEF SinkType, SinkRec
    <3>3. UNCHANGED <<card, boot, sess>> /\ state' = state
      BY <1>0, <3>1
    <3>4. FilesInv' /\ RateInv'
      BY <1>2, <1>3, <3>1, <3>2, <3>3, SameFiles
    <3> QED
      BY <1>3, <3>2, <3>3, <3>4, SameOrder
  <2> QED
    BY <1>5, <2>1, <2>2, <2>3
<1>7. PhaseInv'
  <2>1. state' = "STOPPING" => Shut'
    BY <1>0 DEF TruthInv, PhaseInv, Shut
  <2>2. state' \in {"BOOT", "STOPPED"} => slots' = 0
    BY <1>0 DEF TruthInv, PhaseInv
  <2> QED
    BY <1>0, <1>2, <1>5, <2>1, <2>2, PhaseAlone
<1>8. DataInv'
  <2>1. InOrder
    BY <1>2 DEF TruthInv, DataInv, InSession
  <2>2. Unwritten' = Unwritten /\ taken' = taken
    BY <1>0 DEF Unwritten
  <2> QED
    BY <1>6, <2>1, <2>2 DEF DataInv, InOrder
<1>9. ~err' => ring.q = <<>> /\ \A f \in SessionFiles' : f.kind = "wav"
  <2> SUFFICES ASSUME ~err' PROVE ring.q = <<>> /\ \A f \in SessionFiles' : f.kind = "wav"
    OBVIOUS
  <2>1. ~err /\ sink.open /\ ring.q = <<>> /\ card' = Closed(sink, SessionOk, TRUE) /\ SessionOk
    BY <1>2, <1>4, <1>5
  <2>2. PICK f \in File : f.kind = "wav" /\ SessionFiles' = SessionFiles \cup {f}
    BY <1>0, <1>2, <1>4, <2>1, ClosedSession
  <2> QED
    BY <1>2, <2>1, <2>2 DEF FilesInv
<1>10. LearnInv'
  BY <1>0, <1>1, <1>2, <1>9 DEF Learns
<1> QED
  BY <1>1, <1>6, <1>7, <1>8, <1>10 DEF TruthInv

\* stop() returns.
LEMMA StopReleaseTruth ==
  ASSUME IInv, TruthInv, NEW c \in Callers, StopRelease(c)
  PROVE  TruthInv'
<1> USE DEF StopRelease, stopFrame
<1>1. op[c].pc = "release" /\ Goto(c, "idle") /\ "idle" \in CallPcs
  BY DEF CallPcs
<1>2. /\ op'[c].pc = "idle" /\ (Learns(c)' => LearnInv')
      /\ \A d \in Callers : d # c => op'[d].pc = "idle"
  BY <1>1, CallLearns
<1>3. ~writer /\ wr.pc = "none" /\ ~sink.open
  BY <1>1 DEF IInv, Calls, Knows, NoWriter
<1>4. FilesInv' /\ RateInv'
  BY SameFiles DEF TruthInv
<1>5. PhaseInv'
  BY <1>3, PhaseAlone
<1>6. LearnInv' /\ IdleInv' /\ DataInv'
  BY <1>2 DEF Learns, IdleInv, DataInv, InSession
<1> QED
  BY <1>4, <1>5, <1>6 DEF TruthInv

-----------------------------------------------------------------------------
\* Every step keeps what the segments hold true.
LEMMA NextTruth ==
  ASSUME Serial, IInv, TruthInv, [Next]_vars
  PROVE  TruthInv'
<1>1. CASE Recover \/ InitDone \/ Crash
  BY <1>1, RecoverTruth, InitDoneTruth, CrashTruth
<1>2. ASSUME NEW r \in Rates, Push(r) PROVE TruthInv'
  BY <1>2, PushTruth
<1>3. CASE Producer
  BY <1>3, GateTruth, PushRingTruth DEF Producer
<1>4. CASE Writer
  BY <1>4, WriterLookTruth, WriterPeekTruth, WriterWriteTruth, WriterConsumeTruth,
     WriterExitTruth DEF Writer
<1>5. ASSUME NEW c \in Callers, Start(c) PROVE TruthInv'
  BY <1>5, StartTruth
<1>6. ASSUME NEW c \in Callers, Stop(c) PROVE TruthInv'
  BY <1>6, StopTruth
<1>7. ASSUME NEW c \in Callers, Call(c) PROVE TruthInv'
  BY <1>7, StartAllocTruth, StartOpenTruth, StartBindTruth, StartRunTruth, StartCreateTruth,
     StartActiveTruth, StartNoTaskTruth, StopQuietTruth, StopJoinTruth, StopCloseTruth,
     StopReleaseTruth DEF Call
<1>8. CASE UNCHANGED vars
  BY <1>8, StillTruth DEF vars, Shut
<1> QED
  BY <1>1, <1>2, <1>3, <1>4, <1>5, <1>6, <1>7, <1>8 DEF Next

\* When a stop has closed the recording, its segments hold every accepted block
\* in order and once, but for those an error left in the ring, and none mixes two
\* rates; the segments are published but for the one an error fell in, if that
\* was opened (audio_recorder_stop, audio_recorder_sink_write_block).
THEOREM RecordingIsTrue == ASSUME Serial, ~Overlap PROVE Spec => []RecordingTruth
<1>1. Init => IInv /\ TruthInv
  BY InitInv, InitTruth
<1>2. IInv /\ TruthInv /\ [Next]_vars => (IInv /\ TruthInv)'
  BY NextInv, NextTruth
<1>3. IInv /\ TruthInv => RecordingTruth
  <2> SUFFICES ASSUME IInv, TruthInv, NEW c \in Callers, op[c].pc = "release"
               PROVE  /\ \A f \in SessionFiles : \A blk \in Range(f.data) : blk.rate = f.rate
                      /\ FlattenSeq([n \in 1 .. sink.seg + 1 |-> Recorded(n - 1)]) \o ring.q
                           = taken
                      /\ ~err => ring.q = <<>>
                      /\ \A f \in SessionFiles :
                            f.kind = IF err /\ f.id[3] = sink.seg THEN "part" ELSE "wav"
    BY DEF RecordingTruth
  <2>1. /\ ~sink.open /\ wr.pc = "none" /\ sink.seg \in Nat
        /\ state \in {"RECORDING", "STOPPING", "ERROR"}
        /\ ~err => ring.q = <<>> /\ \A f \in SessionFiles : f.kind = "wav"
    BY DEF IInv, Types, SinkType, SinkRec, Calls, Knows, NoWriter, TruthInv, LearnInv, Learns
  <2>2. \A f \in SessionFiles : \A blk \in Range(f.data) : blk.rate = f.rate
    <3> TAKE f \in SessionFiles
    <3>1. f \in card /\ f.data \in Seq(Block) /\ OneRate(f.data, f.rate)
      BY DEF SessionFiles, IInv, Types, CardType, File, TruthInv, RateInv
    <3> QED
      BY <3>1 DEF Range, OneRate
  <2>3. FlattenSeq([n \in 1 .. sink.seg + 1 |-> Recorded(n - 1)]) \o ring.q = taken
    <3>1. taken = Stored \o Unwritten
      BY <2>1 DEF TruthInv, DataInv, InSession, InOrder
    <3>2. Stored = Cat(SessionFiles, sink.seg + 1) /\ Unwritten = ring.q
      BY <2>1 DEF Stored, Unwritten
    <3>3. FlattenSeq([n \in 1 .. sink.seg + 1 |-> Recorded(n - 1)])
            = Cat(SessionFiles, sink.seg + 1)
      BY <2>1, CatIsRecorded
    <3> QED
      BY <3>1, <3>2, <3>3, Zenon
  <2>4. \A f \in SessionFiles : f.kind = IF err /\ f.id[3] = sink.seg THEN "part" ELSE "wav"
    <3> TAKE f \in SessionFiles
    <3>1. f.id[3] \in Nat
      BY DEF SessionFiles, IInv, Types, CardType, File
    <3>2. f.id[3] <= sink.seg /\ (f.id[3] < sink.seg => f.kind = "wav")
      BY DEF TruthInv, FilesInv
    <3>3. err /\ f.id[3] = sink.seg => f.kind = "part"
      BY <2>1 DEF TruthInv, FilesInv
    <3> QED
      BY <2>1, <3>1, <3>2, <3>3
  <2> QED
    BY <2>1, <2>2, <2>3, <2>4
<1> QED
  BY <1>1, <1>2, <1>3, PTL DEF Spec
=============================================================================
