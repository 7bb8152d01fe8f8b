------------------------ MODULE ControlLinkRxProofs ------------------------
(***************************************************************************)
(* What ControlLinkRx guarantees for every number of controls and frames   *)
(* and every queue length.                                                 *)
(*                                                                         *)
(* The argument rests on one relation between the receive task's slots and *)
(* the deck queue: for each held control, the newest level in the queue    *)
(* (or, when the queue has none, the level the deck has) is the slot's     *)
(* scheduled level.  A slot is dirty exactly when that differs from the    *)
(* desired level, so a clean slot means that the deck is, or will be, at   *)
(* the desired level, and a level is sent only when it differs from the    *)
(* one sent before it.                                                     *)
(*                                                                         *)
(* Commands and movement are conserved: what was received is what the deck *)
(* took, what is in the queue (a sum over it), what is in hand or held back,*)
(* and, for commands, what was counted as dropped.  Each step moves an     *)
(* amount from one of these places to another.                             *)
(***************************************************************************)
EXTENDS ControlLinkRx, SumsProofs

\* The level the slot claims to be the newest one sent.
Sent(s) == IF s.valid THEN s.scheduled ELSE NoLevel

\* Consecutive levels of k, starting with the deck's own, differ.
ChainIn(q, l, k) ==
  /\ \A i \in DOMAIN q :
       IsHeldOf(q[i], k) /\ (\A m \in DOMAIN q : m < i => ~IsHeldOf(q[m], k))
         => l # q[i].val
  /\ \A i, j \in DOMAIN q :
       /\ i < j /\ IsHeldOf(q[i], k) /\ IsHeldOf(q[j], k)
       /\ \A m \in DOMAIN q : i < m /\ m < j => ~IsHeldOf(q[m], k)
       => q[i].val # q[j].val

SlotOK(s) ==
  /\ ~s.observed => ~s.valid /\ ~s.dirty
  /\ s.observed => (s.dirty <=> NeedsSchedule(s.valid, s.scheduled, s.desired))

HeldInv ==
  \A k \in HeldKeys :
    /\ SlotOK(slots[k])
    /\ NewestIn(queue, deckLevel[k], k, Sent(slots[k]))
    /\ ChainIn(queue, deckLevel[k], k)
    /\ rxLevel[k] # NoLevel /\ ~InFlight(k) =>
         slots[k].observed /\ slots[k].desired = rxLevel[k]
    /\ InFlight(k) => rxLevel[k] = cur.val
    /\ pc = "wait" /\ IsHeldOf(cur, k) =>
         slots[k].observed /\ slots[k].dirty /\ slots[k].desired = cur.val

-----------------------------------------------------------------------------
(* The slot operations (control_state_reconciler).                          *)

\* Observing, marking and releasing keep a slot's dirty flag truthful; only
\* marking changes what the slot claims to have sent.
LEMMA SlotLemma ==
  ASSUME NEW s \in Slot, SlotOK(s), NEW v \in Levels
  PROVE  /\ Observe(s, v) \in Slot /\ SlotOK(Observe(s, v))
         /\ Sent(Observe(s, v)) = Sent(s)
         /\ Observe(s, v).observed /\ Observe(s, v).desired = v
         /\ (Observe(s, v).dirty <=> Sent(s) # v)
         /\ MarkScheduled(s, v) \in Slot
         /\ (s.observed => SlotOK(MarkScheduled(s, v)))
         /\ Sent(MarkScheduled(s, v)) = v
         /\ MarkScheduled(s, v).desired = s.desired
         /\ (MarkScheduled(s, v).observed <=> s.observed)
<1> DEFINE o == Observe(s, v)
           m == MarkScheduled(s, v)
<1>1. v # NoLevel /\ s.desired # NoLevel /\ s.scheduled # NoLevel
  BY HeldAssumption DEF Slot, NoLevel
<1>5. o \in Slot /\ m \in Slot
  BY DEF Slot, Observe, MarkScheduled, NeedsSchedule
<1>6. SlotOK(o) /\ Sent(o) = Sent(s) /\ o.observed /\ o.desired = v
  BY DEF SlotOK, Sent, Observe
<1>7. o.dirty <=> Sent(s) # v
  BY <1>1 DEF Sent, NeedsSchedule, Observe
<1>8. /\ s.observed => SlotOK(m)
      /\ Sent(m) = v /\ m.desired = s.desired /\ (m.observed <=> s.observed)
  BY DEF SlotOK, Sent, NeedsSchedule, MarkScheduled
<1>9. QED
  BY <1>5, <1>6, <1>7, <1>8

-----------------------------------------------------------------------------
(* The deck queue.                                                          *)

\* Appending an event of anything else disturbs nothing about k.
LEMMA AppendOther ==
  ASSUME NEW q \in Seq(Event), NEW e \in Event, NEW k, NEW l, NEW v, ~IsHeldOf(e, k)
  PROVE  /\ NewestIn(q, l, k, v) => NewestIn(Append(q, e), l, k, v)
         /\ ChainIn(q, l, k) => ChainIn(Append(q, e), l, k)
BY DEF NewestIn, ChainIn

\* Appending a level of k makes it the newest; the chain still alternates if it
\* differs from the newest before.
LEMMA AppendHeld ==
  ASSUME NEW q \in Seq(Event), NEW e \in Event, NEW k, NEW l, NEW v, IsHeldOf(e, k)
  PROVE  /\ NewestIn(Append(q, e), l, k, e.val)
         /\ NewestIn(q, l, k, v) /\ ChainIn(q, l, k) /\ v # e.val
              => ChainIn(Append(q, e), l, k)
BY SMTT(30) DEF NewestIn, ChainIn

\* Taking the head moves its level to the deck.
LEMMA TailLemma ==
  ASSUME NEW q \in Seq(Event), q # <<>>, NEW k, NEW l, NEW v,
         NEW m, m = IF IsHeldOf(Head(q), k) THEN Head(q).val ELSE l
  PROVE  /\ NewestIn(q, l, k, v) => NewestIn(Tail(q), m, k, v)
         /\ ChainIn(q, l, k) => ChainIn(Tail(q), m, k)
         /\ ChainIn(q, l, k) /\ IsHeldOf(Head(q), k) => l # Head(q).val
<1> DEFINE t == Tail(q)
<1>1. /\ t \in Seq(Event) /\ Len(t) = Len(q) - 1 /\ Len(q) > 0 /\ q[1] = Head(q)
      /\ DOMAIN q = 1 .. Len(q) /\ DOMAIN t = 1 .. Len(t)
      /\ \A i \in DOMAIN t : i + 1 \in DOMAIN q /\ t[i] = q[i + 1]
  OBVIOUS
<1>2. \A i \in DOMAIN q : i # 1 => i - 1 \in DOMAIN t /\ t[i - 1] = q[i]
  BY <1>1
<1>3. NewestIn(q, l, k, v) => NewestIn(t, m, k, v)
  BY <1>1, <1>2, SMTT(30) DEF NewestIn
<1>4. ChainIn(q, l, k) => ChainIn(t, m, k)
  <2> SUFFICES ASSUME ChainIn(q, l, k) PROVE ChainIn(t, m, k)
    OBVIOUS
  <2>1. ASSUME NEW i \in DOMAIN t, IsHeldOf(t[i], k),
               \A n \in DOMAIN t : n < i => ~IsHeldOf(t[n], k)
        PROVE  m # t[i].val
    <3>1. ASSUME NEW n \in DOMAIN q, 1 < n, n < i + 1
          PROVE  ~IsHeldOf(q[n], k)
      <4>1. n - 1 \in DOMAIN t /\ t[n - 1] = q[n] /\ n - 1 < i
        BY <1>1, <1>2, <3>1
      <4>2. QED
        BY <2>1, <4>1
    <3>2. CASE IsHeldOf(Head(q), k)
      BY <1>1, <2>1, <3>1, <3>2 DEF ChainIn
    <3>3. CASE ~IsHeldOf(Head(q), k)
      <4>1. \A n \in DOMAIN q : n < i + 1 => ~IsHeldOf(q[n], k)
        BY <1>1, <3>1, <3>3
      <4>2. QED
        BY <1>1, <2>1, <3>3, <4>1 DEF ChainIn
    <3>4. QED
      BY <3>2, <3>3
  <2>2. ASSUME NEW i \in DOMAIN t, NEW j \in DOMAIN t, i < j,
               IsHeldOf(t[i], k), IsHeldOf(t[j], k),
               \A n \in DOMAIN t : i < n /\ n < j => ~IsHeldOf(t[n], k)
        PROVE  t[i].val # t[j].val
    <3>1. ASSUME NEW n \in DOMAIN q, i + 1 < n, n < j + 1
          PROVE  ~IsHeldOf(q[n], k)
      <4>1. n - 1 \in DOMAIN t /\ t[n - 1] = q[n] /\ i < n - 1 /\ n - 1 < j
        BY <1>1, <1>2, <3>1
      <4>2. QED
        BY <2>2, <4>1
    <3>2. i + 1 < j + 1 /\ i + 1 \in DOMAIN q /\ j + 1 \in DOMAIN q
      BY <1>1, <2>2
    <3>3. QED
      BY <1>1, <2>2, <3>1, <3>2 DEF ChainIn
  <2>3. QED
    BY <2>1, <2>2 DEF ChainIn
<1>5. ChainIn(q, l, k) /\ IsHeldOf(Head(q), k) => l # Head(q).val
  BY <1>1 DEF ChainIn
<1>6. QED
  BY <1>3, <1>4, <1>5

-----------------------------------------------------------------------------
(* The type invariant.                                                      *)

\* The declared types of the state hold initially.
LEMMA TypeInit == Init => TypeOK
<1> SUFFICES ASSUME Init PROVE TypeOK
  OBVIOUS
<1>1. /\ NIds \in Nat /\ QueueCap \in Nat /\ DeltaMax \in Nat
      /\ MaxFrames \in Nat /\ MaxPosts \in Nat /\ 0 \in Levels
  BY HeldAssumption, RxAssumption
<1>2. slots \in [HeldKeys -> Slot]
  BY <1>1 DEF Init, ResetSlots, Slot
<1>3. /\ DOMAIN pendVal = Ids /\ DOMAIN pendDelta = Ids
      /\ \A i \in Ids : PendOK(pendVal[i], pendDelta[i])
  BY <1>1 DEF Init, PendOK
<1>4. QueueOK(queue)
  BY <1>1 DEF Init, QueueOK
<1>5. QED
  BY <1>1, <1>2, <1>3, <1>4 DEF Init, TypeOK, NoEvent, NoLevel

\* clamp_jog_delta always returns a value of the 16-bit range.
LEMMA ClampLemma ==
  ASSUME NEW n \in Int
  PROVE  Clamp(n) \in -DeltaMax - 1 .. DeltaMax
BY RxAssumption DEF Clamp

\* A queue with room takes one more event.
LEMMA SendType ==
  ASSUME TypeOK, HasRoom, NEW e, EventOK(e)
  PROVE  QueueOK(Send(e))
<1>0. /\ e \in Event
      /\ queue \in Seq(Event) /\ Len(queue) <= QueueCap /\ Len(queue) < QueueCap
  BY DEF TypeOK, QueueOK, HasRoom, EventOK
<1>1. e \in Event /\ queue \in Seq(Event) /\ Len(queue) + 1 <= QueueCap
  <2>1. Len(queue) \in Nat /\ QueueCap \in Nat
    BY <1>0, RxAssumption
  <2>2. QED
    BY <1>0, <2>1
<1>2. \A i \in DOMAIN queue : EventOK(queue[i])
  BY DEF TypeOK, QueueOK
<1>3. QED
  BY <1>1, <1>2 DEF Send, QueueOK

\* Every action keeps the types.
LEMMA TypeStep == TypeOK /\ [Next]_vars => TypeOK'
<1> SUFFICES ASSUME TypeOK, [Next]_vars PROVE TypeOK'
  OBVIOUS
<1>c. /\ NIds \in Nat /\ QueueCap \in Nat /\ DeltaMax \in Nat
      /\ MaxFrames \in Nat /\ MaxPosts \in Nat
  BY RxAssumption
<1>l. NHeld \in Nat /\ \A v \in Levels : v \in Nat
  BY HeldAssumption
<1>1. ASSUME NEW f \in Frames, DispatchFrame(f) PROVE TypeOK'
  <2>1. slots' \in [HeldKeys -> Slot]
    BY <1>1, HeldAssumption, <1>c DEF TypeOK, DispatchFrame, ReleaseAll, Slot, Observe, NeedsSchedule
  <2>2. EventOK(cur') /\ cur'.type # "post"
    <3>1. /\ f \in Frames /\ f.type \in QueuedTypes /\ rxCmds \in Nat
          /\ cur' = [f EXCEPT !.val = IF IsOnce(f) THEN rxCmds + 1 ELSE f.val]
      BY <1>1 DEF DispatchFrame, TypeOK
    <3>2. f = [type |-> f.type, id |-> f.id, val |-> f.val] /\ FrameOK(f)
      BY RxAssumption
    <3>3. /\ f.id \in Nat /\ f.val \in Int
          /\ f.type = "held" => f.id \in HeldKeys /\ f.val \in Levels
          /\ f.type \in {"rel", "abs"} => f.id \in Ids
      BY <3>2, <1>c, <1>l DEF FrameOK, HeldKeys, Ids
    <3>4. cur' = [type |-> f.type, id |-> f.id,
                  val |-> IF IsOnce(f) THEN rxCmds + 1 ELSE f.val]
      BY <3>1, <3>2
    <3>5. cur'.type = f.type /\ cur'.id = f.id /\ cur'.val \in Int
          /\ (f.type = "held" => cur'.val = f.val)
      BY <3>1, <3>3, <3>4 DEF IsOnce
    <3>6. cur' \in Event
      BY <3>1, <3>3, <3>4, <3>5 DEF Event
    <3>7. QED
      BY <3>1, <3>3, <3>5, <3>6 DEF EventOK, QueuedTypes
  <2>3. rxLevel' \in [HeldKeys -> Levels \cup {NoLevel}]
    BY <1>1, HeldAssumption, RxAssumption DEF TypeOK, DispatchFrame, Note, FrameOK, HeldKeys
  <2>4. /\ rxSum' \in [Ids -> Int] /\ rxCmds' \in Nat
    BY <1>1, HeldAssumption, RxAssumption DEF TypeOK, DispatchFrame, Note, FrameOK
  <2>5. QED
    BY <1>1, <2>1, <2>2, <2>3, <2>4, <1>c DEF TypeOK, DispatchFrame, deckVars
<1>2. ASSUME NEW f \in Frames, ConsumeFrame(f) PROVE TypeOK'
  BY <1>2, <1>c DEF TypeOK, ConsumeFrame, deckVars, seenVars
<1>3. CASE Pump
  BY <1>3, <1>c DEF TypeOK, Pump, deckVars, seenVars
<1>4. CASE FlushHeldSend
  <2>1. PICK k \in HeldKeys :
          /\ queue' = Send([type |-> "held", id |-> k, val |-> slots[k].desired])
          /\ slots' = [slots EXCEPT ![k] = MarkScheduled(@, @.desired)]
          /\ cursor' = k + 1
    BY <1>4 DEF FlushHeldSend
  <2>2. slots[k].desired \in Levels /\ slots' \in [HeldKeys -> Slot]
    BY <2>1, <1>c DEF TypeOK, MarkScheduled, Slot
  <2>3. EventOK([type |-> "held", id |-> k, val |-> slots[k].desired])
    <3>0. k \in HeldKeys
      OBVIOUS
    <3>1. k \in Nat
      BY <3>0, <1>l DEF HeldKeys
    <3>a. slots[k].desired \in Int
      BY <2>2, <1>l
    <3>2. QED
      BY <2>2, <3>1, <3>a DEF EventOK, Event, QueuedTypes
  <2>4. QueueOK(queue')
    BY <1>4, <2>1, <2>3, SendType DEF FlushHeldSend
  <2>5. QED
    <3>1. cursor' \in Nat
      BY <2>1, <1>l DEF HeldKeys
    <3>2. QED
      BY <1>4, <2>2, <2>4, <3>1 DEF TypeOK, FlushHeldSend, deckVars, seenVars
<1>5. CASE FlushHeldFull
  BY <1>5, <1>c DEF TypeOK, FlushHeldFull, AfterFlush, deckVars, seenVars
<1>6. CASE FlushHeldDone
  BY <1>6, <1>c DEF TypeOK, FlushHeldDone, deckVars, seenVars
<1>7. CASE FlushDelta
  <2>1. PICK i \in Ids :
          /\ pendDelta[i].valid
          /\ queue' = Send([pendVal[i].ev EXCEPT !.val = Clamp(pendDelta[i].sum)])
          /\ pendDelta' = [pendDelta EXCEPT ![i] = DeltaSent(@)]
          /\ cursor' = i
    BY <1>7 DEF FlushDelta
  <2>2. EventOK(pendVal[i].ev) /\ pendVal[i].ev.type \in {"rel", "abs"}
        /\ pendDelta[i].sum \in Int
    BY <2>1, <1>c DEF TypeOK, PendOK
  <2>3. EventOK([pendVal[i].ev EXCEPT !.val = Clamp(pendDelta[i].sum)])
    BY <2>2, ClampLemma DEF EventOK, Event
  <2>4. QueueOK(queue')
    BY <1>7, <2>1, <2>3, SendType DEF FlushDelta
  <2>5. /\ DOMAIN pendVal' = Ids /\ DOMAIN pendDelta' = Ids
        /\ \A j \in Ids : PendOK(pendVal'[j], pendDelta'[j])
    BY <1>7, <2>1, <1>c DEF TypeOK, FlushDelta, PendOK, DeltaSent
  <2>6. QED
    <3>1. cursor' \in Nat
      BY <2>1, <1>c DEF Ids
    <3>2. QED
      BY <1>7, <2>4, <2>5, <3>1 DEF TypeOK, FlushDelta, deckVars, seenVars
<1>8. CASE FlushValue
  <2>1. PICK i \in Ids :
          /\ IsNextPending(i) /\ ~pendDelta[i].valid
          /\ queue' = Send(pendVal[i].ev)
          /\ pendVal' = [pendVal EXCEPT ![i] = [valid |-> FALSE, ev |-> @.ev]]
          /\ cursor' = i + 1
    BY <1>8 DEF FlushValue
  <2>2. EventOK(pendVal[i].ev) /\ pendVal[i].ev.type \in {"rel", "abs"}
    BY <2>1, <1>c DEF TypeOK, PendOK, IsNextPending, PendingFrom
  <2>4. QueueOK(queue')
    BY <1>8, <2>1, <2>2, SendType DEF FlushValue
  <2>5. /\ DOMAIN pendVal' = Ids /\ DOMAIN pendDelta' = Ids
        /\ \A j \in Ids : PendOK(pendVal'[j], pendDelta'[j])
    BY <1>8, <2>1, <1>c DEF TypeOK, FlushValue, PendOK
  <2>6. QED
    <3>1. cursor' \in Nat
      BY <2>1, <1>c DEF Ids
    <3>2. QED
      BY <1>8, <2>4, <2>5, <3>1 DEF TypeOK, FlushValue, deckVars, seenVars
<1>9. CASE FlushPendFull
  BY <1>9, <1>c DEF TypeOK, FlushPendFull, AfterFlush, deckVars, seenVars, Ids
<1>10. CASE FlushPendDone
  BY <1>10, <1>c DEF TypeOK, FlushPendDone, AfterFlush, deckVars, seenVars
<1>11. CASE EnqueuePing
  <2>1. EventOK(cur)
    BY <1>11, <1>c DEF TypeOK, EnqueuePing, NoEvent
  <2>2. QueueOK(queue')
    <3>1. CASE HasRoom
      BY <1>11, <2>1, <3>1, SendType DEF EnqueuePing
    <3>2. CASE ~HasRoom
      BY <1>11, <3>2 DEF EnqueuePing, TypeOK
    <3>3. QED
      BY <3>1, <3>2
  <2>3. QED
    BY <1>11, <2>2, <1>c DEF TypeOK, EnqueuePing, deckVars, seenVars
<1>12. CASE EnqueueContinuous
  <2>1. EventOK(cur) /\ cur.id \in Ids /\ cur \in Event /\ cur.val \in Int
    BY <1>12, <1>c DEF TypeOK, EnqueueContinuous, NoEvent, EventOK, Event
  <2>2. CASE HasRoom
    <3>1. QueueOK(queue')
      BY <1>12, <2>1, <2>2, SendType DEF EnqueueContinuous
    <3>2. QED
      BY <1>12, <2>2, <3>1, <1>c DEF TypeOK, EnqueueContinuous, deckVars, seenVars
  <2>3. CASE ~HasRoom
    <3>1. StorePending(cur) /\ queue' = queue
      BY <1>12, <2>3 DEF EnqueueContinuous
    <3>2. firstKey' \in 0 .. NIds /\ clipped' \in [Ids -> BOOLEAN]
      <4>1. firstKey' \in 0 .. NIds
        <5>1. firstKey \in 0 .. NIds
          BY <1>c DEF TypeOK
        <5>2. firstKey' = HintAfterStore(cur.id)
          BY <3>1 DEF StorePending
        <5>3. cur.id \in 0 .. NIds
          BY <2>1, RxAssumption DEF Ids
        <5> QED
          BY <5>1, <5>2, <5>3 DEF HintAfterStore
      <4>2. CASE clipped' = clipped
        BY <4>1, <4>2 DEF TypeOK
      <4>3. CASE cur.type = "rel"
        <5>1. PICK b \in BOOLEAN : clipped' = [clipped EXCEPT ![cur.id] = b]
          BY <3>1, <4>3, Zenon DEF StorePending
        <5>2. QED
          BY <4>1, <5>1, Zenon DEF TypeOK
      <4>4. QED
        BY <3>1, <4>2, <4>3 DEF StorePending
    <3>3. CASE cur.type = "rel"
      <4> DEFINE d == [valid |-> TRUE, sum |-> Clamp(pendDelta[cur.id].sum + cur.val)]
      <4>1. /\ pendDelta' = [pendDelta EXCEPT ![cur.id] = d]
            /\ pendVal' = [pendVal EXCEPT ![cur.id] = [valid |-> @.valid, ev |-> cur]]
        BY <3>1, <3>3 DEF StorePending
      <4>2. d \in [valid : BOOLEAN, sum : -DeltaMax - 1 .. DeltaMax]
        BY <2>1, ClampLemma, <1>c DEF TypeOK, PendOK
      <4>3. \A j \in Ids : PendOK(pendVal'[j], pendDelta'[j])
        BY <2>1, <3>3, <4>1, <4>2, <1>c DEF TypeOK, PendOK
      <4>4. QED
        BY <1>12, <3>1, <3>2, <4>1, <4>3, <1>c DEF TypeOK, EnqueueContinuous, deckVars, seenVars
    <3>4. CASE cur.type = "abs"
      <4>1. /\ pendDelta' = pendDelta
            /\ pendVal' = [pendVal EXCEPT ![cur.id] = [valid |-> TRUE, ev |-> cur]]
        BY <3>1, <3>4 DEF StorePending
      <4>2. \A j \in Ids : PendOK(pendVal'[j], pendDelta'[j])
        BY <2>1, <3>4, <4>1, <1>c DEF TypeOK, PendOK
      <4>3. QED
        BY <1>12, <3>1, <3>2, <4>1, <4>2, <1>c DEF TypeOK, EnqueueContinuous, deckVars, seenVars
    <3>5. QED
      BY <1>12, <3>3, <3>4 DEF EnqueueContinuous
  <2>4. QED
    BY <2>2, <2>3
<1>13. CASE EnqueueHeld
  <2>1. EventOK(cur) /\ cur.id \in HeldKeys /\ cur.val \in Levels
    BY <1>13, <1>c DEF TypeOK, EnqueueHeld, NoEvent, EventOK
  <2>2. slots' \in [HeldKeys -> Slot]
    BY <1>13, <2>1, <1>c DEF TypeOK, EnqueueHeld, Observe, NeedsSchedule, Slot
  <2>3. QED
    BY <1>13, <2>1, <2>2, <1>c DEF TypeOK, EnqueueHeld, deckVars, seenVars
<1>14. CASE EnqueueCommand
  BY <1>14, <1>c DEF TypeOK, EnqueueCommand, deckVars, seenVars
<1>15. CASE EdgeSent
  <2>1. EventOK(cur) /\ (cur.type = "held" => cur.id \in HeldKeys /\ cur.val \in Levels)
    BY <1>15, <1>c DEF TypeOK, EdgeSent, NoEvent, EventOK
  <2>2. slots' \in [HeldKeys -> Slot]
    BY <1>15, <2>1, <1>c DEF TypeOK, EdgeSent, MarkScheduled, Slot
  <2>3. QueueOK(queue')
    BY <1>15, <2>1, SendType DEF EdgeSent
  <2>4. QED
    BY <1>15, <2>2, <2>3, <1>c DEF TypeOK, EdgeSent, deckVars, seenVars
<1>16. CASE EdgeTimeout
  BY <1>16, <1>c DEF TypeOK, EdgeTimeout, DropsAfterTimeout, deckVars, seenVars
<1>17. CASE DeckTake
  <2> DEFINE e == Head(queue)
  <2>1. EventOK(e)
    BY <1>17, <1>c DEF TypeOK, DeckTake, QueueOK
  <2>2. QueueOK(queue')
    BY <1>17, <1>c DEF TypeOK, DeckTake, QueueOK
  <2>3. /\ deckLevel' \in [HeldKeys -> Levels \cup {NoLevel}]
        /\ deckSum' \in [Ids -> Int]
        /\ deckCmds' \in Nat /\ lastCmd' \in Int
    BY <1>17, <2>1, <1>c DEF TypeOK, DeckTake, EventOK, Event
  <2>4. QED
    BY <1>17, <2>1, <2>2, <2>3, <1>c DEF TypeOK, DeckTake, rxVars, seenVars
<1>18. CASE Post
  <2>1. EventOK([type |-> "post", id |-> 0, val |-> 0])
    BY DEF EventOK, Event
  <2>2. QueueOK(queue')
    BY <1>18, <2>1, SendType DEF Post
  <2>3. QED
    BY <1>18, <2>2, <1>c DEF TypeOK, Post, rxVars, deckVars, seenVars
<1>19. CASE UNCHANGED vars
  BY <1>19, <1>c DEF TypeOK, vars, rxVars, deckVars, seenVars
<1>20. QED
  BY <1>1, <1>2, <1>3, <1>4, <1>5, <1>6, <1>7, <1>8, <1>9, <1>10, <1>11, <1>12,
     <1>13, <1>14, <1>15, <1>16, <1>17, <1>18, <1>19 DEF Next, RxStep

\* The types of the receive task's state, the bound of the deck queue and the
\* int16_t range of every held-back sum hold in every reachable state.
THEOREM TypeCorrect == Spec => []TypeOK
<1>1. QED
  BY TypeInit, TypeStep, PTL DEF Spec

-----------------------------------------------------------------------------
(* Held levels.                                                             *)

\* The invariant holds when the link starts: nothing observed, nothing sent.
LEMMA HeldInit == Init => HeldInv
<1> SUFFICES ASSUME Init, NEW k \in HeldKeys PROVE HeldInv!(k)
  BY DEF HeldInv
<1>1. SlotOK(slots[k]) /\ Sent(slots[k]) = NoLevel /\ deckLevel[k] = NoLevel
  BY DEF Init, ResetSlots, SlotOK, Sent
<1>2. NewestIn(queue, deckLevel[k], k, NoLevel) /\ ChainIn(queue, deckLevel[k], k)
  BY <1>1 DEF Init, NewestIn, ChainIn
<1>3. rxLevel[k] = NoLevel /\ ~InFlight(k) /\ pc # "wait"
  BY DEF Init, InFlight
<1>4. QED
  BY <1>1, <1>2, <1>3

\* A step that leaves slots, queue, deck and received levels alone, and the
\* frame in hand either alone or consumed without being a held one.
LEMMA HeldFrame ==
  ASSUME HeldInv, UNCHANGED <<slots, queue, deckLevel, rxLevel>>,
         \A k \in HeldKeys : IsHeldOf(cur', k) => IsHeldOf(cur, k) /\ cur' = cur,
         \A k \in HeldKeys : InFlight(k)' <=> InFlight(k),
         pc' = "wait" => pc = "wait" \/ \A k \in HeldKeys : ~IsHeldOf(cur', k)
  PROVE  HeldInv'
<1> SUFFICES ASSUME NEW k \in HeldKeys PROVE HeldInv!(k)'
  BY DEF HeldInv
<1>1. HeldInv!(k)
  BY DEF HeldInv
<1>2. InFlight(k)' => IsHeldOf(cur', k)
  BY DEF InFlight
<1>3. QED
  BY <1>1, <1>2

\* A step that only sends an event which is no held level.
LEMMA HeldSendOther ==
  ASSUME TypeOK, HeldInv, NEW e, EventOK(e), e.type # "held", queue' = Send(e),
         UNCHANGED <<slots, deckLevel, rxLevel>>,
         \A k \in HeldKeys : IsHeldOf(cur', k) => IsHeldOf(cur, k) /\ cur' = cur,
         \A k \in HeldKeys : InFlight(k)' <=> InFlight(k),
         pc' = "wait" => pc = "wait"
  PROVE  HeldInv'
<1> SUFFICES ASSUME NEW k \in HeldKeys PROVE HeldInv!(k)'
  BY DEF HeldInv
<1>1. HeldInv!(k)
  BY DEF HeldInv
<1>2. /\ NewestIn(queue', deckLevel[k], k, Sent(slots[k]))
      /\ ChainIn(queue', deckLevel[k], k)
  BY <1>1, AppendOther DEF TypeOK, QueueOK, EventOK, Send, IsHeldOf
<1>3. InFlight(k)' => IsHeldOf(cur', k)
  BY DEF InFlight
<1>4. QED
  BY <1>1, <1>2, <1>3

\* Sending the desired level of a dirty slot and marking it scheduled.
LEMMA HeldSendLevel ==
  ASSUME TypeOK, HeldInv, NEW k \in HeldKeys, slots[k].observed, slots[k].dirty,
         NEW e, EventOK(e), IsHeldOf(e, k), e.val = slots[k].desired,
         queue' = Send(e),
         slots' = [slots EXCEPT ![k] = MarkScheduled(slots[k], e.val)],
         UNCHANGED <<deckLevel, rxLevel>>,
         \A j \in HeldKeys : IsHeldOf(cur', j) => IsHeldOf(cur, j) /\ cur' = cur,
         \A j \in HeldKeys : InFlight(j)' <=> InFlight(j),
         pc' # "wait"
  PROVE  HeldInv'
<1> SUFFICES ASSUME NEW j \in HeldKeys PROVE HeldInv!(j)'
  BY DEF HeldInv
<1>1. HeldInv!(j) /\ HeldInv!(k)
  BY DEF HeldInv
<1>2. slots[k] \in Slot /\ e.val \in Levels /\ queue \in Seq(Event) /\ e \in Event
  BY DEF TypeOK, EventOK, QueueOK, IsHeldOf
<1>3. InFlight(j)' => IsHeldOf(cur', j)
  BY DEF InFlight
<1>4. CASE j = k
  <2>1. slots'[j] = MarkScheduled(slots[k], e.val)
    BY <1>4 DEF TypeOK
  <2>2. /\ SlotOK(slots'[j]) /\ Sent(slots'[j]) = e.val
        /\ slots'[j].desired = slots[k].desired /\ slots'[j].observed
    BY <1>1, <1>2, <2>1, SlotLemma
  <2>3. Sent(slots[k]) # e.val
    BY <1>1, <1>2, HeldAssumption DEF SlotOK, NeedsSchedule, Sent, NoLevel
  <2>4. /\ NewestIn(queue', deckLevel[k], k, e.val)
        /\ ChainIn(queue', deckLevel[k], k)
    BY <1>1, <1>2, <2>3, AppendHeld DEF Send
  <2>5. QED
    BY <1>1, <1>3, <1>4, <2>2, <2>4
<1>5. CASE j # k
  <2>1. slots'[j] = slots[j] /\ ~IsHeldOf(e, j)
    BY <1>5 DEF TypeOK, IsHeldOf
  <2>2. /\ NewestIn(queue', deckLevel[j], j, Sent(slots[j]))
        /\ ChainIn(queue', deckLevel[j], j)
    BY <1>1, <1>2, <2>1, AppendOther DEF Send
  <2>3. QED
    BY <1>1, <1>3, <2>1, <2>2
<1>6. QED
  BY <1>4, <1>5

\* Every action keeps the relation between slots, queue and deck.
LEMMA HeldStep == TypeOK /\ HeldInv /\ [Next]_vars => HeldInv'
<1> SUFFICES ASSUME TypeOK, HeldInv, [Next]_vars PROVE HeldInv'
  OBVIOUS
<1>1. ASSUME NEW f \in Frames, DispatchFrame(f) PROVE HeldInv'
  <2> SUFFICES ASSUME NEW k \in HeldKeys PROVE HeldInv!(k)'
    BY DEF HeldInv
  <2>1. /\ HeldInv!(k) /\ cur = NoEvent /\ ~InFlight(k)
        /\ queue' = queue /\ deckLevel' = deckLevel
        /\ pc' = "flushHeld" /\ slots[k] \in Slot
    BY <1>1 DEF HeldInv, TypeOK, DispatchFrame, InFlight, deckVars
  <2>2. f = [type |-> f.type, id |-> f.id, val |-> f.val] /\ FrameOK(f)
    BY RxAssumption
  <2>3. cur'.type = f.type /\ cur'.id = f.id /\ (f.type = "held" => cur'.val = f.val)
    BY <1>1, <2>2 DEF DispatchFrame, IsOnce
  <2>4. InFlight(k)' <=> f.type = "held" /\ f.id = k
    BY <2>1, <2>3 DEF InFlight, IsHeldOf
  <2>5. CASE f.type = "abs" /\ f.id = ConnId /\ f.val = Disconnected
    <3>1. /\ slots'[k] = IF slots[k].observed
                         THEN Observe(slots[k], ReleaseOf[slots[k].desired]) ELSE slots[k]
          /\ rxLevel'[k] = IF rxLevel[k] = NoLevel THEN NoLevel ELSE ReleaseOf[rxLevel[k]]
      BY <1>1, <2>5 DEF DispatchFrame, ReleaseAll, Note
    <3>2. ReleaseOf[slots[k].desired] \in Levels
      BY <2>1, HeldAssumption DEF Slot
    <3>3. SlotOK(slots'[k]) /\ Sent(slots'[k]) = Sent(slots[k])
      BY <2>1, <3>1, <3>2, SlotLemma
    <3>4. rxLevel'[k] # NoLevel => slots'[k].observed /\ slots'[k].desired = rxLevel'[k]
      BY <2>1, <3>1, <3>2, SlotLemma
    <3>5. QED
      BY <2>1, <2>4, <2>5, <3>3, <3>4
  <2>6. CASE f.type = "held"
    <3>1. f.id \in HeldKeys /\ slots' = slots /\ rxLevel' = [rxLevel EXCEPT ![f.id] = f.val]
      BY <1>1, <2>2, <2>6 DEF DispatchFrame, Note, FrameOK
    <3>2. rxLevel'[k] = IF f.id = k THEN f.val ELSE rxLevel[k]
      BY <3>1 DEF TypeOK
    <3>3. QED
      BY <2>1, <2>3, <2>4, <2>6, <3>1, <3>2
  <2>7. CASE f.type # "held" /\ ~(f.type = "abs" /\ f.id = ConnId /\ f.val = Disconnected)
    <3>1. slots' = slots /\ rxLevel' = rxLevel
      BY <1>1, <2>7 DEF DispatchFrame, Note
    <3>2. QED
      BY <2>1, <2>4, <2>7, <3>1
  <2>8. QED
    BY <2>5, <2>6, <2>7
<1>2. ASSUME NEW f \in Frames, ConsumeFrame(f) PROVE HeldInv'
  BY <1>2, HeldFrame DEF ConsumeFrame, deckVars, seenVars, InFlight
<1>3. CASE Pump
  BY <1>3, HeldFrame DEF TypeOK, Pump, deckVars, seenVars, InFlight, NoEvent, IsHeldOf
<1>4. CASE FlushHeldSend
  <2>1. PICK k \in HeldKeys :
          /\ slots[k].observed /\ slots[k].dirty
          /\ queue' = Send([type |-> "held", id |-> k, val |-> slots[k].desired])
          /\ slots' = [slots EXCEPT ![k] = MarkScheduled(slots[k], slots[k].desired)]
    BY <1>4 DEF FlushHeldSend, IsNextDirty, DirtyFrom
  <2> DEFINE e == [type |-> "held", id |-> k, val |-> slots[k].desired]
  <2>2. NHeld \in Nat /\ (\A v \in Levels : v \in Nat) /\ slots[k].desired \in Levels
    BY HeldAssumption DEF TypeOK, Slot
  <2>3. k \in Nat
    BY <2>2 DEF HeldKeys
  <2>4. EventOK(e) /\ IsHeldOf(e, k)
    BY <2>2, <2>3 DEF EventOK, Event, QueuedTypes, IsHeldOf
  <2>5. \A j \in HeldKeys : InFlight(j)' <=> InFlight(j)
    BY <1>4 DEF FlushHeldSend, InFlight
  <2>6. QED
    BY <1>4, <2>1, <2>4, <2>5, HeldSendLevel DEF FlushHeldSend, deckVars, seenVars
<1>5. CASE FlushHeldFull
  BY <1>5, HeldFrame DEF FlushHeldFull, AfterFlush, deckVars, seenVars, InFlight,
     NoEvent, IsHeldOf
<1>6. CASE FlushHeldDone
  BY <1>6, HeldFrame DEF FlushHeldDone, deckVars, seenVars, InFlight
<1>7. CASE FlushDelta
  <2>1. PICK i \in Ids :
          /\ pendDelta[i].valid
          /\ queue' = Send([pendVal[i].ev EXCEPT !.val = Clamp(pendDelta[i].sum)])
    BY <1>7 DEF FlushDelta
  <2>2. EventOK(pendVal[i].ev) /\ pendVal[i].ev.type \in {"rel", "abs"}
        /\ Clamp(pendDelta[i].sum) \in Int
    BY <2>1, ClampLemma, RxAssumption DEF TypeOK, PendOK
  <2> DEFINE e == [pendVal[i].ev EXCEPT !.val = Clamp(pendDelta[i].sum)]
  <2>3. EventOK(e) /\ e.type # "held"
    BY <2>2 DEF EventOK, Event
  <2>4. QED
    BY <1>7, <2>1, <2>3, HeldSendOther DEF FlushDelta, deckVars, seenVars, InFlight
<1>8. CASE FlushValue
  <2>1. PICK i \in Ids : IsNextPending(i) /\ ~pendDelta[i].valid /\ queue' = Send(pendVal[i].ev)
    BY <1>8 DEF FlushValue
  <2>2. EventOK(pendVal[i].ev) /\ pendVal[i].ev.type # "held"
    BY <2>1 DEF TypeOK, PendOK, IsNextPending, PendingFrom
  <2>3. QED
    BY <1>8, <2>1, <2>2, HeldSendOther DEF FlushValue, deckVars, seenVars, InFlight
<1>9. CASE FlushPendFull
  BY <1>9, HeldFrame DEF FlushPendFull, AfterFlush, deckVars, seenVars, InFlight,
     NoEvent, IsHeldOf
<1>10. CASE FlushPendDone
  BY <1>10, HeldFrame DEF FlushPendDone, AfterFlush, deckVars, seenVars, InFlight,
     NoEvent, IsHeldOf
<1>11. CASE EnqueuePing
  <2>1. EventOK(cur) /\ cur.type # "held"
    BY <1>11 DEF TypeOK, EnqueuePing, NoEvent
  <2>2. \A k \in HeldKeys : ~IsHeldOf(cur', k) /\ (InFlight(k)' <=> InFlight(k))
    BY <1>11, <2>1 DEF EnqueuePing, InFlight, IsHeldOf, NoEvent
  <2>3. CASE HasRoom
    BY <1>11, <2>1, <2>2, <2>3, HeldSendOther DEF EnqueuePing, deckVars, seenVars
  <2>4. CASE ~HasRoom
    BY <1>11, <2>2, <2>4, HeldFrame DEF EnqueuePing, deckVars, seenVars
  <2>5. QED
    BY <2>3, <2>4
<1>12. CASE EnqueueContinuous
  <2>1. EventOK(cur) /\ cur.type # "held"
    BY <1>12 DEF TypeOK, EnqueueContinuous, NoEvent
  <2>2. \A k \in HeldKeys : ~IsHeldOf(cur', k) /\ (InFlight(k)' <=> InFlight(k))
    BY <1>12, <2>1 DEF EnqueueContinuous, InFlight, IsHeldOf, NoEvent
  <2>3. CASE HasRoom
    BY <1>12, <2>1, <2>2, <2>3, HeldSendOther DEF EnqueueContinuous, deckVars, seenVars
  <2>4. CASE ~HasRoom
    BY <1>12, <2>2, <2>4, HeldFrame DEF EnqueueContinuous, deckVars, seenVars
  <2>5. QED
    BY <2>3, <2>4
<1>13. CASE EnqueueHeld
  <2> SUFFICES ASSUME NEW k \in HeldKeys PROVE HeldInv!(k)'
    BY DEF HeldInv
  <2>1. HeldInv!(k) /\ UNCHANGED <<queue, deckLevel, rxLevel>> /\ slots[k] \in Slot
    BY <1>13 DEF HeldInv, EnqueueHeld, deckVars, seenVars, TypeOK
  <2>2. cur.id \in HeldKeys /\ cur.val \in Levels /\ cur.type = "held"
    BY <1>13 DEF TypeOK, EnqueueHeld, NoEvent, EventOK
  <2>3. ~InFlight(k)'
    BY <1>13 DEF EnqueueHeld, InFlight, NoEvent, IsHeldOf
  <2>4. CASE cur.id = k
    <3>1. slots'[k] = Observe(slots[k], cur.val) /\ rxLevel[k] = cur.val
      BY <1>13, <2>1, <2>4 DEF EnqueueHeld, TypeOK, InFlight, IsHeldOf
    <3>2. /\ SlotOK(slots'[k]) /\ Sent(slots'[k]) = Sent(slots[k])
          /\ slots'[k].observed /\ slots'[k].desired = cur.val
      BY <2>1, <2>2, <3>1, SlotLemma
    <3>3. pc' = "wait" => slots'[k].dirty /\ cur' = cur
      BY <1>13, <2>4 DEF EnqueueHeld
    <3>4. QED
      BY <2>1, <2>3, <3>1, <3>2, <3>3
  <2>5. CASE cur.id # k
    <3>1. slots'[k] = slots[k] /\ ~InFlight(k) /\ ~IsHeldOf(cur', k)
      BY <1>13, <2>5 DEF EnqueueHeld, TypeOK, InFlight, IsHeldOf, NoEvent
    <3>2. QED
      BY <2>1, <2>3, <3>1
  <2>6. QED
    BY <2>4, <2>5
<1>14. CASE EnqueueCommand
  BY <1>14, HeldFrame DEF EnqueueCommand, deckVars, seenVars, InFlight, IsHeldOf
<1>15. CASE EdgeSent
  <2>1. /\ \A j \in HeldKeys : ~IsHeldOf(cur', j) /\ ~InFlight(j) /\ ~InFlight(j)'
        /\ pc' # "wait"
    BY <1>15 DEF EdgeSent, InFlight, IsHeldOf, NoEvent
  <2>2. EventOK(cur)
    BY <1>15 DEF TypeOK, EdgeSent, NoEvent
  <2>3. CASE cur.type = "held"
    <3>1. /\ cur.id \in HeldKeys /\ IsHeldOf(cur, cur.id)
          /\ slots' = [slots EXCEPT ![cur.id] = MarkScheduled(slots[cur.id], cur.val)]
      BY <1>15, <2>2, <2>3 DEF EdgeSent, EventOK, IsHeldOf
    <3>2. /\ slots[cur.id].observed /\ slots[cur.id].dirty
          /\ slots[cur.id].desired = cur.val
      BY <1>15, <3>1 DEF HeldInv, EdgeSent
    <3>3. QED
      BY <1>15, <2>1, <2>2, <3>1, <3>2, HeldSendLevel DEF EdgeSent, deckVars, seenVars
  <2>4. CASE cur.type # "held"
    BY <1>15, <2>1, <2>2, <2>4, HeldSendOther DEF EdgeSent, deckVars, seenVars
  <2>5. QED
    BY <2>3, <2>4
<1>16. CASE EdgeTimeout
  BY <1>16, HeldFrame DEF EdgeTimeout, deckVars, seenVars, InFlight, NoEvent, IsHeldOf
<1>17. CASE DeckTake
  <2> SUFFICES ASSUME NEW k \in HeldKeys PROVE HeldInv!(k)'
    BY DEF HeldInv
  <2>1. /\ HeldInv!(k) /\ UNCHANGED <<slots, pc, cur, rxLevel>>
        /\ queue \in Seq(Event) /\ queue # <<>> /\ queue' = Tail(queue)
    BY <1>17 DEF HeldInv, DeckTake, rxVars, seenVars, TypeOK, QueueOK
  <2>2. deckLevel'[k] = IF IsHeldOf(Head(queue), k) THEN Head(queue).val ELSE deckLevel[k]
    BY <1>17 DEF DeckTake, TypeOK, IsHeldOf
  <2>3. /\ NewestIn(queue', deckLevel'[k], k, Sent(slots[k]))
        /\ ChainIn(queue', deckLevel'[k], k)
    BY <2>1, <2>2, TailLemma
  <2>4. InFlight(k)' <=> InFlight(k)
    BY <2>1 DEF InFlight
  <2>5. QED
    BY <2>1, <2>3, <2>4
<1>18. CASE Post
  <2>1. EventOK([type |-> "post", id |-> 0, val |-> 0])
    BY DEF EventOK, Event
  <2>2. QED
    BY <1>18, <2>1, HeldSendOther DEF Post, rxVars, deckVars, seenVars, InFlight
<1>19. CASE UNCHANGED vars
  BY <1>19, HeldFrame DEF vars, rxVars, deckVars, seenVars, InFlight
<1>20. QED
  BY <1>1, <1>2, <1>3, <1>4, <1>5, <1>6, <1>7, <1>8, <1>9, <1>10, <1>11, <1>12,
     <1>13, <1>14, <1>15, <1>16, <1>17, <1>18, <1>19 DEF Next, RxStep

\* The whole inductive invariant.
THEOREM Invariance == Spec => [](TypeOK /\ HeldInv)
<1>1. QED
  BY TypeInit, TypeStep, HeldInit, HeldStep, PTL DEF Spec

\* For every number of held controls and every queue length, the newest level
\* the link received is either the newest one bound for the deck or waits in a
\* dirty slot: pressure on the deck queue never erases a press or a release.
THEOREM HeldLevelsSurvive == Spec => []HeldNeverLost
<1>1. TypeOK /\ HeldInv => HeldNeverLost
  <2> SUFFICES ASSUME TypeOK, HeldInv, NEW k \in HeldKeys,
                      rxLevel[k] # NoLevel, ~InFlight(k)
               PROVE  /\ slots[k].observed /\ slots[k].desired = rxLevel[k]
                      /\ slots[k].dirty \/ NewestIn(queue, deckLevel[k], k, rxLevel[k])
    BY DEF HeldNeverLost
  <2>1. HeldInv!(k)
    BY DEF HeldInv
  <2>2. ~slots[k].dirty => Sent(slots[k]) = rxLevel[k]
    BY <2>1 DEF SlotOK, NeedsSchedule, Sent
  <2>3. QED
    BY <2>1, <2>2
<1>2. QED
  BY <1>1, Invariance, PTL

\* No snapshot replay, retry or flush ever makes the deck see one level of a
\* held control twice in a row.
THEOREM LevelsNeverRepeat == Spec => LevelsAlternate
<1>1. ASSUME TypeOK, HeldInv, [Next]_vars, queue # <<>>, Head(queue).type = "held"
      PROVE  deckLevel[Head(queue).id] # Head(queue).val
  <2>1. queue \in Seq(Event) /\ EventOK(Head(queue))
    BY <1>1 DEF TypeOK, QueueOK
  <2>2. Head(queue).id \in HeldKeys /\ IsHeldOf(Head(queue), Head(queue).id)
    BY <1>1, <2>1 DEF EventOK, IsHeldOf
  <2>3. ChainIn(queue, deckLevel[Head(queue).id], Head(queue).id)
    BY <1>1, <2>2 DEF HeldInv
  <2>4. QED
    BY <1>1, <2>1, <2>2, <2>3, TailLemma
<1>2. TypeOK /\ HeldInv /\ [Next]_vars =>
        [queue # <<>> /\ queue' = Tail(queue) /\ Head(queue).type = "held"
           => deckLevel[Head(queue).id] # Head(queue).val]_vars
  BY <1>1
<1>3. QED
  BY <1>2, Invariance, PTL DEF Spec, LevelsAlternate

-----------------------------------------------------------------------------
(* Sums over the deck queue.                                                *)

\* An event at the end of the queue adds itself to what the queue holds.
LEMMA AppendSums ==
  ASSUME NEW q \in Seq(Event), NEW e \in Event, NEW i
  PROVE  /\ OnceIn(q) \in Int /\ MovedIn(q, i) \in Int
         /\ OnceIn(Append(q, e)) = OnceIn(q) + (IF IsOnce(e) THEN 1 ELSE 0)
         /\ MovedIn(Append(q, e), i) =
              MovedIn(q, i) + (IF e.type = "rel" /\ e.id = i THEN e.val ELSE 0)
<1> DEFINE a == Append(q, e)
           oq == [n \in DOMAIN q |-> IF IsOnce(q[n]) THEN 1 ELSE 0]
           mq == [n \in DOMAIN q |-> IF q[n].type = "rel" /\ q[n].id = i
                                   THEN q[n].val ELSE 0]
           oa == [n \in DOMAIN a |-> IF IsOnce(a[n]) THEN 1 ELSE 0]
           ma == [n \in DOMAIN a |-> IF a[n].type = "rel" /\ a[n].id = i
                                   THEN a[n].val ELSE 0]
<1>1. /\ Len(q) \in Nat /\ Len(a) = Len(q) + 1 /\ a[Len(a)] = e
      /\ DOMAIN q = 1 .. Len(q) /\ DOMAIN a = 1 .. Len(a)
      /\ \A n \in 1 .. Len(q) : a[n] = q[n]
  OBVIOUS
<1>2. \A n \in 1 .. Len(q) : q[n].val \in Int
  <2>1. \A n \in 1 .. Len(q) : q[n] \in Event
    OBVIOUS
  <2> QED
    BY <2>1 DEF Event
<1> HIDE DEF a
<1>3. /\ \A n \in 1 .. Len(q) : oq[n] \in Int /\ oa[n] = oq[n]
      /\ oa[Len(a)] = IF IsOnce(e) THEN 1 ELSE 0
  BY <1>1
<1>4. /\ \A n \in 1 .. Len(q) : mq[n] \in Int /\ ma[n] = mq[n]
      /\ ma[Len(a)] = IF e.type = "rel" /\ e.id = i THEN e.val ELSE 0
  BY <1>1, <1>2
<1>5. /\ OnceIn(q) = SumUpTo(oq, Len(q)) /\ OnceIn(a) = SumUpTo(oa, Len(a))
      /\ MovedIn(q, i) = SumUpTo(mq, Len(q))
      /\ MovedIn(a, i) = SumUpTo(ma, Len(a))
  BY <1>1 DEF OnceIn, MovedIn
<1> HIDE DEF oq, oa, mq, ma
<1>6. OnceIn(q) \in Int /\ MovedIn(q, i) \in Int
  BY <1>1, <1>3, <1>4, <1>5, SumType
<1>a. Len(q) \in Nat /\ Len(a) = Len(q) + 1
  BY <1>1
<1>7. OnceIn(a) = OnceIn(q) + oa[Len(a)]
  <2>1. \A n \in 1 .. Len(q) : oa[n] = oq[n]
    BY <1>3
  <2>2. SumUpTo(oa, Len(q) + 1) = SumUpTo(oa, Len(q)) + oa[Len(q) + 1]
    BY <1>a, SumNext, Zenon
  <2>3. SumUpTo(oa, Len(q)) = SumUpTo(oq, Len(q))
    BY <1>a, <2>1, SumSame, Zenon
  <2> QED
    BY <1>a, <1>5, <2>2, <2>3
<1>8. MovedIn(a, i) = MovedIn(q, i) + ma[Len(a)]
  <2>1. \A n \in 1 .. Len(q) : ma[n] = mq[n]
    BY <1>4
  <2>2. SumUpTo(ma, Len(q) + 1) = SumUpTo(ma, Len(q)) + ma[Len(q) + 1]
    BY <1>a, SumNext, Zenon
  <2>3. SumUpTo(ma, Len(q)) = SumUpTo(mq, Len(q))
    BY <1>a, <2>1, SumSame, Zenon
  <2> QED
    BY <1>a, <1>5, <2>2, <2>3
<1> QED
  BY <1>3, <1>4, <1>6, <1>7, <1>8 DEF a

\* The event taken from the front leaves the rest.
LEMMA TailSums ==
  ASSUME NEW q \in Seq(Event), q # <<>>, NEW i
  PROVE  /\ OnceIn(q) = (IF IsOnce(Head(q)) THEN 1 ELSE 0) + OnceIn(Tail(q))
         /\ MovedIn(q, i) =
              (IF Head(q).type = "rel" /\ Head(q).id = i THEN Head(q).val ELSE 0)
                + MovedIn(Tail(q), i)
<1> DEFINE t == Tail(q)
           oq == [n \in DOMAIN q |-> IF IsOnce(q[n]) THEN 1 ELSE 0]
           mq == [n \in DOMAIN q |-> IF q[n].type = "rel" /\ q[n].id = i
                                   THEN q[n].val ELSE 0]
           ot == [n \in DOMAIN t |-> IF IsOnce(t[n]) THEN 1 ELSE 0]
           mt == [n \in DOMAIN t |-> IF t[n].type = "rel" /\ t[n].id = i
                                   THEN t[n].val ELSE 0]
<1>1. /\ Len(t) \in Nat /\ Len(q) = Len(t) + 1 /\ q[1] = Head(q)
      /\ DOMAIN t = 1 .. Len(t) /\ DOMAIN q = 1 .. Len(q)
      /\ \A n \in 1 .. Len(t) : t[n] = q[n + 1]
  OBVIOUS
<1>2. \A n \in 1 .. Len(q) : q[n].val \in Int
  <2>1. \A n \in 1 .. Len(q) : q[n] \in Event
    OBVIOUS
  <2> QED
    BY <2>1 DEF Event
<1> HIDE DEF t
<1>3. /\ \A n \in 1 .. Len(q) : oq[n] \in Int
      /\ \A n \in 1 .. Len(t) : ot[n] = oq[n + 1]
      /\ oq[1] = IF IsOnce(Head(q)) THEN 1 ELSE 0
  BY <1>1
<1>4. /\ \A n \in 1 .. Len(q) : mq[n] \in Int
      /\ \A n \in 1 .. Len(t) : mt[n] = mq[n + 1]
      /\ mq[1] = IF Head(q).type = "rel" /\ Head(q).id = i THEN Head(q).val ELSE 0
  BY <1>1, <1>2
<1>5. /\ OnceIn(q) = SumUpTo(oq, Len(q)) /\ OnceIn(t) = SumUpTo(ot, Len(t))
      /\ MovedIn(q, i) = SumUpTo(mq, Len(q))
      /\ MovedIn(t, i) = SumUpTo(mt, Len(t))
  BY <1>1 DEF OnceIn, MovedIn
<1> HIDE DEF oq, ot, mq, mt
<1>a. Len(t) \in Nat /\ Len(q) = Len(t) + 1
  BY <1>1
<1>6. OnceIn(q) = oq[1] + OnceIn(t)
  <2>1. ot = Rest(oq, Len(t))
    BY <1>1, <1>3 DEF ot, Rest
  <2>2. oq \in [1 .. Len(t) + 1 -> Int]
    BY <1>1, <1>3 DEF oq
  <2>3. SumUpTo(oq, Len(t) + 1) = oq[1] + SumUpTo(Rest(oq, Len(t)), Len(t))
    BY <1>a, <2>2, SumTail, Zenon
  <2> QED
    BY <1>a, <1>5, <2>1, <2>3
<1>7. MovedIn(q, i) = mq[1] + MovedIn(t, i)
  <2>1. mt = Rest(mq, Len(t))
    BY <1>1, <1>4 DEF mt, Rest
  <2>2. mq \in [1 .. Len(t) + 1 -> Int]
    BY <1>1, <1>4 DEF mq
  <2>3. SumUpTo(mq, Len(t) + 1) = mq[1] + SumUpTo(Rest(mq, Len(t)), Len(t))
    BY <1>a, <2>2, SumTail, Zenon
  <2> QED
    BY <1>a, <1>5, <2>1, <2>3
<1> QED
  BY <1>3, <1>4, <1>6, <1>7 DEF t

\* An empty queue holds nothing.
LEMMA EmptySums ==
  ASSUME NEW i
  PROVE  OnceIn(<<>>) = 0 /\ MovedIn(<<>>, i) = 0
<1>1. Len(<<>>) = 0
  OBVIOUS
<1> QED
  BY <1>1, SumEmpty DEF OnceIn, MovedIn

-----------------------------------------------------------------------------
(* Discrete commands and pings.                                             *)

\* Positions are handed out in the order of arrival, so none is above the
\* number received.
OnceInv ==
  /\ CommandsAccounted
  /\ lastCmd <= rxCmds
  /\ \A n \in DOMAIN queue : IsOnce(queue[n]) => queue[n].val <= rxCmds

\* Nothing has been received, queued or dropped at the start.
LEMMA OnceInit == Init => OnceInv
<1> SUFFICES ASSUME Init PROVE OnceInv
  OBVIOUS
<1>1. OnceIn(queue) = 0 /\ ~IsOnce(cur) /\ DOMAIN queue = {}
  BY EmptySums DEF Init, IsOnce, NoEvent
<1> QED
  BY <1>1 DEF Init, OnceInv, CommandsAccounted, CommandOrder

\* A step that neither queues nor takes an event, with the command in hand, if
\* there is one, left in hand.
LEMMA OnceFrame ==
  ASSUME OnceInv, UNCHANGED <<queue, deckCmds, lastCmd, rxCmds, drops>>,
         cur' = cur \/ (~IsOnce(cur) /\ ~IsOnce(cur'))
  PROVE  OnceInv'
<1>1. (IsOnce(cur') <=> IsOnce(cur)) /\ (IsOnce(cur) => cur' = cur)
  OBVIOUS
<1> HIDE DEF IsOnce
<1> QED
  BY <1>1 DEF OnceInv, CommandsAccounted, CommandOrder, OnceIn

\* What Send does to the queue.
LEMMA SendFacts ==
  ASSUME TypeOK, NEW e, EventOK(e)
  PROVE  /\ queue \in Seq(Event) /\ e \in Event
         /\ DOMAIN queue = 1 .. Len(queue) /\ DOMAIN Send(e) = 1 .. Len(queue) + 1
         /\ Len(queue) \in Nat /\ Send(e)[Len(queue) + 1] = e
         /\ \A n \in 1 .. Len(queue) : Send(e)[n] = queue[n]
<1>1. queue \in Seq(Event) /\ e \in Event
  BY DEF TypeOK, QueueOK, EventOK
<1> QED
  BY <1>1 DEF Send

\* A step that queues an event which may be merged or repeated.
LEMMA OnceSendOther ==
  ASSUME TypeOK, OnceInv, NEW e, EventOK(e), ~IsOnce(e), queue' = Send(e),
         UNCHANGED <<deckCmds, lastCmd, rxCmds, drops>>,
         cur' = cur \/ (~IsOnce(cur) /\ ~IsOnce(cur'))
  PROVE  OnceInv'
<1>1. (IsOnce(cur') <=> IsOnce(cur)) /\ (IsOnce(cur) => cur' = cur)
  OBVIOUS
<1>2. OnceIn(queue') = OnceIn(queue)
  BY AppendSums, SendFacts DEF Send
<1>3. \A n \in DOMAIN queue' : IsOnce(queue'[n]) => n \in DOMAIN queue /\ queue'[n] = queue[n]
  BY SendFacts
<1>4. CommandOrder'
  <2>1. CommandOrder
    BY DEF OnceInv, CommandsAccounted
  <2> HIDE DEF IsOnce
  <2> QED
    BY <1>1, <1>3, <2>1 DEF CommandOrder
<1> HIDE DEF IsOnce
<1> QED
  BY <1>1, <1>2, <1>3, <1>4 DEF OnceInv, CommandsAccounted

\* The command in hand is queued behind all the others.
LEMMA OnceSendCur ==
  ASSUME TypeOK, OnceInv, EventOK(cur), IsOnce(cur), queue' = Send(cur), ~IsOnce(cur'),
         UNCHANGED <<deckCmds, lastCmd, rxCmds, drops>>
  PROVE  OnceInv'
<1>1. OnceIn(queue') = OnceIn(queue) + 1 /\ OnceIn(queue) \in Int
  BY AppendSums, SendFacts DEF Send
<1>2. \A n \in DOMAIN queue' : \/ n \in DOMAIN queue /\ queue'[n] = queue[n]
                               \/ n = Len(queue) + 1 /\ queue'[n] = cur
  BY SendFacts
<1>3. CommandOrder /\ cur.val = rxCmds /\ rxCmds \in Nat /\ deckCmds \in Nat
      /\ drops = rxCmds - deckCmds - OnceIn(queue) - 1
  BY DEF OnceInv, CommandsAccounted, CommandOrder, TypeOK
<1>4. CommandOrder'
  <2>1. ASSUME NEW m \in DOMAIN queue', NEW n \in DOMAIN queue', m < n,
               IsOnce(queue'[m]), IsOnce(queue'[n])
        PROVE  queue'[m].val < queue'[n].val
    <3>1. m \in DOMAIN queue /\ queue'[m] = queue[m]
      BY <2>1, SendFacts
    <3>2. CASE n \in DOMAIN queue /\ queue'[n] = queue[n]
      BY <1>3, <2>1, <3>1, <3>2 DEF CommandOrder
    <3>3. CASE queue'[n] = cur
      BY <1>3, <2>1, <3>1, <3>3 DEF CommandOrder
    <3> QED
      BY <1>2, <3>2, <3>3
  <2>2. ASSUME NEW n \in DOMAIN queue', IsOnce(queue'[n]) PROVE lastCmd < queue'[n].val
    BY <1>2, <1>3, <2>2 DEF CommandOrder
  <2> HIDE DEF IsOnce
  <2> QED
    BY <2>1, <2>2 DEF CommandOrder
<1>5. \A n \in DOMAIN queue' : IsOnce(queue'[n]) => queue'[n].val <= rxCmds
  BY <1>2, <1>3 DEF OnceInv
<1>6. drops = rxCmds - deckCmds - OnceIn(queue') - 0
  BY <1>1, <1>3
<1> HIDE DEF IsOnce
<1> QED
  BY <1>4, <1>5, <1>6 DEF OnceInv, CommandsAccounted

\* The command in hand is dropped, and counted.
LEMMA OnceDrop ==
  ASSUME TypeOK, OnceInv, IsOnce(cur), drops' = drops + 1, ~IsOnce(cur'),
         UNCHANGED <<queue, deckCmds, lastCmd, rxCmds>>
  PROVE  OnceInv'
<1>1. OnceIn(queue) \in Int /\ rxCmds \in Nat /\ deckCmds \in Nat
  <2>1. queue \in Seq(Event) /\ EventOK(cur) /\ cur \in Event
    BY DEF TypeOK, QueueOK, NoEvent, IsOnce, EventOK
  <2> QED
    BY <2>1, AppendSums DEF TypeOK
<1> HIDE DEF IsOnce
<1> QED
  BY <1>1 DEF OnceInv, CommandsAccounted, CommandOrder

\* Every action keeps count and order of the discrete commands.
LEMMA OnceStep == TypeOK /\ OnceInv /\ [Next]_vars => OnceInv'
<1> SUFFICES ASSUME TypeOK, OnceInv, [Next]_vars PROVE OnceInv'
  OBVIOUS
<1>n. ~IsOnce(NoEvent)
  BY DEF IsOnce, NoEvent
<1>1. ASSUME NEW f \in Frames, DispatchFrame(f) PROVE OnceInv'
  <2>1. /\ cur = NoEvent /\ rxCmds \in Nat /\ deckCmds \in Nat
        /\ UNCHANGED <<queue, deckCmds, lastCmd, drops>>
        /\ rxCmds' = IF IsOnce(f) THEN rxCmds + 1 ELSE rxCmds
        /\ cur' = [f EXCEPT !.val = IF IsOnce(f) THEN rxCmds + 1 ELSE f.val]
    BY <1>1 DEF DispatchFrame, TypeOK, deckVars, Note
  <2>2. f = [type |-> f.type, id |-> f.id, val |-> f.val]
    BY RxAssumption
  <2>3. (IsOnce(cur') <=> IsOnce(f)) /\ (IsOnce(f) => cur'.val = rxCmds + 1)
    BY <2>1, <2>2 DEF IsOnce
  <2>4. CASE ~IsOnce(f)
    BY <1>n, <2>1, <2>3, <2>4, OnceFrame
  <2>5. CASE IsOnce(f)
    <3>1. queue \in Seq(Event) /\ lastCmd \in Int
      BY DEF TypeOK, QueueOK
    <3>2. \A n \in DOMAIN queue : queue[n].val \in Int
      <4>1. \A n \in DOMAIN queue : queue[n] \in Event
        BY <3>1
      <4> QED
        BY <4>1 DEF Event
    <3>3. OnceIn(queue) \in Int
      <4>1. [type |-> "post", id |-> 0, val |-> 0] \in Event
        BY DEF Event
      <4> QED
        BY <3>1, <4>1, AppendSums
    <3>4. CommandOrder /\ lastCmd <= rxCmds
      BY DEF OnceInv, CommandsAccounted
    <3>5. drops = rxCmds - deckCmds - OnceIn(queue)
      <4>1. drops = rxCmds - deckCmds - OnceIn(queue) - 0
        BY <1>n, <2>1 DEF OnceInv, CommandsAccounted
      <4> QED
        BY <2>1, <3>3, <4>1
    <3>6. \A n \in DOMAIN queue : IsOnce(queue[n]) => queue[n].val <= rxCmds
      BY DEF OnceInv
    <3>7. CommandOrder'
      BY <2>1, <2>3, <2>5, <3>1, <3>2, <3>4, <3>6 DEF CommandOrder
    <3>8. lastCmd <= rxCmds + 1 /\ rxCmds' = rxCmds + 1
      BY <2>1, <2>5, <3>1, <3>4
    <3>9. \A n \in DOMAIN queue : IsOnce(queue[n]) => queue[n].val <= rxCmds + 1
      BY <2>1, <3>2, <3>6
    <3>10. drops = rxCmds + 1 - deckCmds - OnceIn(queue) - 1
      BY <2>1, <3>3, <3>5
    <3>11. IsOnce(cur')
      BY <2>3, <2>5
    <3>12. drops' = rxCmds' - deckCmds' - OnceIn(queue') - 1
      BY <2>1, <3>3, <3>8, <3>10
    <3>13. CommandsAccounted'
      BY <3>7, <3>11, <3>12 DEF CommandsAccounted
    <3> HIDE DEF IsOnce
    <3> QED
      BY <2>1, <3>8, <3>9, <3>13 DEF OnceInv
  <2> QED
    BY <2>4, <2>5
<1>2. ASSUME NEW f \in Frames, ConsumeFrame(f) PROVE OnceInv'
  BY <1>2, OnceFrame DEF ConsumeFrame, deckVars, seenVars
<1>3. CASE Pump
  <2>1. cur = NoEvent
    BY <1>3 DEF Pump, TypeOK
  <2> QED
    BY <1>3, <1>n, <2>1, OnceFrame DEF Pump, deckVars, seenVars
<1>4. CASE FlushHeldSend
  <2>1. PICK k \in HeldKeys : queue' = Send([type |-> "held", id |-> k, val |-> slots[k].desired])
    BY <1>4 DEF FlushHeldSend
  <2> DEFINE e == [type |-> "held", id |-> k, val |-> slots[k].desired]
  <2>2. slots[k].desired \in Levels /\ k \in Nat /\ \A v \in Levels : v \in Int
    BY HeldAssumption DEF TypeOK, Slot, HeldKeys
  <2>3. EventOK(e) /\ ~IsOnce(e)
    BY <2>2 DEF EventOK, Event, QueuedTypes, IsOnce
  <2> HIDE DEF e
  <2>4. queue' = Send(e)
    BY <2>1 DEF e
  <2> QED
    BY <1>4, <2>3, <2>4, OnceSendOther DEF FlushHeldSend, deckVars, seenVars
<1>5. CASE FlushHeldFull
  BY <1>5, OnceFrame DEF FlushHeldFull, deckVars, seenVars
<1>6. CASE FlushHeldDone
  BY <1>6, OnceFrame DEF FlushHeldDone, deckVars, seenVars
<1>7. CASE FlushDelta
  <2>1. PICK i \in Ids :
          /\ pendDelta[i].valid
          /\ queue' = Send([pendVal[i].ev EXCEPT !.val = Clamp(pendDelta[i].sum)])
    BY <1>7 DEF FlushDelta
  <2> DEFINE e == [pendVal[i].ev EXCEPT !.val = Clamp(pendDelta[i].sum)]
  <2>2. EventOK(pendVal[i].ev) /\ pendVal[i].ev.type \in {"rel", "abs"}
        /\ Clamp(pendDelta[i].sum) \in Int
    BY <2>1, ClampLemma, RxAssumption DEF TypeOK, PendOK
  <2>3. EventOK(e) /\ ~IsOnce(e)
    BY <2>2 DEF EventOK, Event, IsOnce
  <2> HIDE DEF e
  <2>4. queue' = Send(e)
    BY <2>1 DEF e
  <2> QED
    BY <1>7, <2>3, <2>4, OnceSendOther DEF FlushDelta, deckVars, seenVars
<1>8. CASE FlushValue
  <2>1. PICK i \in Ids : IsNextPending(i) /\ ~pendDelta[i].valid /\ queue' = Send(pendVal[i].ev)
    BY <1>8 DEF FlushValue
  <2>2. EventOK(pendVal[i].ev) /\ ~IsOnce(pendVal[i].ev)
    BY <2>1 DEF TypeOK, PendOK, IsNextPending, PendingFrom, IsOnce
  <2> QED
    BY <1>8, <2>1, <2>2, OnceSendOther DEF FlushValue, deckVars, seenVars
<1>9. CASE FlushPendFull
  BY <1>9, OnceFrame DEF FlushPendFull, deckVars, seenVars
<1>10. CASE FlushPendDone
  BY <1>10, OnceFrame DEF FlushPendDone, deckVars, seenVars
<1>11. CASE EnqueuePing
  <2>1. EventOK(cur) /\ IsOnce(cur) /\ cur' = NoEvent
    BY <1>11 DEF TypeOK, EnqueuePing, NoEvent, IsOnce
  <2>2. CASE HasRoom
    BY <1>11, <1>n, <2>1, <2>2, OnceSendCur DEF EnqueuePing, deckVars, seenVars
  <2>3. CASE ~HasRoom
    BY <1>11, <1>n, <2>1, <2>3, OnceDrop DEF EnqueuePing, deckVars, seenVars
  <2> QED
    BY <2>2, <2>3
<1>12. CASE EnqueueContinuous
  <2>1. EventOK(cur) /\ ~IsOnce(cur) /\ cur' = NoEvent
    BY <1>12 DEF TypeOK, EnqueueContinuous, NoEvent, IsOnce
  <2>2. CASE HasRoom
    BY <1>12, <1>n, <2>1, <2>2, OnceSendOther DEF EnqueueContinuous, deckVars, seenVars
  <2>3. CASE ~HasRoom
    BY <1>12, <1>n, <2>1, <2>3, OnceFrame DEF EnqueueContinuous, deckVars, seenVars
  <2> QED
    BY <2>2, <2>3
<1>13. CASE EnqueueHeld
  <2>1. ~IsOnce(cur) /\ (cur' = cur \/ cur' = NoEvent)
    BY <1>13 DEF EnqueueHeld, IsOnce
  <2> QED
    BY <1>13, <1>n, <2>1, OnceFrame DEF EnqueueHeld, deckVars, seenVars
<1>14. CASE EnqueueCommand
  BY <1>14, OnceFrame DEF EnqueueCommand, deckVars, seenVars
<1>15. CASE EdgeSent
  <2>1. EventOK(cur) /\ queue' = Send(cur) /\ cur' = NoEvent
    BY <1>15 DEF TypeOK, EdgeSent, NoEvent
  <2>2. CASE IsOnce(cur)
    BY <1>15, <1>n, <2>1, <2>2, OnceSendCur DEF EdgeSent, deckVars, seenVars
  <2>3. CASE ~IsOnce(cur)
    BY <1>15, <1>n, <2>1, <2>3, OnceSendOther DEF EdgeSent, deckVars, seenVars
  <2> QED
    BY <2>2, <2>3
<1>16. CASE EdgeTimeout
  <2>1. cur.type \in {"held", "cmd"} /\ cur' = NoEvent
    BY <1>16 DEF TypeOK, EdgeTimeout
  <2>2. CASE cur.type = "held"
    <3>1. ~IsOnce(cur) /\ drops' = drops
      BY <1>16, <2>2 DEF EdgeTimeout, DropsAfterTimeout, IsOnce
    <3> QED
      BY <1>16, <1>n, <2>1, <3>1, OnceFrame DEF EdgeTimeout, deckVars, seenVars
  <2>3. CASE cur.type = "cmd"
    <3>1. IsOnce(cur) /\ drops' = drops + 1
      BY <1>16, <2>3 DEF EdgeTimeout, DropsAfterTimeout, IsOnce
    <3> QED
      BY <1>16, <1>n, <2>1, <3>1, OnceDrop DEF EdgeTimeout, deckVars, seenVars
  <2> QED
    BY <2>1, <2>2, <2>3
<1>17. CASE DeckTake
  <2> DEFINE e == Head(queue)
             t == Tail(queue)
  <2>1. /\ queue \in Seq(Event) /\ queue # <<>> /\ queue' = t
        /\ UNCHANGED <<cur, rxCmds, drops>>
        /\ deckCmds' = IF IsOnce(e) THEN deckCmds + 1 ELSE deckCmds
        /\ lastCmd' = IF IsOnce(e) THEN e.val ELSE lastCmd
        /\ deckCmds \in Nat /\ rxCmds \in Nat /\ lastCmd \in Int
    BY <1>17 DEF DeckTake, rxVars, seenVars, TypeOK, QueueOK
  <2>2. /\ t \in Seq(Event) /\ queue[1] = e /\ 1 \in DOMAIN queue
        /\ \A n \in DOMAIN t : n + 1 \in DOMAIN queue /\ n + 1 > 1 /\ t[n] = queue[n + 1]
        /\ \A m, n \in DOMAIN t : m < n => m + 1 < n + 1
    BY <2>1
  <2>3. OnceIn(queue) = (IF IsOnce(e) THEN 1 ELSE 0) + OnceIn(t)
    BY <2>1, TailSums
  <2>4. OnceIn(t) \in Int
    <3>1. [type |-> "post", id |-> 0, val |-> 0] \in Event
      BY DEF Event
    <3> QED
      BY <2>2, <3>1, AppendSums
  <2>5. /\ CommandOrder /\ lastCmd <= rxCmds
        /\ drops = rxCmds - deckCmds - OnceIn(queue) - (IF IsOnce(cur) THEN 1 ELSE 0)
        /\ \A n \in DOMAIN queue : IsOnce(queue[n]) => queue[n].val <= rxCmds
    BY DEF OnceInv, CommandsAccounted
  <2> HIDE DEF e, t
  <2>6. CommandOrder'
    <3>1. ASSUME NEW m \in DOMAIN t, NEW n \in DOMAIN t, m < n, IsOnce(t[m]), IsOnce(t[n])
          PROVE  t[m].val < t[n].val
      BY <2>2, <2>5, <3>1 DEF CommandOrder
    <3>2. ASSUME NEW n \in DOMAIN t, IsOnce(t[n]) PROVE lastCmd' < t[n].val
      BY <2>1, <2>2, <2>5, <3>2 DEF CommandOrder
    <3>3. IsOnce(cur) => lastCmd' < cur.val /\ cur.val = rxCmds
      BY <2>1, <2>2, <2>5 DEF CommandOrder
    <3>4. IsOnce(cur) => \A n \in DOMAIN t : IsOnce(t[n]) => t[n].val < cur.val
      BY <2>2, <2>5 DEF CommandOrder
    <3> HIDE DEF IsOnce
    <3> QED
      BY <2>1, <3>1, <3>2, <3>3, <3>4 DEF CommandOrder
  <2>7. lastCmd' <= rxCmds /\ \A n \in DOMAIN t : IsOnce(t[n]) => t[n].val <= rxCmds
    BY <2>1, <2>2, <2>5
  <2>8. drops = rxCmds - deckCmds' - OnceIn(t) - (IF IsOnce(cur) THEN 1 ELSE 0)
    BY <2>1, <2>3, <2>4, <2>5
  <2> HIDE DEF IsOnce
  <2> QED
    BY <2>1, <2>6, <2>7, <2>8 DEF OnceInv, CommandsAccounted
<1>18. CASE Post
  <2> DEFINE e == [type |-> "post", id |-> 0, val |-> 0]
  <2>1. EventOK(e) /\ ~IsOnce(e) /\ queue' = Send(e)
    BY <1>18 DEF EventOK, Event, IsOnce, Post
  <2> HIDE DEF e
  <2> QED
    BY <1>18, <2>1, OnceSendOther DEF Post, rxVars, deckVars, seenVars
<1>19. CASE UNCHANGED vars
  BY <1>19, OnceFrame DEF vars, rxVars, deckVars, seenVars
<1>20. QED
  BY <1>1, <1>2, <1>3, <1>4, <1>5, <1>6, <1>7, <1>8, <1>9, <1>10, <1>11, <1>12,
     <1>13, <1>14, <1>15, <1>16, <1>17, <1>18, <1>19 DEF Next, RxStep

\* However long the deck queue stays full, every discrete command and ping the
\* link received is executed once and in order, is on its way, or was counted
\* as dropped.
THEOREM CommandsAreAccounted == Spec => []CommandsAccounted
<1>1. OnceInv => CommandsAccounted
  BY DEF OnceInv
<1>2. QED
  BY <1>1, TypeInit, TypeStep, OnceInit, OnceStep, PTL DEF Spec

-----------------------------------------------------------------------------
(* Relative movement.                                                       *)

\* Some frame of type t carries id i.
Carries(t, i) == \E f \in Frames : f.type = t /\ f.id = i

\* What waits in a pending slot is what the slot says: an accumulated sum
\* belongs to a movement of that id, a pending value is a position of that id,
\* and a slot with no sum holds none.
HeldBackOK(i) ==
  /\ ~pendDelta[i].valid => pendDelta[i].sum = 0
  /\ pendDelta[i].valid => pendVal[i].ev.type = "rel"
  /\ pendVal[i].valid => pendVal[i].ev.type = "abs"
  /\ pendVal[i].ev.type \in {"rel", "abs"} =>
       pendVal[i].ev.id = i /\ Carries(pendVal[i].ev.type, i)

DeltaInv ==
  /\ \A i \in Ids : HeldBackOK(i)
  /\ cur.type \in {"rel", "abs"} => Carries(cur.type, cur.id)
  /\ DeltaConserved

\* Nothing has moved at the start.
LEMMA DeltaInit == Init => DeltaInv
<1> SUFFICES ASSUME Init PROVE DeltaInv
  OBVIOUS
<1>1. /\ queue = <<>> /\ cur.type = "none"
      /\ \A i \in Ids : /\ ~pendDelta[i].valid /\ pendDelta[i].sum = 0
                        /\ ~pendVal[i].valid /\ pendVal[i].ev.type = "none"
                        /\ rxSum[i] = 0 /\ deckSum[i] = 0
  BY DEF Init, NoEvent
<1>2. \A i \in Ids : HeldBackOK(i)
  BY <1>1 DEF HeldBackOK
<1>3. DeltaConserved
  BY <1>1, EmptySums DEF DeltaConserved, InHand
<1> QED
  BY <1>1, <1>2, <1>3 DEF DeltaInv

\* The invariant for one control, with the types its terms have.
LEMMA DeltaTypes ==
  ASSUME TypeOK, DeltaInv, NEW i \in Ids
  PROVE  /\ rxSum[i] \in Int /\ deckSum[i] \in Int /\ MovedIn(queue, i) \in Int
         /\ pendDelta[i].sum \in -DeltaMax - 1 .. DeltaMax /\ pendDelta[i].sum \in Int
         /\ InHand(i) \in Int
         /\ (~clipped[i] => rxSum[i] = deckSum[i] + MovedIn(queue, i) + pendDelta[i].sum
                                         + InHand(i))
<1>1. rxSum[i] \in Int /\ deckSum[i] \in Int
  BY DEF TypeOK
<1>2. MovedIn(queue, i) \in Int
  <2>1. [type |-> "post", id |-> 0, val |-> 0] \in Event /\ queue \in Seq(Event)
    BY DEF Event, TypeOK, QueueOK
  <2> QED
    BY <2>1, AppendSums
<1>3. pendDelta[i].sum \in -DeltaMax - 1 .. DeltaMax
  BY DEF TypeOK, PendOK
<1>4. DeltaMax \in Nat
  BY RxAssumption
<1>5. InHand(i) \in Int
  BY DEF InHand, TypeOK, EventOK, Event, NoEvent
<1>6. ~clipped[i] => rxSum[i] = deckSum[i] + MovedIn(queue, i) + pendDelta[i].sum + InHand(i)
  BY DEF DeltaInv, DeltaConserved
<1> QED
  BY <1>1, <1>2, <1>3, <1>4, <1>5, <1>6

\* A step that moves nothing: no movement is queued, taken, held back or put in
\* hand.
LEMMA DeltaFrame ==
  ASSUME DeltaInv, UNCHANGED <<pendVal, pendDelta, rxSum, deckSum, clipped>>,
         \A i \in Ids : MovedIn(queue', i) = MovedIn(queue, i),
         cur' = cur \/ (cur.type # "rel" /\ cur' = NoEvent)
  PROVE  DeltaInv'
<1>1. \A i \in Ids : InHand(i)' = InHand(i)
  BY DEF InHand, NoEvent
<1>2. DeltaConserved'
  BY <1>1 DEF DeltaInv, DeltaConserved
<1>3. \A i \in Ids : HeldBackOK(i)'
  BY DEF DeltaInv, HeldBackOK
<1>4. (cur'.type \in {"rel", "abs"} => Carries(cur'.type, cur'.id))
  BY DEF DeltaInv, NoEvent
<1> QED
  BY <1>2, <1>3, <1>4 DEF DeltaInv

\* Queueing anything else moves nothing.
LEMMA SendUnmoved ==
  ASSUME TypeOK, NEW e, EventOK(e), e.type # "rel", NEW i \in Ids
  PROVE  MovedIn(Send(e), i) = MovedIn(queue, i)
BY SendFacts, AppendSums DEF Send

\* Every action conserves movement.
LEMMA DeltaStep == TypeOK /\ DeltaInv /\ [Next]_vars => DeltaInv'
<1> SUFFICES ASSUME TypeOK, DeltaInv, [Next]_vars PROVE DeltaInv'
  OBVIOUS
<1>1. ASSUME NEW f \in Frames, DispatchFrame(f) PROVE DeltaInv'
  <2>1. /\ cur = NoEvent
        /\ UNCHANGED <<pendVal, pendDelta, queue, deckSum, clipped>>
        /\ rxSum' = IF f.type = "rel" THEN [rxSum EXCEPT ![f.id] = @ + f.val] ELSE rxSum
        /\ cur' = [f EXCEPT !.val = IF IsOnce(f) THEN rxCmds + 1 ELSE f.val]
    BY <1>1 DEF DispatchFrame, TypeOK, deckVars, Note
  <2>2. f = [type |-> f.type, id |-> f.id, val |-> f.val] /\ FrameOK(f)
    BY RxAssumption
  <2>3. cur'.type = f.type /\ cur'.id = f.id /\ (f.type = "rel" => cur'.val = f.val)
    BY <2>1, <2>2 DEF IsOnce
  <2>4. Carries(cur'.type, cur'.id)
    BY <2>3 DEF Carries
  <2>5. \A i \in Ids : HeldBackOK(i)'
    BY <2>1 DEF DeltaInv, HeldBackOK
  <2>6. ASSUME NEW i \in Ids, ~clipped'[i]
        PROVE  rxSum'[i] = deckSum'[i] + MovedIn(queue', i) + pendDelta'[i].sum + InHand(i)'
    <3>1. InHand(i) = 0 /\ InHand(i)' = IF f.type = "rel" /\ f.id = i THEN f.val ELSE 0
      BY <2>1, <2>3 DEF InHand, NoEvent
    <3>2. rxSum'[i] = rxSum[i] + (IF f.type = "rel" /\ f.id = i THEN f.val ELSE 0)
      BY <2>1, DeltaTypes DEF TypeOK
    <3>3. f.type = "rel" => f.val \in Int
      BY <2>2, RxAssumption DEF FrameOK
    <3>4. rxSum[i] = deckSum[i] + MovedIn(queue, i) + pendDelta[i].sum + InHand(i)
      BY <2>1, <2>6, DeltaTypes
    <3>5. rxSum[i] \in Int /\ deckSum[i] \in Int /\ MovedIn(queue, i) \in Int
          /\ pendDelta[i].sum \in Int
      BY DeltaTypes
    <3>6. CASE f.type = "rel" /\ f.id = i
      BY <2>1, <3>1, <3>2, <3>3, <3>4, <3>5, <3>6
    <3>7. CASE ~(f.type = "rel" /\ f.id = i)
      BY <2>1, <3>1, <3>2, <3>4, <3>5, <3>7
    <3> QED
      BY <3>6, <3>7
  <2> QED
    BY <2>4, <2>5, <2>6 DEF DeltaInv, DeltaConserved
<1>2. ASSUME NEW f \in Frames, ConsumeFrame(f) PROVE DeltaInv'
  BY <1>2, DeltaFrame DEF ConsumeFrame, deckVars, seenVars
<1>3. CASE Pump
  BY <1>3, DeltaFrame DEF TypeOK, Pump, deckVars, seenVars, NoEvent
<1>4. CASE FlushHeldSend
  <2>1. PICK k \in HeldKeys : queue' = Send([type |-> "held", id |-> k, val |-> slots[k].desired])
    BY <1>4 DEF FlushHeldSend
  <2> DEFINE e == [type |-> "held", id |-> k, val |-> slots[k].desired]
  <2>2. slots[k].desired \in Levels /\ k \in Nat /\ \A v \in Levels : v \in Int
    BY HeldAssumption DEF TypeOK, Slot, HeldKeys
  <2>3. EventOK(e) /\ e.type # "rel"
    BY <2>2 DEF EventOK, Event, QueuedTypes
  <2> HIDE DEF e
  <2>4. \A i \in Ids : MovedIn(queue', i) = MovedIn(queue, i)
    BY <2>1, <2>3, SendUnmoved DEF e
  <2> QED
    BY <1>4, <2>4, DeltaFrame DEF FlushHeldSend, deckVars, seenVars
<1>5. CASE FlushHeldFull
  BY <1>5, DeltaFrame DEF FlushHeldFull, deckVars, seenVars
<1>6. CASE FlushHeldDone
  BY <1>6, DeltaFrame DEF FlushHeldDone, deckVars, seenVars
<1>7. CASE FlushDelta
  <2>1. PICK k \in Ids :
          /\ pendDelta[k].valid
          /\ queue' = Send([pendVal[k].ev EXCEPT !.val = Clamp(pendDelta[k].sum)])
          /\ pendDelta' = [pendDelta EXCEPT ![k] = DeltaSent(@)]
    BY <1>7 DEF FlushDelta
  <2> DEFINE e == [pendVal[k].ev EXCEPT !.val = Clamp(pendDelta[k].sum)]
  <2>2. Clamp(pendDelta[k].sum) = pendDelta[k].sum /\ pendDelta[k].sum \in Int
    BY DeltaTypes, RxAssumption DEF Clamp
  <2>3. /\ EventOK(pendVal[k].ev) /\ pendVal[k].ev.type = "rel" /\ pendVal[k].ev.id = k
    BY <2>1 DEF TypeOK, PendOK, DeltaInv, HeldBackOK
  <2>4. EventOK(e) /\ e.type = "rel" /\ e.id = k /\ e.val = pendDelta[k].sum
    BY <2>2, <2>3 DEF EventOK, Event
  <2> HIDE DEF e
  <2>5. queue' = Send(e)
    BY <2>1 DEF e
  <2>6. UNCHANGED <<pendVal, cur, rxSum, deckSum, clipped>>
    BY <1>7 DEF FlushDelta, deckVars, seenVars
  <2>7. \A i \in Ids : pendDelta'[i] = IF i = k THEN [valid |-> FALSE, sum |-> 0]
                                       ELSE pendDelta[i]
    BY <2>1 DEF TypeOK, DeltaSent
  <2>8. ASSUME NEW i \in Ids, ~clipped'[i]
        PROVE  rxSum'[i] = deckSum'[i] + MovedIn(queue', i) + pendDelta'[i].sum + InHand(i)'
    <3>1. MovedIn(queue', i) = MovedIn(queue, i) + (IF e.type = "rel" /\ e.id = i THEN e.val ELSE 0)
      BY <2>4, <2>5, SendFacts, AppendSums DEF Send
    <3>2. InHand(i)' = InHand(i)
      BY <2>6 DEF InHand
    <3>3. rxSum[i] = deckSum[i] + MovedIn(queue, i) + pendDelta[i].sum + InHand(i)
      BY <2>6, <2>8, DeltaTypes
    <3>4. deckSum[i] \in Int /\ MovedIn(queue, i) \in Int /\ pendDelta[i].sum \in Int
          /\ InHand(i) \in Int
      BY DeltaTypes
    <3>5. CASE i = k
      <4>1. MovedIn(queue', i) = MovedIn(queue, i) + pendDelta[i].sum /\ pendDelta'[i].sum = 0
        BY <2>4, <2>7, <3>1, <3>5
      <4> QED
        BY <2>6, <3>2, <3>3, <3>4, <4>1
    <3>6. CASE i # k
      <4>1. MovedIn(queue', i) = MovedIn(queue, i) /\ pendDelta'[i] = pendDelta[i]
        BY <2>4, <2>7, <3>1, <3>4, <3>6
      <4> QED
        BY <2>6, <3>2, <3>3, <4>1
    <3> QED
      BY <3>5, <3>6
  <2>9. \A i \in Ids : HeldBackOK(i)'
    BY <2>6, <2>7 DEF DeltaInv, HeldBackOK
  <2> QED
    BY <2>6, <2>8, <2>9 DEF DeltaInv, DeltaConserved
<1>8. CASE FlushValue
  <2>1. PICK k \in Ids :
          /\ IsNextPending(k) /\ ~pendDelta[k].valid /\ queue' = Send(pendVal[k].ev)
          /\ pendVal' = [pendVal EXCEPT ![k] = [valid |-> FALSE, ev |-> @.ev]]
    BY <1>8 DEF FlushValue
  <2>2. EventOK(pendVal[k].ev) /\ pendVal[k].ev.type = "abs"
    BY <2>1 DEF TypeOK, PendOK, IsNextPending, PendingFrom, DeltaInv, HeldBackOK
  <2>3. UNCHANGED <<pendDelta, cur, rxSum, deckSum, clipped>>
    BY <1>8 DEF FlushValue, deckVars, seenVars
  <2>4. \A i \in Ids : MovedIn(queue', i) = MovedIn(queue, i)
    BY <2>1, <2>2, SendUnmoved
  <2>5. \A i \in Ids : pendVal'[i].ev = pendVal[i].ev /\ (pendVal'[i].valid => pendVal[i].valid)
    BY <2>1 DEF TypeOK
  <2>6. \A i \in Ids : HeldBackOK(i)'
    BY <2>3, <2>5 DEF DeltaInv, HeldBackOK
  <2>7. DeltaConserved'
    BY <2>3, <2>4 DEF DeltaInv, DeltaConserved, InHand
  <2> QED
    BY <2>3, <2>6, <2>7 DEF DeltaInv
<1>9. CASE FlushPendFull
  BY <1>9, DeltaFrame DEF FlushPendFull, deckVars, seenVars
<1>10. CASE FlushPendDone
  BY <1>10, DeltaFrame DEF FlushPendDone, deckVars, seenVars
<1>11. CASE EnqueuePing
  <2>1. EventOK(cur) /\ cur.type # "rel" /\ cur' = NoEvent
    BY <1>11 DEF TypeOK, EnqueuePing, NoEvent
  <2>2. \A i \in Ids : MovedIn(queue', i) = MovedIn(queue, i)
    BY <1>11, <2>1, SendUnmoved DEF EnqueuePing
  <2> QED
    BY <1>11, <2>1, <2>2, DeltaFrame DEF EnqueuePing, deckVars, seenVars
<1>12. CASE EnqueueContinuous
  <2>1. /\ EventOK(cur) /\ cur' = NoEvent /\ cur.type \in {"rel", "abs"}
        /\ cur.id \in Ids /\ cur.val \in Int /\ Carries(cur.type, cur.id)
        /\ UNCHANGED <<rxSum, deckSum>>
    BY <1>12 DEF TypeOK, EnqueueContinuous, NoEvent, EventOK, Event, DeltaInv, deckVars, seenVars
  <2>2. \A i \in Ids : InHand(i)' = 0
    BY <2>1 DEF InHand, NoEvent
  <2>3. CASE HasRoom
    <3>1. queue' = Send(cur) /\ UNCHANGED <<pendVal, pendDelta, clipped>>
      BY <1>12, <2>3 DEF EnqueueContinuous
    <3>2. ASSUME NEW i \in Ids, ~clipped'[i]
          PROVE  rxSum'[i] = deckSum'[i] + MovedIn(queue', i) + pendDelta'[i].sum + InHand(i)'
      <4>1. MovedIn(queue', i) = MovedIn(queue, i) + InHand(i)
        BY <2>1, <3>1, SendFacts, AppendSums DEF Send, InHand
      <4>2. rxSum[i] = deckSum[i] + MovedIn(queue, i) + pendDelta[i].sum + InHand(i)
        BY <3>1, <3>2, DeltaTypes
      <4>3. deckSum[i] \in Int /\ MovedIn(queue, i) \in Int /\ pendDelta[i].sum \in Int
            /\ InHand(i) \in Int
        BY DeltaTypes
      <4> QED
        BY <2>1, <2>2, <3>1, <4>1, <4>2, <4>3
    <3>3. \A i \in Ids : HeldBackOK(i)'
      BY <3>1 DEF DeltaInv, HeldBackOK
    <3> QED
      BY <2>1, <3>2, <3>3 DEF DeltaInv, DeltaConserved, NoEvent
  <2>4. CASE ~HasRoom /\ cur.type = "rel"
    <3>1. /\ queue' = queue
          /\ pendDelta' = [pendDelta EXCEPT ![cur.id] =
                             [valid |-> TRUE, sum |-> Clamp(pendDelta[cur.id].sum + cur.val)]]
          /\ pendVal' = [pendVal EXCEPT ![cur.id] = [valid |-> @.valid, ev |-> cur]]
          /\ clipped' = [clipped EXCEPT ![cur.id] =
                           @ \/ Clamp(pendDelta[cur.id].sum + cur.val)
                                  # pendDelta[cur.id].sum + cur.val]
      BY <1>12, <2>4 DEF EnqueueContinuous, StorePending
    <3>2. ASSUME NEW i \in Ids, ~clipped'[i]
          PROVE  rxSum'[i] = deckSum'[i] + MovedIn(queue', i) + pendDelta'[i].sum + InHand(i)'
      <4>1. deckSum[i] \in Int /\ MovedIn(queue, i) \in Int /\ pendDelta[i].sum \in Int
        BY DeltaTypes
      <4>2. CASE i = cur.id
        <5>1. ~clipped[i] /\ pendDelta'[i].sum = pendDelta[i].sum + cur.val
          BY <3>1, <3>2, <4>2 DEF TypeOK
        <5>2. rxSum[i] = deckSum[i] + MovedIn(queue, i) + pendDelta[i].sum + cur.val
          BY <2>4, <4>2, <5>1, DeltaTypes DEF InHand
        <5> QED
          BY <2>1, <2>2, <3>1, <4>1, <5>1, <5>2
      <4>3. CASE i # cur.id
        <5>1. ~clipped[i] /\ pendDelta'[i] = pendDelta[i]
          BY <3>1, <3>2, <4>3 DEF TypeOK
        <5>2. rxSum[i] = deckSum[i] + MovedIn(queue, i) + pendDelta[i].sum + 0
          BY <4>3, <5>1, DeltaTypes DEF InHand
        <5> QED
          BY <2>1, <2>2, <3>1, <5>1, <5>2
      <4> QED
        BY <4>2, <4>3
    <3>3. ~pendVal[cur.id].valid
      BY <2>1, <2>4, NamespacedAssumption DEF DeltaInv, HeldBackOK, Carries
    <3>4. ASSUME NEW i \in Ids PROVE HeldBackOK(i)'
      <4>1. CASE i = cur.id
        <5>1. pendDelta'[i].valid /\ pendVal'[i].ev = cur /\ ~pendVal'[i].valid
          BY <3>1, <3>3, <4>1 DEF TypeOK
        <5> QED
          BY <2>1, <2>4, <4>1, <5>1 DEF HeldBackOK
      <4>2. CASE i # cur.id
        <5>1. pendDelta'[i] = pendDelta[i] /\ pendVal'[i] = pendVal[i]
          BY <3>1, <4>2 DEF TypeOK
        <5> QED
          BY <5>1 DEF DeltaInv, HeldBackOK
      <4> QED
        BY <4>1, <4>2
    <3> QED
      BY <2>1, <3>2, <3>4 DEF DeltaInv, DeltaConserved, NoEvent
  <2>5. CASE ~HasRoom /\ cur.type = "abs"
    <3>1. /\ UNCHANGED <<queue, pendDelta, clipped>>
          /\ pendVal' = [pendVal EXCEPT ![cur.id] = [valid |-> TRUE, ev |-> cur]]
      BY <1>12, <2>5 DEF EnqueueContinuous, StorePending
    <3>2. DeltaConserved'
      <4>1. \A i \in Ids : InHand(i) = 0
        BY <2>5 DEF InHand
      <4> QED
        BY <2>1, <2>2, <3>1, <4>1 DEF DeltaInv, DeltaConserved
    <3>3. ~pendDelta[cur.id].valid
      BY <2>1, <2>5, NamespacedAssumption DEF DeltaInv, HeldBackOK, Carries
    <3>4. ASSUME NEW i \in Ids PROVE HeldBackOK(i)'
      <4>1. CASE i = cur.id
        <5>1. pendVal'[i].ev = cur /\ pendDelta'[i] = pendDelta[i]
          BY <3>1, <4>1 DEF TypeOK
        <5> QED
          BY <2>1, <2>5, <3>3, <4>1, <5>1 DEF DeltaInv, HeldBackOK
      <4>2. CASE i # cur.id
        <5>1. pendDelta'[i] = pendDelta[i] /\ pendVal'[i] = pendVal[i]
          BY <3>1, <4>2 DEF TypeOK
        <5> QED
          BY <5>1 DEF DeltaInv, HeldBackOK
      <4> QED
        BY <4>1, <4>2
    <3> QED
      BY <2>1, <3>2, <3>4 DEF DeltaInv, NoEvent
  <2> QED
    BY <2>1, <2>3, <2>4, <2>5
<1>13. CASE EnqueueHeld
  <2>1. cur.type # "rel" /\ (cur' = cur \/ cur' = NoEvent)
    BY <1>13 DEF EnqueueHeld
  <2> QED
    BY <1>13, <2>1, DeltaFrame DEF EnqueueHeld, deckVars, seenVars
<1>14. CASE EnqueueCommand
  BY <1>14, DeltaFrame DEF EnqueueCommand, deckVars, seenVars
<1>15. CASE EdgeSent
  <2>1. EventOK(cur) /\ cur.type # "rel" /\ queue' = Send(cur) /\ cur' = NoEvent
    BY <1>15 DEF TypeOK, EdgeSent, NoEvent
  <2>2. \A i \in Ids : MovedIn(queue', i) = MovedIn(queue, i)
    BY <2>1, SendUnmoved
  <2> QED
    BY <1>15, <2>1, <2>2, DeltaFrame DEF EdgeSent, deckVars, seenVars
<1>16. CASE EdgeTimeout
  <2>1. cur.type # "rel" /\ cur' = NoEvent
    BY <1>16 DEF TypeOK, EdgeTimeout
  <2> QED
    BY <1>16, <2>1, DeltaFrame DEF EdgeTimeout, deckVars, seenVars
<1>17. CASE DeckTake
  <2> DEFINE e == Head(queue)
             t == Tail(queue)
  <2>a. /\ queue # <<>> /\ queue' = t
        /\ deckSum' = IF e.type = "rel" THEN [deckSum EXCEPT ![e.id] = @ + e.val] ELSE deckSum
    BY <1>17 DEF DeckTake
  <2>b. queue \in Seq(Event) /\ EventOK(e)
    BY <2>a DEF TypeOK, QueueOK
  <2>c. UNCHANGED <<cur, rxSum, pendVal, pendDelta, clipped>>
    BY <1>17 DEF DeckTake, rxVars, seenVars
  <2>1. /\ queue \in Seq(Event) /\ queue # <<>> /\ queue' = t /\ EventOK(e)
        /\ UNCHANGED <<cur, rxSum, pendVal, pendDelta, clipped>>
        /\ deckSum' = IF e.type = "rel" THEN [deckSum EXCEPT ![e.id] = @ + e.val] ELSE deckSum
    BY <2>a, <2>b, <2>c
  <2>2. t \in Seq(Event) /\ (e.type = "rel" => e.id \in Ids /\ e.val \in Int)
    BY <2>1 DEF EventOK, Event
  <2> HIDE DEF e, t
  <2>3. ASSUME NEW i \in Ids, ~clipped'[i]
        PROVE  rxSum'[i] = deckSum'[i] + MovedIn(queue', i) + pendDelta'[i].sum + InHand(i)'
    <3> DEFINE d == IF e.type = "rel" /\ e.id = i THEN e.val ELSE 0
    <3>1. MovedIn(queue, i) = d + MovedIn(t, i)
      BY <2>1, TailSums DEF e, t
    <3>2. MovedIn(t, i) \in Int
      <4>1. [type |-> "post", id |-> 0, val |-> 0] \in Event
        BY DEF Event
      <4> QED
        BY <2>2, <4>1, AppendSums
    <3>3. deckSum'[i] = deckSum[i] + d /\ d \in Int
      BY <2>1, <2>2, DeltaTypes DEF TypeOK
    <3>4. rxSum[i] = deckSum[i] + MovedIn(queue, i) + pendDelta[i].sum + InHand(i)
      BY <2>1, <2>3, DeltaTypes
    <3>5. deckSum[i] \in Int /\ pendDelta[i].sum \in Int /\ InHand(i) \in Int
      BY DeltaTypes
    <3>6. InHand(i)' = InHand(i)
      BY <2>1 DEF InHand
    <3> HIDE DEF d
    <3>7. rxSum[i] = deckSum'[i] + MovedIn(t, i) + pendDelta[i].sum + InHand(i)
      BY <3>1, <3>2, <3>3, <3>4, <3>5
    <3> QED
      BY <2>c, <2>a, <3>6, <3>7
  <2>4. \A i \in Ids : HeldBackOK(i)'
    BY <2>1 DEF DeltaInv, HeldBackOK
  <2> QED
    BY <2>1, <2>3, <2>4 DEF DeltaInv, DeltaConserved
<1>18. CASE Post
  <2> DEFINE e == [type |-> "post", id |-> 0, val |-> 0]
  <2>1. EventOK(e) /\ e.type # "rel" /\ queue' = Send(e)
    BY <1>18 DEF EventOK, Event, Post
  <2> HIDE DEF e
  <2>2. \A i \in Ids : MovedIn(queue', i) = MovedIn(queue, i)
    BY <2>1, SendUnmoved
  <2> QED
    BY <1>18, <2>2, DeltaFrame DEF Post, rxVars, deckVars, seenVars
<1>19. CASE UNCHANGED vars
  BY <1>19, DeltaFrame DEF vars, rxVars, deckVars, seenVars
<1>20. QED
  BY <1>1, <1>2, <1>3, <1>4, <1>5, <1>6, <1>7, <1>8, <1>9, <1>10, <1>11, <1>12,
     <1>13, <1>14, <1>15, <1>16, <1>17, <1>18, <1>19 DEF Next, RxStep

\* Whatever pressure the deck queue is under, no jog movement is lost or applied
\* twice: until a sum saturates at the int16_t limits, what the link received
\* of a control is what the deck applied plus what is on its way.
THEOREM MovementConserved == Spec => []DeltaConserved
<1>1. DeltaInv => DeltaConserved
  BY DEF DeltaInv
<1>2. QED
  BY <1>1, TypeInit, TypeStep, DeltaInit, DeltaStep, PTL DEF Spec
=============================================================================
