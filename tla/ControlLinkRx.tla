--------------------------- MODULE ControlLinkRx ---------------------------
(***************************************************************************)
(* The P4 end of the control link (main-deck-p4 control_link_uart.c): the  *)
(* UART receive task turns each valid 0xA5 frame into a control event and  *)
(* hands it to the bounded deck queue; the deck task consumes that queue,  *)
(* and UI and web producers fill it behind the receive task's back.        *)
(*                                                                         *)
(* The receive task is the only writer of the held slots and the pending   *)
(* slots.  One step of it ends at each xQueueSend, because that is where   *)
(* the deck task and the other producers can run in between.               *)
(*                                                                         *)
(* An event is [type, id, val].  For an event that has no slot to wait in  *)
(* (a discrete command or a ping) `val' is its position among the events   *)
(* of that kind the link received, which stands for the frame sequence     *)
(* number the code copies into the event.                                  *)
(***************************************************************************)
EXTENDS HeldReconciler, Sequences, Sums

CONSTANTS
  NIds,       \* pending slots (256)
  ConnId,     \* the id of the FLX4_CONNECTION state report
  Frames,     \* the frames that can arrive
  QueueCap,   \* CTRL_QUEUE_LEN
  DeltaMax,   \* INT16_MAX
  MaxFrames,  \* bound: frames that arrive
  MaxPosts    \* bound: events posted by UI and web

Ids == 0 .. NIds - 1
Disconnected == 0
Connected == 1

NoLevel == -1
NoEvent == [type |-> "none", id |-> 0, val |-> 0]

\* The event classes enqueue_control_event tells apart; "post" is an event of
\* another producer.
QueuedTypes == {"held", "cmd", "rel", "abs", "ping"}
Event == [type : QueuedTypes \cup {"post"}, id : Nat, val : Int]
IsOnce(e) == e.type \in {"cmd", "ping"}

FrameOK(f) ==
  \/ f.type = "held" /\ f.id \in HeldKeys /\ f.val \in Levels
  \/ f.type = "rel"  /\ f.id \in Ids /\ f.val \in -DeltaMax - 1 .. DeltaMax
  \/ f.type = "abs"  /\ f.id \in Ids /\ f.val \in Nat
  \/ f.type \in {"cmd", "ping", "challenge", "unknown"} /\ f.id = 0 /\ f.val = 0

ASSUME RxAssumption ==
  /\ NIds \in Nat /\ ConnId \in Nat /\ QueueCap \in Nat \ {0} /\ DeltaMax \in Nat
  /\ MaxFrames \in Nat /\ MaxPosts \in Nat
  /\ \A f \in Frames : FrameOK(f) /\ f = [type |-> f.type, id |-> f.id, val |-> f.val]

\* The pending slots are keyed by id alone, which is safe "only because every
\* control id is namespaced": no id carries both movement and positions.
ASSUME NamespacedAssumption ==
  \A f, g \in Frames : f.type = "rel" /\ g.type = "abs" => f.id # g.id

VARIABLES
  slots,      \* s_held_states
  pendVal,    \* s_pending_values: [valid, ev]
  pendDelta,  \* s_pending_delta_valid and s_pending_delta: [valid, sum]
  firstKey,   \* s_pending_first_key
  queue,      \* s_event_queue
  pc,         \* where the receive task is
  cursor,     \* the flush loops' position
  cur,        \* the event dispatch_frame is delivering, NoEvent in a bare pump
  drops,      \* s_event_drop_count
  acks,       \* boot challenges echoed
  nFrames, nPosts,
  deckLevel, deckSum, deckCmds, lastCmd,  \* what the deck task has seen
  rxLevel, rxSum, rxCmds, clipped           \* what the link has received

rxVars == <<slots, pendVal, pendDelta, firstKey, pc, cursor, cur, drops, acks>>
deckVars == <<deckLevel, deckSum, deckCmds, lastCmd>>
seenVars == <<rxLevel, rxSum, rxCmds>>
vars == <<rxVars, queue, nFrames, nPosts, deckVars, seenVars, clipped>>

Init ==
  /\ slots = ResetSlots
  /\ pendVal = [i \in Ids |-> [valid |-> FALSE, ev |-> NoEvent]]
  /\ pendDelta = [i \in Ids |-> [valid |-> FALSE, sum |-> 0]]
  /\ firstKey = NIds
  /\ queue = <<>>
  /\ pc = "idle" /\ cursor = 0 /\ cur = NoEvent
  /\ drops = 0 /\ acks = 0 /\ nFrames = 0 /\ nPosts = 0
  /\ deckLevel = [k \in HeldKeys |-> NoLevel]
  /\ deckSum = [i \in Ids |-> 0]
  /\ deckCmds = 0 /\ lastCmd = 0
  /\ rxLevel = [k \in HeldKeys |-> NoLevel]
  /\ rxSum = [i \in Ids |-> 0]
  /\ rxCmds = 0
  /\ clipped = [i \in Ids |-> FALSE]

HasRoom == Len(queue) < QueueCap

\* Wrong variants of the definitions below, for checking the properties.
Unclamped(n) == n
DeltaKept(d) == [d EXCEPT !.valid = FALSE]
UncountedDrop(e) == drops
PumpWithoutFlush == pc = "idle" /\ UNCHANGED vars

\* xQueueSend to a queue with room.
Send(e) == Append(queue, e)

\* clamp_jog_delta, and the saturation in store_pending_continuous.
Clamp(n) == IF n > DeltaMax THEN DeltaMax
            ELSE IF n < -DeltaMax - 1 THEN -DeltaMax - 1 ELSE n

DeltaSent(d) == [valid |-> FALSE, sum |-> 0]
HintAfterStore(id) == IF id < firstKey THEN id ELSE firstKey
DropsAfterTimeout(e) == IF e.type = "held" THEN drops ELSE drops + 1

-----------------------------------------------------------------------------
(* dispatch_frame, up to its flush.                                         *)

\* What the link has received, for the properties: a DISCONNECTED report makes
\* the release of every level seen so far the newest level.
Note(f) ==
  /\ rxLevel' =
       CASE f.type = "held" -> [rxLevel EXCEPT ![f.id] = f.val]
         [] f.type = "abs" /\ f.id = ConnId /\ f.val = Disconnected ->
              [k \in HeldKeys |-> IF rxLevel[k] = NoLevel THEN NoLevel
                                  ELSE ReleaseOf[rxLevel[k]]]
         [] OTHER -> rxLevel
  /\ rxSum' = IF f.type = "rel" THEN [rxSum EXCEPT ![f.id] = @ + f.val] ELSE rxSum
  /\ rxCmds' = IF IsOnce(f) THEN rxCmds + 1 ELSE rxCmds

\* A frame that reaches the deck queue starts a flush; DISCONNECTED first turns
\* every observed held level into its release.
DispatchFrame(f) ==
  /\ pc = "idle" /\ nFrames < MaxFrames
  /\ f \in Frames /\ f.type \in QueuedTypes
  /\ nFrames' = nFrames + 1
  /\ cur' = [f EXCEPT !.val = IF IsOnce(f) THEN rxCmds + 1 ELSE f.val]
  /\ slots' = IF f.type = "abs" /\ f.id = ConnId /\ f.val = Disconnected
              THEN ReleaseAll(slots) ELSE slots
  /\ pc' = "flushHeld" /\ cursor' = 0
  /\ Note(f)
  /\ UNCHANGED <<pendVal, pendDelta, firstKey, queue, drops, acks, nPosts,
                 deckVars, clipped>>

\* A boot challenge is echoed at once and never becomes an event; an unknown
\* frame is ignored.  Neither flushes.
ConsumeFrame(f) ==
  /\ pc = "idle" /\ nFrames < MaxFrames
  /\ f \in Frames /\ f.type \in {"challenge", "unknown"}
  /\ nFrames' = nFrames + 1
  /\ acks' = IF f.type = "challenge" THEN acks + 1 ELSE acks
  /\ UNCHANGED <<slots, pendVal, pendDelta, firstKey, pc, cursor, cur, drops,
                 queue, nPosts, deckVars, seenVars, clipped>>

\* uart_rx_pump flushes after every read, with no frame in hand.
Pump ==
  /\ pc = "idle"
  /\ pc' = "flushHeld" /\ cursor' = 0 /\ cur' = NoEvent
  /\ UNCHANGED <<slots, pendVal, pendDelta, firstKey, drops, acks, queue,
                 nFrames, nPosts, deckVars, seenVars, clipped>>

-----------------------------------------------------------------------------
(* flush_pending_control_events: held levels first, then pending values.    *)

AfterFlush == IF cur = NoEvent THEN "idle" ELSE "enqueue"

FlushHeldSend ==
  /\ pc = "flushHeld" /\ HasRoom
  /\ \E k \in HeldKeys :
       /\ IsNextDirty(slots, cursor, k)
       /\ queue' = Send([type |-> "held", id |-> k, val |-> slots[k].desired])
       /\ slots' = [slots EXCEPT ![k] = MarkScheduled(@, @.desired)]
       /\ cursor' = k + 1
  /\ UNCHANGED <<pendVal, pendDelta, firstKey, pc, cur, drops, acks,
                 nFrames, nPosts, deckVars, seenVars, clipped>>

\* A full queue ends the whole flush: pending values wait behind held levels.
FlushHeldFull ==
  /\ pc = "flushHeld" /\ ~HasRoom /\ DirtyFrom(slots, cursor) # {}
  /\ pc' = AfterFlush
  /\ UNCHANGED <<slots, pendVal, pendDelta, firstKey, cursor, cur, drops, acks,
                 queue, nFrames, nPosts, deckVars, seenVars, clipped>>

FlushHeldDone ==
  /\ pc = "flushHeld" /\ DirtyFrom(slots, cursor) = {}
  /\ pc' = "flushPend" /\ cursor' = firstKey
  /\ UNCHANGED <<slots, pendVal, pendDelta, firstKey, cur, drops, acks,
                 queue, nFrames, nPosts, deckVars, seenVars, clipped>>

PendingFrom(c) == {i \in Ids : i >= c /\ (pendDelta[i].valid \/ pendVal[i].valid)}
IsNextPending(i) == i \in PendingFrom(cursor) /\ \A j \in PendingFrom(cursor) : i <= j

\* The accumulated movement goes out under the newest event's type and id.
FlushDelta ==
  /\ pc = "flushPend" /\ HasRoom
  /\ \E i \in Ids :
       /\ IsNextPending(i) /\ pendDelta[i].valid
       /\ queue' = Send([pendVal[i].ev EXCEPT !.val = Clamp(pendDelta[i].sum)])
       /\ pendDelta' = [pendDelta EXCEPT ![i] = DeltaSent(@)]
       /\ cursor' = i
  /\ UNCHANGED <<slots, pendVal, firstKey, pc, cur, drops, acks,
                 nFrames, nPosts, deckVars, seenVars, clipped>>

FlushValue ==
  /\ pc = "flushPend" /\ HasRoom
  /\ \E i \in Ids :
       /\ IsNextPending(i) /\ ~pendDelta[i].valid
       /\ queue' = Send(pendVal[i].ev)
       /\ pendVal' = [pendVal EXCEPT ![i] = [valid |-> FALSE, ev |-> @.ev]]
       /\ cursor' = i + 1
  /\ UNCHANGED <<slots, pendDelta, firstKey, pc, cur, drops, acks,
                 nFrames, nPosts, deckVars, seenVars, clipped>>

\* Remember where the pending slots start, so that the next flush finds them.
FlushPendFull ==
  /\ pc = "flushPend" /\ ~HasRoom
  /\ \E i \in Ids : IsNextPending(i) /\ firstKey' = i
  /\ pc' = AfterFlush
  /\ UNCHANGED <<slots, pendVal, pendDelta, cursor, cur, drops, acks,
                 queue, nFrames, nPosts, deckVars, seenVars, clipped>>

FlushPendDone ==
  /\ pc = "flushPend" /\ PendingFrom(cursor) = {}
  /\ firstKey' = NIds /\ pc' = AfterFlush
  /\ UNCHANGED <<slots, pendVal, pendDelta, cursor, cur, drops, acks,
                 queue, nFrames, nPosts, deckVars, seenVars, clipped>>

-----------------------------------------------------------------------------
(* enqueue_control_event.                                                   *)

EnqueuePing ==
  /\ pc = "enqueue" /\ cur.type = "ping"
  /\ pc' = "idle" /\ cur' = NoEvent
  /\ queue' = IF HasRoom THEN Send(cur) ELSE queue
  /\ drops' = IF HasRoom THEN drops ELSE drops + 1
  /\ UNCHANGED <<slots, pendVal, pendDelta, firstKey, cursor, acks,
                 nFrames, nPosts, deckVars, seenVars, clipped>>

\* store_pending_continuous: movements are summed with saturation, anything
\* else overwrites; both keep the rest of the newest event.
StorePending(ev) ==
  /\ firstKey' = HintAfterStore(ev.id)
  /\ \/ /\ ev.type = "rel"
        /\ pendDelta' = [pendDelta EXCEPT ![ev.id] =
                           [valid |-> TRUE, sum |-> Clamp(@.sum + ev.val)]]
        /\ pendVal' = [pendVal EXCEPT ![ev.id] = [valid |-> @.valid, ev |-> ev]]
        /\ clipped' = [clipped EXCEPT ![ev.id] =
                         @ \/ Clamp(pendDelta[ev.id].sum + ev.val)
                                # pendDelta[ev.id].sum + ev.val]
     \/ /\ ev.type = "abs"
        /\ pendVal' = [pendVal EXCEPT ![ev.id] = [valid |-> TRUE, ev |-> ev]]
        /\ UNCHANGED <<pendDelta, clipped>>

EnqueueContinuous ==
  /\ pc = "enqueue" /\ cur.type \in {"rel", "abs"}
  /\ pc' = "idle" /\ cur' = NoEvent
  /\ \/ /\ HasRoom
        /\ queue' = Send(cur)
        /\ UNCHANGED <<pendVal, pendDelta, firstKey, clipped>>
     \/ /\ ~HasRoom
        /\ StorePending(cur)
        /\ UNCHANGED queue
  /\ UNCHANGED <<slots, cursor, drops, acks, nFrames, nPosts, deckVars, seenVars>>

\* A level already scheduled in this P4 lifetime is suppressed.
EnqueueHeld ==
  /\ pc = "enqueue" /\ cur.type = "held"
  /\ slots' = [slots EXCEPT ![cur.id] = Observe(@, cur.val)]
  /\ IF slots'[cur.id].dirty
     THEN pc' = "wait" /\ UNCHANGED cur
     ELSE pc' = "idle" /\ cur' = NoEvent
  /\ UNCHANGED <<pendVal, pendDelta, firstKey, cursor, drops, acks, queue,
                 nFrames, nPosts, deckVars, seenVars, clipped>>

EnqueueCommand ==
  /\ pc = "enqueue" /\ cur.type = "cmd"
  /\ pc' = "wait"
  /\ UNCHANGED <<slots, pendVal, pendDelta, firstKey, cursor, cur, drops, acks, queue,
                 nFrames, nPosts, deckVars, seenVars, clipped>>

\* xQueueSend with CTRL_EDGE_BACKPRESSURE_MS of patience.
EdgeSent ==
  /\ pc = "wait" /\ HasRoom
  /\ queue' = Send(cur)
  /\ slots' = IF cur.type = "held"
              THEN [slots EXCEPT ![cur.id] = MarkScheduled(@, cur.val)]
              ELSE slots
  /\ pc' = "idle" /\ cur' = NoEvent
  /\ UNCHANGED <<pendVal, pendDelta, firstKey, cursor, drops, acks,
                 nFrames, nPosts, deckVars, seenVars, clipped>>

\* The wait expires: a held level stays dirty for a later flush, a discrete
\* command is lost and counted.
EdgeTimeout ==
  /\ pc = "wait" /\ ~HasRoom
  /\ drops' = DropsAfterTimeout(cur)
  /\ pc' = "idle" /\ cur' = NoEvent
  /\ UNCHANGED <<slots, pendVal, pendDelta, firstKey, cursor, acks, queue,
                 nFrames, nPosts, deckVars, seenVars, clipped>>

-----------------------------------------------------------------------------
(* The deck task and the other producers.                                   *)

\* deck_task takes one event and applies it.
DeckTake ==
  /\ queue # <<>>
  /\ queue' = Tail(queue)
  /\ LET e == Head(queue) IN
       /\ deckLevel' = IF e.type = "held" THEN [deckLevel EXCEPT ![e.id] = e.val]
                       ELSE deckLevel
       /\ deckSum' = IF e.type = "rel" THEN [deckSum EXCEPT ![e.id] = @ + e.val]
                     ELSE deckSum
       /\ deckCmds' = IF IsOnce(e) THEN deckCmds + 1 ELSE deckCmds
       /\ lastCmd' = IF IsOnce(e) THEN e.val ELSE lastCmd
  /\ UNCHANGED <<rxVars, nFrames, nPosts, seenVars, clipped>>

\* deck_core_queue_event: UI and web post their own events without waiting.
Post ==
  /\ nPosts < MaxPosts /\ HasRoom
  /\ nPosts' = nPosts + 1
  /\ queue' = Send([type |-> "post", id |-> 0, val |-> 0])
  /\ UNCHANGED <<rxVars, nFrames, deckVars, seenVars, clipped>>

RxStep ==
  \/ Pump
  \/ FlushHeldSend \/ FlushHeldFull \/ FlushHeldDone
  \/ FlushDelta \/ FlushValue \/ FlushPendFull \/ FlushPendDone
  \/ EnqueuePing \/ EnqueueContinuous \/ EnqueueHeld \/ EnqueueCommand
  \/ EdgeSent \/ EdgeTimeout

Next ==
  \/ \E f \in Frames : DispatchFrame(f) \/ ConsumeFrame(f)
  \/ RxStep
  \/ DeckTake
  \/ Post

Spec == Init /\ [][Next]_vars

\* The receive task and the deck task are FreeRTOS tasks in endless loops; no
\* fairness is assumed of frames and posts.
FairSpec == Spec /\ WF_vars(RxStep) /\ WF_vars(DeckTake)

-----------------------------------------------------------------------------
(* Properties.                                                              *)

EventOK(e) ==
  /\ e \in Event
  /\ e.type = "held" => e.id \in HeldKeys /\ e.val \in Levels
  /\ e.type \in {"rel", "abs"} => e.id \in Ids

QueueOK(q) ==
  /\ q \in Seq(Event) /\ Len(q) <= QueueCap
  /\ \A i \in DOMAIN q : EventOK(q[i])

\* What a pending slot holds back is a movement or a position.
PendOK(v, d) ==
  /\ v \in [valid : BOOLEAN, ev : Event \cup {NoEvent}]
  /\ d \in [valid : BOOLEAN, sum : -DeltaMax - 1 .. DeltaMax]
  /\ v.valid \/ d.valid => EventOK(v.ev) /\ v.ev.type \in {"rel", "abs"}

\* The type invariant.  Beyond plain types: the queue never exceeds its length,
\* a sum held back fits an int16_t, and only what may wait waits.
TypeOK ==
  /\ slots \in [HeldKeys -> Slot]
  /\ DOMAIN pendVal = Ids /\ DOMAIN pendDelta = Ids
  /\ \A i \in Ids : PendOK(pendVal[i], pendDelta[i])
  /\ firstKey \in 0 .. NIds
  /\ QueueOK(queue)
  /\ pc \in {"idle", "flushHeld", "flushPend", "enqueue", "wait"}
  /\ cursor \in Nat
  /\ cur = NoEvent \/ (EventOK(cur) /\ cur.type # "post")
  /\ pc = "idle" => cur = NoEvent
  /\ pc = "wait" => cur.type \in {"held", "cmd"}
  /\ drops \in Nat /\ acks \in Nat /\ nFrames \in 0 .. MaxFrames /\ nPosts \in 0 .. MaxPosts
  /\ deckLevel \in [HeldKeys -> Levels \cup {NoLevel}]
  /\ rxLevel \in [HeldKeys -> Levels \cup {NoLevel}]
  /\ deckSum \in [Ids -> Int] /\ rxSum \in [Ids -> Int]
  /\ deckCmds \in Nat /\ lastCmd \in Int /\ rxCmds \in Nat
  /\ clipped \in [Ids -> BOOLEAN]

IsHeldOf(e, k) == e.type = "held" /\ e.id = k

\* With queue q ahead of a deck at level l, the newest level of held control k
\* is v.
NewestIn(q, l, k, v) ==
  \/ \E i \in DOMAIN q :
       /\ IsHeldOf(q[i], k) /\ q[i].val = v
       /\ \A j \in DOMAIN q : j > i => ~IsHeldOf(q[j], k)
  \/ /\ \A j \in DOMAIN q : ~IsHeldOf(q[j], k)
     /\ l = v

\* A level the receive task has not yet put into its slot.
InFlight(k) == pc \in {"flushHeld", "flushPend", "enqueue"} /\ IsHeldOf(cur, k)

\* A full queue may delay a held level but never erases it: whatever level the
\* link received last (or the release a DISCONNECTED report implies) is either
\* the newest one bound for the deck or its slot is still dirty, so that a
\* later flush sends it.
HeldNeverLost ==
  \A k \in HeldKeys :
    rxLevel[k] # NoLevel /\ ~InFlight(k) =>
      /\ slots[k].observed /\ slots[k].desired = rxLevel[k]
      /\ slots[k].dirty \/ NewestIn(queue, deckLevel[k], k, rxLevel[k])

\* The deck never sees the same level of a held control twice in a row, however
\* often S3 replays its snapshot: a repeated press handler is not idempotent.
LevelsAlternate ==
  [][queue # <<>> /\ queue' = Tail(queue) /\ Head(queue).type = "held"
       => deckLevel[Head(queue).id] # Head(queue).val]_vars

\* Discrete commands keep their order: those on their way to the deck are in
\* strictly increasing order, later than every one it has executed.
CommandOrder ==
  /\ \A i, j \in DOMAIN queue :
       i < j /\ IsOnce(queue[i]) /\ IsOnce(queue[j]) => queue[i].val < queue[j].val
  /\ \A i \in DOMAIN queue : IsOnce(queue[i]) => lastCmd < queue[i].val
  /\ IsOnce(cur) => lastCmd < cur.val /\ cur.val = rxCmds
  /\ IsOnce(cur) => \A i \in DOMAIN queue : IsOnce(queue[i]) => queue[i].val < cur.val

\* The movement of control i, and the discrete commands and pings, in queue q.
MovedIn(q, i) ==
  SumUpTo([n \in DOMAIN q |-> IF q[n].type = "rel" /\ q[n].id = i THEN q[n].val ELSE 0],
          Len(q))
OnceIn(q) == SumUpTo([n \in DOMAIN q |-> IF IsOnce(q[n]) THEN 1 ELSE 0], Len(q))
InHand(i) == IF cur.type = "rel" /\ cur.id = i THEN cur.val ELSE 0

\* Relative movement is conserved: unless a sum saturated at the int16_t
\* limits, what the link received is what the deck applied plus what is
\* queued, held back or in hand.
DeltaConserved ==
  \A i \in Ids : ~clipped[i] =>
    rxSum[i] = deckSum[i] + MovedIn(queue, i) + pendDelta[i].sum + InHand(i)

\* Every discrete command and ping is delivered exactly once, in the order of
\* arrival, or counted in s_event_drop_count, never both and never neither.
CommandsAccounted ==
  /\ CommandOrder
  /\ drops = rxCmds - deckCmds - OnceIn(queue) - (IF IsOnce(cur) THEN 1 ELSE 0)

\* Once frames stop arriving the deck converges: every held control is at the
\* level the link received last and nothing stays held back.
HeldConverge ==
  <>[](/\ DirtyFrom(slots, 0) = {} /\ PendingFrom(0) = {}
       /\ \A k \in HeldKeys : deckLevel[k] = rxLevel[k])
=============================================================================
