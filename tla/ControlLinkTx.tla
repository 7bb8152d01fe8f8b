--------------------------- MODULE ControlLinkTx ---------------------------
(***************************************************************************)
(* The S3 end of the control link (control-board-s3 main/app_main.c and    *)
(* common/control_event_scheduler).  Three tasks send to the P4:           *)
(*                                                                         *)
(*   "usb"  owns the USB host: it turns MIDI messages into held levels,    *)
(*          discrete events and continuous samples, and reports            *)
(*          connection changes;                                            *)
(*   "tx"   flx4_translator_task: sends what the USB task left behind;     *)
(*   "hb"   heartbeat_task: replays what is known every five seconds, so   *)
(*          that a P4 that restarted or missed a frame catches up.         *)
(*                                                                         *)
(* Each shared structure has its own spinlock, held for one access and     *)
(* never over a send, so a value read under the lock may be stale by the   *)
(* time it is sent, and marked as sent after somebody else sent a newer    *)
(* one.  The UART itself is serialised frame by frame.                     *)
(*                                                                         *)
(* The P4 is reduced to what it was last told.                             *)
(***************************************************************************)
EXTENDS HeldReconciler, Sequences, Sums

CONSTANTS
  NAbs,       \* absolute controls: continuous ids 0 .. NAbs - 1
  NJog,       \* relative controls: the next NJog continuous ids
  AbsValues,  \* positions
  FifoCap,    \* CONTROL_EVENT_FIFO_CAPACITY
  ContCap,    \* CONTROL_EVENT_CONTINUOUS_CAPACITY
  DeltaMax,   \* INT16_MAX
  FifoBudget, ContBudget,  \* FLX4_DISCRETE_BUDGET, FLX4_CONTINUOUS_BUDGET
  WireCap,    \* frames the UART buffers before a sender waits
  Kinds,      \* the kinds of MIDI message of this instance
  MaxInputs,  \* bound: MIDI messages
  MaxConns,   \* bound: times the controller is plugged in
  MaxFaults   \* bound: failed sends, lost frames and P4 restarts together

AbsIds == 0 .. NAbs - 1
JogIds == NAbs .. NAbs + NJog - 1
ContSlots == 0 .. ContCap - 1
Tasks == {"usb", "tx", "hb"}
Unknown == -1

ASSUME TxAssumption ==
  /\ NAbs \in Nat /\ NJog \in Nat /\ AbsValues \subseteq Nat
  /\ FifoCap \in Nat \ {0} /\ ContCap \in Nat \ {0} /\ DeltaMax \in Nat \ {0}
  /\ FifoBudget \in Nat \ {0} /\ ContBudget \in Nat \ {0} /\ WireCap \in Nat \ {0}
  /\ Kinds \subseteq {"held", "abs", "jog", "cmd"}
  /\ MaxInputs \in Nat /\ MaxConns \in Nat /\ MaxFaults \in Nat

VARIABLES
  map,        \* the last position of each absolute control (s_flx4_map)
  slots,      \* s_flx4_held_states
  fifo,       \* s_flx4_scheduler.fifo
  cont,       \* s_flx4_scheduler.continuous
  contCursor, \* s_flx4_scheduler.continuous_cursor
  connected,  \* s_connection_state_connected
  connValid,  \* s_connection_state_valid
  connDirty,  \* s_connection_state_dirty
  pc,         \* where each task is
  hand,       \* the frame each task has read and not yet sent
  cursor,     \* each task's position in the held slots
  snap,       \* each task's private copy of the map
  budget,     \* the translator's remaining budget
  wire,       \* frames between the boards
  p4Level, p4Abs, p4Conn, p4Jog, p4Cmd,  \* what the P4 was last told
  p4Ended,    \* the last connection the P4 knows to be over
  late,       \* events the P4 got of a connection it knew to be over
  epoch, nInputs, nCmds, nFaults, jogIn, jogLost

connVars == <<connected, connValid, connDirty, epoch>>
taskVars == <<pc, hand, cursor, snap, budget>>
p4Vars == <<p4Level, p4Abs, p4Conn, p4Jog, p4Cmd, p4Ended, late>>
schedVars == <<fifo, cont, contCursor>>
inputVars == <<nInputs, nCmds, jogIn>>
vars == <<map, slots, schedVars, connVars, taskVars, wire, p4Vars, inputVars,
          nFaults, jogLost>>

Frame(kind, id, val) == [kind |-> kind, id |-> id, val |-> val, ep |-> epoch]
NoFrame == [kind |-> "none", id |-> 0, val |-> 0, ep |-> 0]
FreeSlot == [assigned |-> FALSE, dirty |-> FALSE, f |-> NoFrame]
NothingKnown == [i \in AbsIds |-> Unknown]

Init ==
  /\ map = NothingKnown
  /\ slots = ResetSlots
  /\ fifo = <<>>
  /\ cont = [c \in ContSlots |-> FreeSlot] /\ contCursor = 0
  /\ connected = FALSE /\ connValid = FALSE /\ connDirty = FALSE /\ epoch = 0
  /\ pc = [t \in Tasks |-> "idle"]
  /\ hand = [t \in Tasks |-> NoFrame]
  /\ cursor = [t \in Tasks |-> 0]
  /\ snap = [t \in Tasks |-> NothingKnown]
  /\ budget = 0
  /\ wire = <<>>
  /\ p4Level = [k \in HeldKeys |-> Unknown]
  /\ p4Abs = NothingKnown
  /\ p4Conn = Unknown /\ p4Jog = 0 /\ p4Cmd = 0 /\ p4Ended = 0 /\ late = 0
  /\ nInputs = 0 /\ nCmds = 0 /\ nFaults = 0 /\ jogIn = 0 /\ jogLost = 0

Goto(t, l) == pc' = [pc EXCEPT ![t] = l]

\* Movement that a frame carries.
JogOf(f) == IF f.kind = "cont" /\ f.id \in JogIds THEN f.val ELSE 0

-----------------------------------------------------------------------------
(* control_link_send_semantic: one whole frame under the UART lock, or an   *)
(* error the caller sees.                                                   *)

Transmit(f) ==
  /\ Len(wire) < WireCap
  /\ wire' = Append(wire, f)
  /\ UNCHANGED <<nFaults, jogLost>>

Fail(f) ==
  /\ nFaults < MaxFaults
  /\ nFaults' = nFaults + 1
  /\ jogLost' = jogLost + JogOf(f)
  /\ UNCHANGED wire

-----------------------------------------------------------------------------
(* control_event_scheduler.                                                 *)

\* Wrong variants of definitions below, for checking the properties.
AddsToHistory(s, f) == f.id \in JogIds
OnlyDirty(t, k) == IsNextDirty(slots, cursor[t], k)
NothingReplayed == NothingKnown
OnlyConnected == connValid /\ connected
FifoKept == fifo
Unsaturated(n) == n
NewestFirst == fifo[Len(fifo)]

ScheduledIn(c, f) == cont[c].assigned /\ cont[c].f.kind = f.kind /\ cont[c].f.id = f.id

\* find_continuous_slot: the slot of this control, else the first free one.
IsSlotFor(c, f) ==
  \/ ScheduledIn(c, f)
  \/ /\ \A d \in ContSlots : ~ScheduledIn(d, f)
     /\ ~cont[c].assigned
     /\ \A d \in ContSlots : ~cont[d].assigned => c <= d

Saturate(n) == IF n > DeltaMax THEN DeltaMax ELSE IF n < -DeltaMax - 1 THEN -DeltaMax - 1 ELSE n

\* Only movement that has not been taken yet is added to.
Accumulates(s, f) == s.dirty /\ f.id \in JogIds

\* control_event_scheduler_publish_continuous
PublishContinuous(f) ==
  /\ \/ \E c \in ContSlots :
          /\ IsSlotFor(c, f)
          /\ cont' = [cont EXCEPT ![c] =
               [assigned |-> TRUE, dirty |-> TRUE,
                f |-> IF cont[c].assigned /\ Accumulates(cont[c], f)
                      THEN [cont[c].f EXCEPT !.val = Saturate(@ + f.val)] ELSE f]]
          /\ jogLost' = IF f.id \in JogIds /\ cont[c].dirty
                        THEN jogLost + f.val + cont[c].f.val
                               - Saturate(cont[c].f.val + f.val)
                        ELSE jogLost
     \/ /\ ~\E c \in ContSlots : IsSlotFor(c, f)
        /\ jogLost' = jogLost + JogOf(f)
        /\ UNCHANGED cont
  /\ UNCHANGED <<fifo, contCursor>>

\* control_event_scheduler_enqueue_discrete: a full FIFO drops the event.
EnqueueDiscrete(f) ==
  /\ fifo' = IF Len(fifo) < FifoCap THEN Append(fifo, f) ELSE fifo
  /\ UNCHANGED <<cont, contCursor, jogLost>>

-----------------------------------------------------------------------------
(* The USB task.                                                            *)

\* flx4_midi_message_cb with an event that the map recognises.
Midi(kind) ==
  /\ kind \in Kinds
  /\ pc["usb"] = "idle" /\ connected /\ nInputs < MaxInputs
  /\ nInputs' = nInputs + 1

MidiHeld(k, v) ==
  /\ Midi("held")
  /\ slots' = [slots EXCEPT ![k] = Observe(@, v)]
  /\ UNCHANGED <<map, schedVars, connVars, taskVars, wire, p4Vars, nCmds, nFaults,
                 jogIn, jogLost>>

MidiAbsolute(i, v) ==
  /\ Midi("abs")
  /\ map' = [map EXCEPT ![i] = v]
  /\ PublishContinuous(Frame("cont", i, v))
  /\ UNCHANGED <<slots, connVars, taskVars, wire, p4Vars, nCmds, nFaults, jogIn>>

MidiJog(i, d) ==
  /\ Midi("jog")
  /\ PublishContinuous(Frame("cont", i, d))
  /\ jogIn' = jogIn + d
  /\ UNCHANGED <<map, slots, connVars, taskVars, wire, p4Vars, nCmds, nFaults>>

MidiDiscrete ==
  /\ Midi("cmd")
  /\ nCmds' = nCmds + 1
  /\ EnqueueDiscrete(Frame("cmd", 0, nCmds + 1))
  /\ UNCHANGED <<map, slots, connVars, taskVars, wire, p4Vars, nFaults, jogIn>>

\* publish_connection_state(true): the callback replays, then the state goes out.
UsbConnect ==
  /\ pc["usb"] = "idle" /\ ~connected /\ epoch < MaxConns
  /\ connected' = TRUE /\ connValid' = TRUE /\ connDirty' = TRUE
  /\ epoch' = epoch + 1
  /\ snap' = [snap EXCEPT !["usb"] = map]
  /\ Goto("usb", "snap")
  /\ UNCHANGED <<map, slots, schedVars, hand, cursor, budget, wire, p4Vars,
                 inputVars, nFaults, jogLost>>

\* control_event_scheduler_reset
FifoAfterReset == <<>>
DueJog(s) == IF s.dirty THEN JogOf(s.f) ELSE 0
ScheduledJog == SumUpTo([n \in 1 .. ContCap |-> DueJog(cont[n - 1])], ContCap)

\* publish_connection_state(false): flx4_controller_connection_cb forgets the
\* positions and what was scheduled, and asks for every held control's release.
UsbDisconnect ==
  /\ pc["usb"] = "idle" /\ connected
  /\ connected' = FALSE /\ connDirty' = TRUE
  /\ map' = NothingKnown
  /\ fifo' = FifoAfterReset /\ cont' = [c \in ContSlots |-> FreeSlot] /\ contCursor' = 0
  /\ jogLost' = jogLost + ScheduledJog
  /\ slots' = ReleaseAll(slots)
  /\ Goto("usb", "publish")
  /\ UNCHANGED <<connValid, epoch, hand, cursor, snap, budget, wire, p4Vars,
                 inputVars, nFaults>>

\* should_refresh_connection_state
ShouldRefresh == connValid

\* The client loop asks for a replay of the state once a second.
UsbReplay ==
  /\ pc["usb"] = "idle" /\ ShouldRefresh /\ ~connDirty
  /\ connDirty' = TRUE
  /\ UNCHANGED <<map, slots, schedVars, connected, connValid, epoch, taskVars, wire,
                 p4Vars, inputVars, nFaults, jogLost>>

\* publish_connection_refresh_from_usb_owner: a failed send stays dirty and is
\* tried again by a later pass of the client loop.
UsbPublish ==
  /\ pc["usb"] = "publish" \/ (pc["usb"] = "idle" /\ connDirty)
  /\ \/ /\ ShouldRefresh /\ connDirty
        /\ Transmit(Frame("conn", 0, IF connected THEN 1 ELSE 0))
        /\ connDirty' = FALSE
     \/ /\ ShouldRefresh /\ connDirty
        /\ Fail(Frame("conn", 0, 0))
        /\ UNCHANGED connDirty
     \/ /\ ~(ShouldRefresh /\ connDirty)
        /\ UNCHANGED <<wire, connDirty, nFaults, jogLost>>
  /\ Goto("usb", "idle")
  /\ UNCHANGED <<map, slots, schedVars, connected, connValid, epoch, hand, cursor,
                 snap, budget, p4Vars, inputVars>>

-----------------------------------------------------------------------------
(* Replays, by the heartbeat task and on connection.                        *)

\* What flx4_replay_known_input_snapshot copies.
KnownInputs == IF connected THEN map ELSE NothingKnown

HeartbeatStart ==
  /\ pc["hb"] = "idle" /\ connValid
  /\ connDirty' = TRUE
  /\ snap' = [snap EXCEPT !["hb"] = KnownInputs]
  /\ Goto("hb", "snap")
  /\ UNCHANGED <<map, slots, schedVars, connected, connValid, epoch, hand, cursor,
                 budget, wire, p4Vars, inputVars, nFaults, jogLost>>

\* flx4_map_emit_snapshot: a failed send does not stop it.
ReplayInput(t) ==
  /\ pc[t] = "snap"
  /\ \/ \E i \in AbsIds :
          /\ snap[t][i] # Unknown /\ \A j \in AbsIds : j < i => snap[t][j] = Unknown
          /\ snap' = [snap EXCEPT ![t][i] = Unknown]
          /\ LET f == Frame("cont", i, snap[t][i]) IN Transmit(f) \/ Fail(f)
          /\ UNCHANGED <<pc, cursor>>
     \/ /\ snap[t] = NothingKnown
        /\ Goto(t, "pick") /\ cursor' = [cursor EXCEPT ![t] = 0]
        /\ UNCHANGED <<snap, wire, nFaults, jogLost>>
  /\ UNCHANGED <<map, slots, schedVars, connVars, hand, budget, p4Vars, inputVars>>

-----------------------------------------------------------------------------
(* Held levels: flx4_flush_pending_held_states sends the dirty ones, and    *)
(* flx4_replay_known_held_snapshot every observed one.                      *)

IsNextHeld(t, k) == IF t = "tx" THEN IsNextDirty(slots, cursor[t], k)
                    ELSE IsNextObserved(slots, cursor[t], k)

AfterHeld(t) == CASE t = "tx" -> "fifo" [] t = "hb" -> "idle" [] t = "usb" -> "publish"

TranslatorStart ==
  /\ pc["tx"] = "idle"
  /\ Goto("tx", "pick") /\ cursor' = [cursor EXCEPT !["tx"] = 0]
  /\ UNCHANGED <<map, slots, schedVars, connVars, hand, snap, budget, wire, p4Vars,
                 inputVars, nFaults, jogLost>>

HeldPick(t) ==
  /\ pc[t] = "pick"
  /\ \/ \E k \in HeldKeys :
          /\ IsNextHeld(t, k)
          /\ hand' = [hand EXCEPT ![t] = Frame("held", k, slots[k].desired)]
          /\ cursor' = [cursor EXCEPT ![t] = k + 1]
          /\ Goto(t, "send")
          /\ UNCHANGED budget
     \/ /\ ~\E k \in HeldKeys : IsNextHeld(t, k)
        /\ Goto(t, AfterHeld(t))
        /\ budget' = IF t = "tx" THEN FifoBudget ELSE budget
        /\ UNCHANGED <<hand, cursor>>
  /\ UNCHANGED <<map, slots, schedVars, connVars, snap, wire, p4Vars, inputVars,
                 nFaults, jogLost>>

\* A level that could not be sent is not marked and ends the pass.
HeldSend(t) ==
  /\ pc[t] = "send"
  /\ \/ /\ Transmit(hand[t])
        /\ Goto(t, "mark")
        /\ UNCHANGED <<hand, budget>>
     \/ /\ Fail(hand[t])
        /\ Goto(t, AfterHeld(t))
        /\ hand' = [hand EXCEPT ![t] = NoFrame]
        /\ budget' = IF t = "tx" THEN FifoBudget ELSE budget
  /\ UNCHANGED <<map, slots, schedVars, connVars, cursor, snap, p4Vars, inputVars>>

HeldMark(t) ==
  /\ pc[t] = "mark"
  /\ slots' = [slots EXCEPT ![hand[t].id] = MarkScheduled(@, hand[t].val)]
  /\ hand' = [hand EXCEPT ![t] = NoFrame]
  /\ Goto(t, "pick")
  /\ UNCHANGED <<map, schedVars, connVars, cursor, snap, budget, wire, p4Vars,
                 inputVars, nFaults, jogLost>>

-----------------------------------------------------------------------------
(* flx4_schedule_pending_events after the held levels.                      *)

Oldest == Head(fifo)

TakeDiscrete ==
  /\ pc["tx"] = "fifo"
  /\ \/ /\ fifo # <<>> /\ budget > 0
        /\ hand' = [hand EXCEPT !["tx"] = Oldest]
        /\ fifo' = Tail(fifo)
        /\ budget' = budget - 1
        /\ Goto("tx", "fifoSend")
     \/ /\ fifo = <<>> \/ budget = 0
        /\ budget' = ContBudget
        /\ Goto("tx", "cont")
        /\ UNCHANGED <<hand, fifo>>
  /\ UNCHANGED <<map, slots, cont, contCursor, connVars, cursor, snap, wire, p4Vars,
                 inputVars, nFaults, jogLost>>

\* control_event_scheduler_take_continuous goes round from the cursor.
Distance(c) == (c - contCursor) % ContCap
IsNextContinuous(c) ==
  /\ cont[c].dirty
  /\ \A d \in ContSlots : cont[d].dirty => Distance(c) <= Distance(d)

TakeContinuous ==
  /\ pc["tx"] = "cont"
  /\ \/ \E c \in ContSlots :
          /\ IsNextContinuous(c) /\ budget > 0
          /\ hand' = [hand EXCEPT !["tx"] = cont[c].f]
          /\ cont' = [cont EXCEPT ![c].dirty = FALSE]
          /\ contCursor' = (c + 1) % ContCap
          /\ budget' = budget - 1
          /\ Goto("tx", "contSend")
     \/ /\ budget = 0 \/ \A c \in ContSlots : ~cont[c].dirty
        /\ Goto("tx", "idle")
        /\ budget' = 0
        /\ UNCHANGED <<hand, cont, contCursor>>
  /\ UNCHANGED <<map, slots, fifo, connVars, cursor, snap, wire, p4Vars, inputVars,
                 nFaults, jogLost>>

\* The result of these sends is ignored: what fails is lost.
SendScheduled ==
  /\ pc["tx"] \in {"fifoSend", "contSend"}
  /\ Transmit(hand["tx"]) \/ Fail(hand["tx"])
  /\ hand' = [hand EXCEPT !["tx"] = NoFrame]
  /\ Goto("tx", IF pc["tx"] = "fifoSend" THEN "fifo" ELSE "cont")
  /\ UNCHANGED <<map, slots, schedVars, connVars, cursor, snap, budget, p4Vars, inputVars>>

-----------------------------------------------------------------------------
(* The wire and the P4.                                                     *)

Receive ==
  /\ wire # <<>>
  /\ wire' = Tail(wire)
  /\ LET f == Head(wire) IN
       /\ p4Level' =
            CASE f.kind = "held" -> [p4Level EXCEPT ![f.id] = f.val]
              [] f.kind = "conn" /\ f.val = 0 ->
                   [k \in HeldKeys |-> IF p4Level[k] = Unknown THEN Unknown
                                       ELSE ReleaseOf[p4Level[k]]]
              [] OTHER -> p4Level
       /\ p4Abs' = IF f.kind = "cont" /\ f.id \in AbsIds
                   THEN [p4Abs EXCEPT ![f.id] = f.val] ELSE p4Abs
       /\ p4Jog' = p4Jog + JogOf(f)
       /\ p4Conn' = IF f.kind = "conn" THEN f.val ELSE p4Conn
       /\ p4Cmd' = IF f.kind = "cmd" THEN f.val ELSE p4Cmd
       /\ p4Ended' = IF f.kind = "conn" /\ f.val = 0 THEN f.ep ELSE p4Ended
       /\ late' = IF f.kind = "cmd" /\ f.ep <= p4Ended THEN late + 1 ELSE late
  /\ UNCHANGED <<map, slots, schedVars, connVars, taskVars, inputVars, nFaults, jogLost>>

\* A frame is damaged on the way and fails the P4's check.
Lose ==
  /\ wire # <<>> /\ nFaults < MaxFaults
  /\ wire' = Tail(wire)
  /\ nFaults' = nFaults + 1
  /\ jogLost' = jogLost + JogOf(Head(wire))
  /\ UNCHANGED <<map, slots, schedVars, connVars, taskVars, p4Vars, inputVars>>

\* The P4 restarts and knows nothing.
Restart ==
  /\ nFaults < MaxFaults
  /\ nFaults' = nFaults + 1
  /\ p4Level' = [k \in HeldKeys |-> Unknown]
  /\ p4Abs' = NothingKnown /\ p4Conn' = Unknown
  /\ UNCHANGED <<map, slots, schedVars, connVars, taskVars, wire, p4Jog, p4Cmd,
                 p4Ended, late, inputVars, jogLost>>

UsbStep == UsbReplay \/ UsbPublish \/ ReplayInput("usb") \/ HeldPick("usb") \/ HeldSend("usb")
             \/ HeldMark("usb")
HbStep == HeartbeatStart \/ ReplayInput("hb") \/ HeldPick("hb") \/ HeldSend("hb")
             \/ HeldMark("hb")
TxStep == TranslatorStart \/ HeldPick("tx") \/ HeldSend("tx") \/ HeldMark("tx")
             \/ TakeDiscrete \/ TakeContinuous \/ SendScheduled

Input ==
  \/ \E k \in HeldKeys, v \in Levels : MidiHeld(k, v)
  \/ \E i \in AbsIds, v \in AbsValues : MidiAbsolute(i, v)
  \/ \E i \in JogIds, d \in {-DeltaMax, DeltaMax} : MidiJog(i, d)
  \/ MidiDiscrete
  \/ UsbConnect \/ UsbDisconnect

Next == Input \/ UsbStep \/ HbStep \/ TxStep \/ Receive \/ Lose \/ Restart

\* The three tasks run for ever, a full UART drains into the P4, and a sender
\* waiting for it is served; nothing is assumed of the controller or of faults.
Spec ==
  /\ Init /\ [][Next]_vars
  /\ SF_vars(UsbStep) /\ SF_vars(HbStep) /\ SF_vars(TxStep) /\ WF_vars(Receive)

-----------------------------------------------------------------------------
\* The type invariant.  Beyond plain types: every bound of the scheduler holds,
\* no two slots hold the same control, and a sum fits an int16_t.
TypeOK ==
  /\ map \in [AbsIds -> AbsValues \cup {Unknown}]
  /\ slots \in [HeldKeys -> Slot]
  /\ Len(fifo) <= FifoCap /\ Len(wire) <= WireCap
  /\ \A c \in ContSlots :
       /\ cont[c].dirty => cont[c].assigned
       /\ cont[c].f.val \in -DeltaMax - 1 .. DeltaMax \/ cont[c].f.val \in AbsValues
       /\ \A d \in ContSlots : ScheduledIn(d, cont[c].f) /\ cont[c].assigned => c = d
  /\ contCursor \in ContSlots
  /\ connected => connValid
  /\ p4Level \in [HeldKeys -> Levels \cup {Unknown}]
  /\ p4Conn \in {Unknown, 0, 1}
  /\ budget \in 0 .. FifoBudget \cup 0 .. ContBudget

\* Nothing of an earlier connection is left to be sent once the USB task has
\* gone through the disconnection.
SchedulerFresh ==
  /\ \A i \in DOMAIN fifo : fifo[i].ep = epoch /\ connected
  /\ \A c \in ContSlots : cont[c].dirty => cont[c].f.ep = epoch /\ connected

\* A command that the translator had taken when the controller vanished may
\* reach the P4 after the P4 was told of the disconnection, but only that one.
AtMostOneLate == SchedulerFresh /\ late <= epoch

\* Discrete events reach the P4 in the order in which they happened.
CommandsInOrder ==
  [][\A i \in DOMAIN wire : i = 1 /\ wire[i].kind = "cmd" /\ wire' = Tail(wire)
        => wire[i].val > p4Cmd]_vars

\* The movement in a sequence of frames.
JogIn(q) == SumUpTo([n \in DOMAIN q |-> JogOf(q[n])], Len(q))

\* Movement is neither invented nor forgotten: what the jog wheel reported is
\* what the P4 was told, what is on its way, and what a failed send, a lost
\* frame, saturation or a disconnection is known to have discarded.
JogConserved ==
  jogIn = p4Jog + JogIn(wire) + JogOf(hand["tx"]) + ScheduledJog + jogLost

\* Whatever was lost, failed or restarted, and however the three senders
\* interleaved, the P4 ends up with every held control at its physical level.
HeldConverge ==
  <>[](\A k \in HeldKeys : slots[k].observed => p4Level[k] = slots[k].desired)

\* ... with every known absolute control at its position while connected ...
AbsConverge ==
  <>[](connected => \A i \in AbsIds : map[i] # Unknown => p4Abs[i] = map[i])

\* ... and with the connection state itself.
ConnConverge ==
  <>[](connValid => p4Conn = IF connected THEN 1 ELSE 0)
=============================================================================
