------------------------------ MODULE MidiHost ------------------------------
(***************************************************************************)
(* The S3's USB host for the controller (flx4_midi_host.c).  One client    *)
(* task owns the device handle, both transfers and the connection state:   *)
(* it handles USB events (whose callbacks run inside that call), then goes *)
(* through its loop: tear down, report, open, re-arm the transfers.        *)
(* Producers on other tasks put LED packets into the MIDI OUT queue.       *)
(*                                                                         *)
(* The USB host library is external: an unplugged device ends every        *)
(* transfer in flight with NO_DEVICE and reports DEV_GONE to a client that *)
(* has it open, in either order, and the port takes a new device only      *)
(* after the old handle is closed.                                         *)
(***************************************************************************)
EXTENDS Integers, Sequences, FiniteSets

CONSTANTS
  Producers,   \* tasks that send LED packets
  OutCap,      \* FLX4_MIDI_OUT_QUEUE_DEPTH
  BatchMax,    \* packets one OUT transfer carries
  MaxPlugs,    \* bound: devices plugged in
  MaxPackets,  \* bound: LED packets
  MaxFaults    \* bound: calls and transfers that fail

ASSUME MidiHostAssumption ==
  /\ OutCap \in Nat \ {0} /\ BatchMax \in Nat \ {0}
  /\ MaxPlugs \in Nat /\ MaxPackets \in Nat /\ MaxFaults \in Nat

VARIABLES
  plugged, plug,       \* a device is in the port; which one
  events,              \* client events not yet delivered
  opened, claimed, closing,
  pending,             \* pending_dev_addr, 0 when has_pending_dev is false
  inXfer, outXfer,     \* in_xfer and out_xfer are allocated
  inActive, outActive, \* transfer_active and out_transfer_active
  inFlight, outFlight, \* the library has the transfer
  payload,             \* what out_xfer holds while payload_pending
  audio,               \* the USB audio stream that shares the handle
  accepting,           \* s_midi_out_accepting
  queue,               \* s_midi_out_queue
  prod,                \* where each producer is, and the packet it holds
  epoch, connected,    \* s_connection_context
  stateValid, stateConn, stateDirty,  \* s_connection_state_*
  p4Conn,              \* the last report that reached the UART
  pc,                  \* where the client task is
  failed,              \* devices that could not be opened
  accepted, delivered, \* LED packets of this connection queued and sent
  nPackets, nFaults

bus == <<plugged, plug, events>>
host == <<opened, claimed, closing, pending>>
xfers == <<inXfer, outXfer, inActive, outActive, inFlight, outFlight, payload>>
conn == <<epoch, connected, stateValid, stateConn, stateDirty, p4Conn>>
out == <<accepting, queue, prod, accepted, delivered, nPackets>>
vars == <<bus, host, xfers, audio, conn, out, pc, failed, nFaults>>

Idle == [at |-> "idle", tag |-> 0]
InCalls == {p \in Producers : prod[p].at # "idle"}  \* s_midi_out_producers

Init ==
  /\ plugged = FALSE /\ plug = 0 /\ events = <<>>
  /\ opened = FALSE /\ claimed = FALSE /\ closing = FALSE /\ pending = 0
  /\ inXfer = FALSE /\ outXfer = FALSE /\ inActive = FALSE /\ outActive = FALSE
  /\ inFlight = FALSE /\ outFlight = FALSE /\ payload = <<>>
  /\ audio = "off"
  /\ epoch = 0 /\ connected = FALSE
  /\ stateValid = FALSE /\ stateConn = FALSE /\ stateDirty = FALSE /\ p4Conn = -1
  /\ accepting = FALSE /\ queue = <<>> /\ prod = [p \in Producers |-> Idle]
  /\ accepted = 0 /\ delivered = 0 /\ nPackets = 0
  /\ pc = "events" /\ failed = {} /\ nFaults = 0

Fault == nFaults < MaxFaults /\ nFaults' = nFaults + 1
NoFault == UNCHANGED nFaults

\* Wrong variants of definitions below, for checking the properties.
NobodyInside == {}
FreesActive(active) == TRUE
RetryDrops == <<>>
WholeQueue == Len(queue)
NeverRearms == FALSE
ReportsOnce == stateConn

-----------------------------------------------------------------------------
(* The port.                                                                *)

Plug ==
  /\ ~plugged /\ ~opened /\ plug < MaxPlugs
  /\ plugged' = TRUE /\ plug' = plug + 1
  /\ events' = Append(events, plug + 1)
  /\ UNCHANGED <<host, xfers, audio, conn, out, pc, failed, nFaults>>

\* 0 stands for DEV_GONE, a positive number for NEW_DEV with that address.
Unplug ==
  /\ plugged
  /\ plugged' = FALSE
  /\ events' = IF opened THEN Append(events, 0) ELSE events
  /\ UNCHANGED <<plug, host, xfers, audio, conn, out, pc, failed, nFaults>>

-----------------------------------------------------------------------------
(* usb_host_client_handle_events and its callbacks.                         *)

\* client_event_cb
ClientEvent ==
  /\ pc = "events" /\ events # <<>>
  /\ events' = Tail(events)
  /\ \/ /\ Head(events) # 0
        /\ pending' = Head(events)
        /\ UNCHANGED <<closing, accepting>>
     \/ /\ Head(events) = 0
        /\ closing' = TRUE /\ accepting' = FALSE
        /\ UNCHANGED pending
  /\ UNCHANGED <<plugged, plug, opened, claimed, xfers, audio, conn, queue, prod,
                 accepted, delivered, nPackets, pc, failed, nFaults>>

\* How the library ends a transfer: with the device gone it can only be
\* NO_DEVICE, otherwise it completes or fails.
Ends(status) ==
  \/ status = "no_device" /\ ~plugged /\ NoFault
  \/ status = "completed" /\ plugged /\ NoFault
  \/ status = "error" /\ plugged /\ Fault

\* midi_in_transfer_cb: freed when the device is gone or going, else resubmitted.
InCallback ==
  /\ pc = "events" /\ inFlight
  /\ \E status \in {"completed", "error", "no_device"} :
       \/ /\ Ends(status)
          /\ \/ /\ status = "no_device" \/ closing
                /\ inXfer' = FALSE /\ inActive' = FALSE /\ inFlight' = FALSE
             \/ /\ status # "no_device" /\ ~closing
                /\ inActive' = (opened /\ claimed) /\ inFlight' = (opened /\ claimed)
                /\ UNCHANGED inXfer
       \/ \* the resubmission fails
          /\ status = "completed" /\ plugged /\ ~closing /\ Fault
          /\ inActive' = FALSE /\ inFlight' = FALSE
          /\ UNCHANGED inXfer
  /\ UNCHANGED <<bus, host, outXfer, outActive, outFlight, payload, audio, conn, out,
                 pc, failed>>

\* What out_retry keeps of a transfer that ended in an error.
AfterError == payload

\* midi_out_submit_next: refill from the queue unless a payload is pending.
CanSubmitOut(active) == ~active /\ outXfer /\ opened /\ claimed /\ ~closing
Batch == IF Len(queue) < BatchMax THEN Len(queue) ELSE BatchMax
SubmitOut(held, faults) ==
  \/ /\ held = <<>> /\ queue = <<>>
     /\ payload' = <<>> /\ outActive' = FALSE /\ outFlight' = FALSE
     /\ nFaults' = faults
     /\ UNCHANGED queue
  \/ /\ held # <<>> \/ queue # <<>>
     /\ payload' = IF held = <<>> THEN SubSeq(queue, 1, Batch) ELSE held
     /\ queue' = IF held = <<>> THEN SubSeq(queue, Batch + 1, Len(queue)) ELSE queue
     /\ \/ outActive' = TRUE /\ outFlight' = TRUE /\ nFaults' = faults
        \/ /\ faults < MaxFaults /\ nFaults' = faults + 1
           /\ outActive' = FALSE /\ outFlight' = FALSE

\* midi_out_transfer_cb
OutCallback ==
  /\ pc = "events" /\ outFlight
  /\ \/ /\ ~plugged \/ closing            \* NO_DEVICE, or going away
        /\ outXfer' = FALSE /\ outActive' = FALSE /\ outFlight' = FALSE
        /\ payload' = <<>>
        /\ delivered' = IF plugged THEN delivered + Len(payload) ELSE delivered
        /\ UNCHANGED <<queue, nFaults>>
     \/ /\ plugged /\ ~closing /\ CanSubmitOut(FALSE)
        /\ delivered' = delivered + Len(payload)
        /\ SubmitOut(<<>>, nFaults)
        /\ UNCHANGED outXfer
     \/ \* an error: the payload is kept and submitted again
        /\ plugged /\ ~closing /\ CanSubmitOut(FALSE) /\ nFaults < MaxFaults
        /\ SubmitOut(AfterError, nFaults + 1)
        /\ UNCHANGED <<outXfer, delivered>>
  /\ UNCHANGED <<bus, host, inXfer, inActive, inFlight, audio, conn, accepting, prod,
                 accepted, nPackets, pc, failed>>

\* The audio component's own transfers drain once it was asked to stop.
AudioDrains ==
  /\ audio = "stopping" /\ pc = "events"
  /\ audio' = "off"
  /\ UNCHANGED <<bus, host, xfers, conn, out, pc, failed, nFaults>>

EventsDone ==
  /\ pc = "events"
  /\ pc' = IF closing THEN "gate" ELSE "report"
  /\ UNCHANGED <<bus, host, xfers, audio, conn, out, failed, nFaults>>

-----------------------------------------------------------------------------
(* close_device_step.                                                       *)

StillInside == InCalls

\* No new packet is accepted, and nobody may still be inside send_packet.
CloseGate ==
  /\ pc = "gate"
  /\ closing' = TRUE /\ accepting' = FALSE
  /\ pc' = IF StillInside = {} THEN "close" ELSE "events"
  /\ UNCHANGED <<bus, opened, claimed, pending, xfers, audio, conn, queue, prod,
                 accepted, delivered, nPackets, failed, nFaults>>

MayFree(active) == ~active

\* publish_connection_state and publish_connection_refresh_from_usb_owner: a
\* report that the UART refuses stays dirty.
Report(c) ==
  \/ p4Conn' = (IF c THEN 1 ELSE 0) /\ stateDirty' = FALSE /\ NoFault
  \/ Fault /\ stateDirty' = TRUE /\ UNCHANGED p4Conn

Observe(c) == stateValid' = TRUE /\ stateConn' = c

CloseStep ==
  /\ pc = "close"
  /\ queue' = <<>>
  /\ inXfer' = (inXfer /\ ~MayFree(inActive))
  /\ outXfer' = (outXfer /\ ~MayFree(outActive))
  /\ payload' = IF outXfer' THEN payload ELSE <<>>
  /\ pc' = "events"
  /\ \/ \* still draining
        /\ inXfer' \/ outXfer' \/ inActive \/ outActive \/ audio # "off"
        /\ audio' = IF audio = "on" THEN "stopping" ELSE audio
        /\ UNCHANGED <<opened, claimed, closing, conn, nFaults>>
     \/ \* releasing the interface or closing the handle fails
        /\ ~(inXfer' \/ outXfer' \/ inActive \/ outActive \/ audio # "off")
        /\ opened /\ Fault
        /\ claimed' \in {claimed, FALSE}
        /\ UNCHANGED <<opened, closing, audio, conn>>
     \/ /\ ~(inXfer' \/ outXfer' \/ inActive \/ outActive \/ audio # "off")
        /\ claimed' = FALSE /\ opened' = FALSE /\ closing' = FALSE
        /\ connected' = FALSE
        /\ Observe(FALSE)
        /\ IF stateConn \/ ~stateValid \/ stateDirty
           THEN Report(FALSE)
           ELSE UNCHANGED <<stateDirty, p4Conn, nFaults>>
        /\ UNCHANGED <<audio, epoch>>
  /\ UNCHANGED <<bus, pending, inActive, outActive, inFlight, outFlight, accepting,
                 prod, accepted, delivered, nPackets, failed>>

-----------------------------------------------------------------------------
(* The rest of the client loop.                                             *)

RefreshWanted == stateValid

\* A replay of the connection state: always when it is dirty, and once a
\* second or when the heartbeat task asks.
Refresh ==
  /\ pc = "report"
  /\ \/ RefreshWanted /\ Report(stateConn)
     \/ ~(RefreshWanted /\ stateDirty) /\ UNCHANGED <<stateDirty, p4Conn, nFaults>>
  /\ pc' = "open"
  /\ UNCHANGED <<bus, host, xfers, audio, epoch, connected, stateValid, stateConn, out,
                 failed>>

OpenNothing ==
  /\ pc = "open" /\ (pending = 0 \/ opened)
  /\ pending' = 0
  /\ pc' = IF pending = 0 THEN "pump" ELSE "events"
  /\ UNCHANGED <<bus, opened, claimed, closing, xfers, audio, conn, out, failed, nFaults>>

\* open_device that succeeds.
OpenDevice ==
  /\ pc = "open" /\ pending # 0 /\ ~opened
  /\ plugged /\ pending = plug
  /\ opened' = TRUE /\ claimed' = TRUE /\ closing' = FALSE /\ pending' = 0
  /\ inXfer' = TRUE /\ inActive' = TRUE /\ inFlight' = TRUE
  /\ outXfer' = TRUE /\ outActive' = FALSE /\ outFlight' = FALSE /\ payload' = <<>>
  /\ audio' \in {"off", "on"}
  /\ epoch' = epoch + 1 /\ connected' = TRUE
  /\ accepting' = TRUE /\ accepted' = 0 /\ delivered' = 0
  /\ Observe(TRUE) /\ Report(TRUE)
  /\ pc' = "pump"
  /\ UNCHANGED <<bus, queue, prod, nPackets, failed>>

\* open_device that fails on the way, with what it had acquired by then.
OpenFails ==
  /\ pc = "open" /\ pending # 0 /\ ~opened
  /\ IF plugged /\ pending = plug THEN Fault ELSE NoFault
  /\ failed' = failed \cup {pending}
  /\ pending' = 0 /\ accepting' = FALSE
  /\ \E got \in {"nothing", "handle", "interface", "out", "in"} :
       /\ (plugged /\ pending = plug) \/ got = "nothing"
       /\ opened' = (got # "nothing")
       /\ claimed' = (got \in {"interface", "out", "in"})
       /\ outXfer' = (got \in {"out", "in"})
       /\ inXfer' = (got = "in")
       /\ audio' \in (IF got = "nothing" THEN {"off"} ELSE {"off", "on"})
  /\ closing' = TRUE
  /\ outActive' = FALSE /\ UNCHANGED <<inActive, inFlight, outFlight, payload>>
  /\ pc' = "gate"
  /\ UNCHANGED <<bus, conn, queue, prod, accepted, delivered, nPackets>>

Rearms == inXfer /\ ~inActive /\ opened /\ claimed /\ ~closing

\* midi_in_pump
PumpIn ==
  /\ pc = "pump"
  /\ pc' = "pumpOut"
  /\ \/ /\ Rearms
        /\ \/ inActive' = TRUE /\ inFlight' = TRUE /\ NoFault
           \/ Fault /\ UNCHANGED <<inActive, inFlight>>
     \/ ~Rearms /\ UNCHANGED <<inActive, inFlight, nFaults>>
  /\ UNCHANGED <<bus, host, inXfer, outXfer, outActive, outFlight, payload, audio, conn,
                 out, failed>>

\* midi_out_pump
PumpOut ==
  /\ pc = "pumpOut"
  /\ pc' = "events"
  /\ \/ /\ CanSubmitOut(outActive)
        /\ SubmitOut(payload, nFaults)
     \/ /\ ~CanSubmitOut(outActive)
        /\ UNCHANGED <<payload, queue, outActive, outFlight, nFaults>>
  /\ UNCHANGED <<bus, host, inXfer, inActive, inFlight, outXfer, audio, conn, accepting,
                 prod, accepted, delivered, nPackets, failed>>

-----------------------------------------------------------------------------
(* flx4_midi_host_send_packet, from any other task.                         *)

ProducerEnter(p) ==
  /\ prod[p].at = "idle" /\ nPackets < MaxPackets
  /\ nPackets' = nPackets + 1
  /\ prod' = [prod EXCEPT ![p] = [at |-> "check", tag |-> 0]]
  /\ UNCHANGED <<bus, host, xfers, audio, conn, accepting, queue, accepted, delivered,
                 pc, failed, nFaults>>

\* The packet was made for the connection that was open at this moment.
ProducerCheck(p) ==
  /\ prod[p].at = "check"
  /\ prod' = [prod EXCEPT ![p] = IF accepting THEN [at |-> "send", tag |-> epoch] ELSE Idle]
  /\ UNCHANGED <<bus, host, xfers, audio, conn, accepting, queue, accepted, delivered,
                 nPackets, pc, failed, nFaults>>

\* A full queue drops the packet, and a nearly full one a VU meter packet.
ProducerSend(p) ==
  /\ prod[p].at = "send"
  /\ prod' = [prod EXCEPT ![p] = Idle]
  /\ \/ /\ Len(queue) < OutCap
        /\ queue' = Append(queue, prod[p].tag)
        /\ accepted' = accepted + 1
     \/ UNCHANGED <<queue, accepted>>
  /\ UNCHANGED <<bus, host, xfers, audio, conn, accepting, delivered, nPackets,
                 pc, failed, nFaults>>

-----------------------------------------------------------------------------
ClientStep ==
  \/ ClientEvent \/ InCallback \/ OutCallback \/ AudioDrains
  \/ EventsDone \/ CloseGate \/ CloseStep \/ Refresh
  \/ OpenNothing \/ OpenDevice \/ OpenFails \/ PumpIn \/ PumpOut

ProducerStep == \E p \in Producers : ProducerCheck(p) \/ ProducerSend(p)

Next ==
  \/ Plug \/ Unplug
  \/ ClientStep
  \/ \E p \in Producers : ProducerEnter(p) \/ ProducerCheck(p) \/ ProducerSend(p)

\* The client task loops for ever and handles every event that is due, a
\* producer leaves send_packet, and the library ends transfers.
Spec ==
  /\ Init /\ [][Next]_vars
  /\ WF_vars(ClientStep) /\ WF_vars(ProducerStep)
  /\ SF_vars(ClientEvent) /\ SF_vars(InCallback) /\ SF_vars(OutCallback)
  /\ SF_vars(AudioDrains)

-----------------------------------------------------------------------------
\* The type invariant.  Beyond plain types: the queue keeps its bound and a
\* transfer's payload fits its buffer.
TypeOK ==
  /\ plugged \in BOOLEAN /\ plug \in 0 .. MaxPlugs
  /\ opened \in BOOLEAN /\ claimed \in BOOLEAN /\ closing \in BOOLEAN
  /\ pending \in 0 .. plug
  /\ Len(queue) <= OutCap /\ Len(payload) <= BatchMax
  /\ audio \in {"off", "on", "stopping"} /\ p4Conn \in {-1, 0, 1}
  /\ pc \in {"events", "gate", "close", "report", "open", "pump", "pumpOut"}

\* The library never loses a transfer under its feet: what is in flight is
\* allocated and known to be active, and the handle is open for as long as a
\* transfer, the interface or the audio stream needs it.
HandleOutlivesTransfers ==
  /\ inFlight = inActive /\ outFlight = outActive
  /\ inFlight => inXfer
  /\ outFlight => outXfer
  /\ inXfer \/ outXfer \/ claimed \/ audio # "off" => opened

\* "otherwise one stale LED packet can survive into the next controller
\* connection": every packet that waits or is in flight while packets are
\* accepted belongs to the connection that is open.
LedsFresh ==
  /\ accepting => \A i \in DOMAIN queue : queue[i] = epoch
  /\ outFlight => \A i \in DOMAIN payload : payload[i] = epoch

\* Until the device is gone a failed submit or transfer loses no LED packet:
\* all that were queued are delivered, waiting or in the retried payload.
LedsConserved ==
  accepting /\ outXfer => accepted = delivered + Len(queue) + Len(payload)

\* A MIDI IN transfer that could not be resubmitted is armed again, or the
\* controller is gone: input never dies silently.
InputAlive == connected /\ ~inFlight ~> inFlight \/ ~connected

\* A device that stays in the port and opened without an error ends up
\* connected and one that is gone disconnected, and the P4 is told.
StateConverges ==
  <>[](/\ stateValid => p4Conn = IF stateConn THEN 1 ELSE 0
       /\ plug > 0 /\ plug \notin failed => stateConn = plugged)
=============================================================================
