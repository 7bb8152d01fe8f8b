-------------------------- MODULE ProfileTransfer --------------------------
(***************************************************************************)
(* How a controller profile gets from the P4's SD card into the S3's       *)
(* runtime: controller_profile_manager.c on the P4, handle_profile_frame,  *)
(* cp_xfer.c, flx4_profile_activate_cb and controller_profile_runtime.c on *)
(* the S3.                                                                 *)
(*                                                                         *)
(* The S3 announces the controller it has opened, tagged with the epoch of *)
(* the connection, and repeats the announcement.  On the P4 the UART task  *)
(* ("rx") queues announcements for a descriptor task, which matches them   *)
(* against the registry and hands a transfer to a sender task; the sender  *)
(* streams BEGIN, the chunks, END and ACTIVATE and waits for a reply to    *)
(* each but the chunks.  Replies carry no transfer number, so a late reply *)
(* may meet a later request.  A web request may replace the profile.       *)
(*                                                                         *)
(* The registry, the announcement queue and the transfer mark are touched  *)
(* under one mutex; nothing is locked while frames travel or files are     *)
(* read.                                                                   *)
(***************************************************************************)
EXTENDS Integers, Sequences, FiniteSets

CONSTANTS
  Devices,     \* controllers (their VID and PID)
  NChunks,     \* PROFILE_CHUNK frames a profile takes
  Attempts,    \* CPM_SEND_ATTEMPTS
  DescCap,     \* slots of s_descriptor_q
  SendCap,     \* slots of s_send_q
  MaxPlugs,    \* bound: times a controller is plugged in, or found by a restarted S3
  MaxEvents,   \* bound: lost frames, failed sends and allocations, early timeouts, restarts,
               \* announcements that meet other traffic, and
               \* installations, together
  MaxInstalls  \* bound: those of them that install a profile over the web

NoDevice == "none"

ASSUME ProfileAssumption ==
  /\ NoDevice \notin Devices
  /\ NChunks \in Nat \ {0} /\ Attempts \in Nat \ {0}
  /\ DescCap \in Nat \ {0} /\ SendCap \in Nat \ {0}
  /\ MaxPlugs \in Nat /\ MaxEvents \in Nat /\ MaxInstalls \in Nat

VARIABLES
  attached,  \* the controller on the cable, NoDevice if none
  session,   \* counts them
  ctx,       \* s_connection_context
  usbPc,     \* what the USB task still has to publish: "idle", "announce", "retire"
  rcv,       \* s_xfer, s_profile_stored and s_profile_connection_epoch
  act,       \* an activation that has passed the epoch check
  rt,        \* controller_profile_runtime's s_active and s_bound_*
  up, down,  \* the two directions of the UART
  reg,       \* s_registry: the controller and its transfer_state
  known,     \* s_registry.profiles
  mark,      \* s_transferred_*
  descQ, descHand,  \* s_descriptor_q and the announcement in the task's hand
  sendQ, snd,       \* s_send_q and the sender task
  reply,     \* s_reply_sem with s_reply_ack and s_reply_ref
  card,      \* the version of each profile on the SD card, 0 for none
  inst,      \* the web request that installs a profile
  restarted, \* the S3 has restarted
  nEvents, nInstalls

s3Vars == <<ctx, usbPc, rcv, act, rt>>
descVars == <<descQ, descHand>>
sendVars == <<snd, reply>>
regVars == <<reg, known, mark>>
p4Vars == <<regVars, descVars, sendQ, sendVars, inst>>
cableVars == <<attached, session>>
envVars == <<cableVars, card, restarted, nEvents, nInstalls>>
vars == <<s3Vars, up, down, p4Vars, envVars>>

\* "from" is the session a record stems from; the program does not have it.
NoCtx == [conn |-> FALSE, dev |-> NoDevice, ep |-> 0, from |-> 0]
NoRcv == [st |-> "idle", dev |-> NoDevice, ver |-> 0, got |-> 0, good |-> TRUE,
          stored |-> FALSE, ep |-> 0, from |-> 0]
\* A transfer in error: nothing of it is looked at again.
Spoilt == [NoRcv EXCEPT !.st = "error"]
NoRt == [on |-> FALSE, dev |-> NoDevice, ep |-> 0, ver |-> 0, from |-> 0]
NoReg == [present |-> FALSE, dev |-> NoDevice, ep |-> 0, st |-> "idle"]
NoMark == [valid |-> FALSE, dev |-> NoDevice, ep |-> 0]
NoDesc == [pc |-> "idle", dev |-> NoDevice, ep |-> 0]
NoSnd == [pc |-> "idle", dev |-> NoDevice, ep |-> 0, ver |-> 0, try |-> 0, off |-> 0]
NoReply == [given |-> FALSE, ack |-> FALSE, ref |-> "none"]
NoInst == [pc |-> "idle", dev |-> NoDevice, ep |-> 0]

\* controller_profile_scan_dir
OnCard == {d \in Devices : card[d] > 0}

P4Boots ==
  /\ reg' = NoReg /\ mark' = NoMark /\ known' = OnCard
  /\ descQ' = <<>> /\ descHand' = NoDesc /\ sendQ' = <<>> /\ snd' = NoSnd
  /\ reply' = NoReply /\ inst' = NoInst

Init ==
  /\ attached = NoDevice /\ session = 0
  /\ card \in [Devices -> {0, 1}]
  /\ restarted = FALSE /\ nEvents = 0 /\ nInstalls = 0
  /\ ctx = NoCtx /\ usbPc = "idle" /\ rcv = NoRcv /\ act = NoRt /\ rt = NoRt
  /\ up = <<>> /\ down = <<>>
  /\ reg = NoReg /\ mark = NoMark /\ known = OnCard
  /\ descQ = <<>> /\ descHand = NoDesc /\ sendQ = <<>> /\ snd = NoSnd
  /\ reply = NoReply /\ inst = NoInst

Disturbances == nEvents + nInstalls

Event == Disturbances < MaxEvents /\ nEvents' = nEvents + 1

\* Mutant: the runtime does not compare epochs.
BoundToDevice(c) == rt.on /\ c.ep # 0 /\ rt.dev = c.dev

\* controller_profile_runtime_bound_to, for the connection that is open now.
BoundTo(c) == rt.on /\ c.ep # 0 /\ rt.dev = c.dev /\ rt.ep = c.ep

Bound == ctx.conn /\ BoundTo(ctx)

-----------------------------------------------------------------------------
(* The cable and the S3's USB task.                                         *)

\* Replugging before the S3 has closed the device is MidiHost's concern.
Plug(d) ==
  /\ attached = NoDevice /\ session < MaxPlugs /\ ~ctx.conn
  /\ attached' = d /\ session' = session + 1
  /\ UNCHANGED <<s3Vars, up, down, p4Vars, card, restarted, nEvents, nInstalls>>

Unplug ==
  /\ attached # NoDevice
  /\ attached' = NoDevice
  /\ UNCHANGED <<s3Vars, up, down, p4Vars, session, card, restarted, nEvents, nInstalls>>

\* open_device publishes the context with the next epoch, then announces.
UsbOpen ==
  /\ usbPc = "idle" /\ ~ctx.conn /\ attached # NoDevice
  /\ ctx' = [conn |-> TRUE, dev |-> attached, ep |-> ctx.ep + 1, from |-> session]
  /\ usbPc' = "announce"
  /\ UNCHANGED <<rcv, act, rt, up, down, p4Vars, envVars>>

\* close_device_step withdraws the context, then the runtime's profile.
UsbClose ==
  /\ usbPc = "idle" /\ ctx.conn /\ attached = NoDevice
  /\ ctx' = [ctx EXCEPT !.conn = FALSE, !.dev = NoDevice]
  /\ usbPc' = "retire"
  /\ UNCHANGED <<rcv, act, rt, up, down, p4Vars, envVars>>

Announcement ==
  [t |-> IF ctx.conn THEN "desc" ELSE "disc", dev |-> ctx.dev, ep |-> ctx.ep,
   ack |-> FALSE, ref |-> "none"]

\* publish_connection_state, with flx4_controller_connection_cb.
UsbPublish ==
  /\ usbPc # "idle" /\ usbPc' = "idle"
  /\ up' = Append(up, Announcement)
  /\ rt' = IF usbPc = "retire" THEN NoRt ELSE rt
  /\ UNCHANGED <<ctx, rcv, act, down, p4Vars, envVars>>

Quiet ==
  /\ up = <<>> /\ down = <<>> /\ ~act.on
  /\ descQ = <<>> /\ descHand = NoDesc /\ sendQ = <<>> /\ snd = NoSnd

\* The repeated announcement.  Seconds apart, where a transfer takes less:
\* that it meets other traffic happens within the fault bound.
Repeat ==
  /\ usbPc = "idle" /\ ctx.ep > 0
  /\ \/ Quiet /\ UNCHANGED nEvents
     \/ ~Quiet /\ Event
  /\ up' = Append(up, Announcement)
  /\ UNCHANGED <<s3Vars, down, p4Vars, cableVars, card, restarted, nInstalls>>

S3Restart ==
  /\ Event /\ restarted' = TRUE
  /\ session < MaxPlugs /\ session' = session + 1
  /\ ctx' = NoCtx /\ usbPc' = "idle" /\ rcv' = NoRcv /\ act' = NoRt /\ rt' = NoRt
  /\ down' = <<>>
  /\ UNCHANGED <<up, p4Vars, attached, card, nInstalls>>

-----------------------------------------------------------------------------
(* handle_profile_frame, on the S3's UART task.                             *)

Reply(ok, ref) ==
  up' = Append(up, [t |-> "reply", dev |-> NoDevice, ep |-> 0, ack |-> ok, ref |-> ref])

S3Takes(t) ==
  /\ ~act.on /\ down # <<>> /\ Head(down).t = t
  /\ down' = Tail(down)
  /\ UNCHANGED <<ctx, usbPc, p4Vars, envVars>>

S3Begin ==
  /\ S3Takes("begin")
  /\ LET f == Head(down)
         ok == ctx.conn /\ ctx.dev = f.dev
     IN /\ rcv' = IF ok THEN [st |-> "receiving", dev |-> f.dev, ver |-> f.ver,
                              got |-> 0, good |-> TRUE, stored |-> FALSE,
                              ep |-> ctx.ep, from |-> ctx.from]
                  ELSE rcv
        /\ Reply(ok, "begin")
  /\ UNCHANGED <<act, rt>>

\* There is no memory for the buffer of the first transfer.
S3NoBuffer ==
  /\ ~act.on /\ down # <<>> /\ Head(down).t = "begin"
  /\ ctx.conn /\ ctx.dev = Head(down).dev
  /\ Event
  /\ down' = Tail(down)
  /\ Reply(FALSE, "begin")
  /\ UNCHANGED <<s3Vars, p4Vars, cableVars, card, restarted, nInstalls>>

\* cp_xfer_rx_chunk: a chunk in its place is accepted silently.
S3Chunk ==
  /\ S3Takes("chunk")
  /\ LET f == Head(down)
     IN IF rcv.st # "receiving"
        THEN Reply(FALSE, "chunk") /\ UNCHANGED rcv
        ELSE IF f.off = rcv.got
        THEN /\ rcv' = [rcv EXCEPT !.got = @ + 1,
                                   !.good = @ /\ f.dev = rcv.dev /\ f.ver = rcv.ver]
             /\ UNCHANGED up
        ELSE rcv' = Spoilt /\ Reply(FALSE, "chunk")
  /\ UNCHANGED <<act, rt>>

\* cp_xfer_rx_end: the checksum tells a complete profile from anything else.
Complete == rcv.got = NChunks /\ rcv.good

S3End ==
  /\ S3Takes("end")
  /\ IF rcv.st # "receiving" THEN UNCHANGED rcv /\ Reply(FALSE, "end")
     ELSE IF Complete
     THEN rcv' = [rcv EXCEPT !.st = "stored", !.stored = TRUE] /\ Reply(TRUE, "end")
     ELSE rcv' = Spoilt /\ Reply(FALSE, "end")
  /\ UNCHANGED <<act, rt>>

\* flx4_profile_activate_cb: is the connection still the one of the BEGIN?
StillCurrent == ctx.conn /\ ctx.dev = rcv.dev /\ ctx.ep = rcv.ep

S3Activate ==
  /\ S3Takes("activate")
  /\ IF rcv.stored /\ StillCurrent
     THEN /\ act' = [on |-> TRUE, dev |-> rcv.dev, ep |-> rcv.ep, ver |-> rcv.ver,
                     from |-> rcv.from]
          /\ UNCHANGED up
     ELSE Reply(FALSE, "activate") /\ UNCHANGED act
  /\ UNCHANGED <<rcv, rt>>

\* controller_profile_runtime_activate, after the check above.
S3Install ==
  /\ act.on
  /\ rt' = act /\ act' = NoRt
  /\ Reply(TRUE, "activate")
  /\ UNCHANGED <<ctx, usbPc, rcv, down, p4Vars, envVars>>

S3Clear ==
  /\ S3Takes("clear")
  /\ rcv' = NoRcv /\ rt' = NoRt
  /\ Reply(TRUE, "clear")
  /\ UNCHANGED act

-----------------------------------------------------------------------------
(* The P4's UART task.                                                      *)

DownFrame(t, d, v, o) == [t |-> t, dev |-> d, ver |-> v, off |-> o]

RxTakes(t) ==
  /\ up # <<>> /\ Head(up).t = t
  /\ up' = Tail(up)
  /\ UNCHANGED <<s3Vars, known, sendQ, snd, inst, envVars>>

\* cpm_on_reply: one semaphore, the latest reply.
RxReply ==
  /\ RxTakes("reply")
  /\ reply' = [given |-> TRUE, ack |-> Head(up).ack, ref |-> Head(up).ref]
  /\ UNCHANGED <<reg, mark, descVars, down>>

Report(d, e) == [dev |-> d, ep |-> e, stale |-> FALSE]

\* Mutant: nothing is dropped.
NoDrop(q) == q

MakeRoom(q) == IF Len(q) = DescCap THEN Tail(q) ELSE q

\* controller_profile_manager_on_descriptor_report: a full queue loses its
\* oldest announcement.
RxDescriptor ==
  /\ RxTakes("desc")
  /\ descQ' = Append(MakeRoom(descQ), Report(Head(up).dev, Head(up).ep))
  /\ UNCHANGED <<reg, mark, descHand, reply, down>>

\* on_controller_connection_state with controller_profile_manager_on_disconnect.
\* Announcements that carry an older s_connection_generation are marked stale.
Retired(q) == [i \in DOMAIN q |-> [q[i] EXCEPT !.stale = TRUE]]

RxDisconnect ==
  /\ RxTakes("disc")
  /\ down' = Append(down, DownFrame("clear", NoDevice, 0, 0))
  /\ reg' = NoReg /\ mark' = NoMark
  /\ descQ' = Retired(descQ)
  /\ UNCHANGED <<descHand, reply>>

-----------------------------------------------------------------------------
(* cpm_descriptor_task.  The generation and the storage flag are checked    *)
(* before the mutex is taken.                                               *)

Busy == inst.pc \in {"write", "apply", "release"}

DescTake ==
  /\ descHand.pc = "idle" /\ descQ # <<>>
  /\ descQ' = Tail(descQ)
  /\ descHand' = IF Head(descQ).stale THEN descHand
                 ELSE [pc |-> "wait", dev |-> Head(descQ).dev, ep |-> Head(descQ).ep]
  /\ UNCHANGED <<s3Vars, up, down, regVars, sendQ, sendVars, inst, envVars>>

DescAdmit ==
  /\ descHand.pc = "wait" /\ ~Busy
  /\ descHand' = [descHand EXCEPT !.pc = "go"]
  /\ UNCHANGED <<s3Vars, up, down, regVars, descQ, sendQ, sendVars, inst, envVars>>

\* controller_profile_descriptor_is_fresh
IsFresh(d, e) ==
  /\ e # 0
  /\ reg.present => IF reg.ep = e THEN reg.dev = d ELSE e > reg.ep

\* cpm_on_descriptor_locked
Transferring(d, e) == reg.present /\ reg.dev = d /\ reg.ep = e /\ reg.st = "transferring"

AlreadySent(d, e) == mark.valid /\ mark.dev = d /\ mark.ep = e

Match(d, e, st) == reg' = [present |-> TRUE, dev |-> d, ep |-> e, st |-> st]

DescProcess ==
  /\ descHand.pc = "go" /\ descHand' = NoDesc
  /\ LET d == descHand.dev
         e == descHand.ep
     IN \/ /\ ~IsFresh(d, e) \/ Transferring(d, e)
           /\ UNCHANGED <<reg, mark, sendQ>>
        \/ /\ IsFresh(d, e) /\ ~Transferring(d, e) /\ d \notin known
           /\ Match(d, e, "unsupported") /\ mark' = NoMark
           /\ UNCHANGED sendQ
        \/ /\ IsFresh(d, e) /\ ~Transferring(d, e) /\ d \in known
           /\ IF AlreadySent(d, e) THEN Match(d, e, "active") /\ UNCHANGED sendQ
              ELSE IF Len(sendQ) < SendCap
              THEN Match(d, e, "transferring") /\ sendQ' = Append(sendQ, d)
              ELSE /\ Match(d, e, IF reg.st = "active" /\ reg.dev = d THEN "active"
                                  ELSE "matched")
                   /\ UNCHANGED sendQ
           /\ UNCHANGED mark
  /\ UNCHANGED <<s3Vars, up, down, known, descQ, sendVars, inst, envVars>>

-----------------------------------------------------------------------------
(* cpm_sender_task and cpm_stream_profile.                                  *)

SenderTake ==
  /\ snd.pc = "idle" /\ sendQ # <<>>
  /\ sendQ' = Tail(sendQ)
  /\ LET d == Head(sendQ)
         wanted == reg.present /\ reg.dev = d /\ d \in known /\ reg.st = "transferring"
     IN snd' = IF wanted THEN [NoSnd EXCEPT !.pc = "read", !.dev = d, !.ep = reg.ep] ELSE snd
  /\ UNCHANGED <<s3Vars, up, down, regVars, descVars, reply, inst, envVars>>

\* The file is read under the card's gate, which an installation also takes.
SenderRead ==
  /\ snd.pc = "read"
  /\ \/ snd' = [snd EXCEPT !.pc = "begin", !.ver = card[snd.dev], !.try = 1] /\ UNCHANGED nEvents
     \/ snd' = [snd EXCEPT !.pc = "failed"] /\ Event
  /\ UNCHANGED <<s3Vars, up, down, regVars, descVars, sendQ, reply, inst, cableVars, card,
                 restarted, nInstalls>>

NextAttempt ==
  snd' = IF snd.try = Attempts THEN [snd EXCEPT !.pc = "failed"]
         ELSE [snd EXCEPT !.pc = "begin", !.try = @ + 1]

\* Replies left over from an earlier attempt are drained before BEGIN.
Drained == IF snd.pc = "begin" THEN NoReply ELSE reply

AfterSend ==
  [snd EXCEPT
     !.pc = CASE snd.pc = "begin" -> "await begin"
              [] snd.pc = "chunk" -> IF snd.off + 1 = NChunks THEN "end" ELSE "chunk"
              [] snd.pc = "end" -> "await end"
              [] snd.pc = "activate" -> "await activate",
     !.off = IF snd.pc = "chunk" THEN @ + 1 ELSE 0]

SenderSend ==
  /\ snd.pc \in {"begin", "chunk", "end", "activate"}
  /\ reply' = Drained
  /\ \/ /\ down' = Append(down, DownFrame(snd.pc, snd.dev, snd.ver, snd.off))
        /\ snd' = AfterSend
        /\ UNCHANGED nEvents
     \/ NextAttempt /\ Event /\ UNCHANGED down
  /\ UNCHANGED <<s3Vars, up, regVars, descVars, sendQ, inst, cableVars, card, restarted,
                 nInstalls>>

\* cpm_wait_reply
Expected == CASE snd.pc = "await begin" -> "begin"
              [] snd.pc = "await end" -> "end"
              [] snd.pc = "await activate" -> "activate"
              [] OTHER -> "none"

Accepts == reply.ack /\ reply.ref = Expected

SenderReply ==
  /\ Expected # "none" /\ reply.given
  /\ reply' = NoReply
  /\ IF Accepts
     THEN snd' = [snd EXCEPT !.pc = CASE Expected = "begin" -> "chunk"
                                       [] Expected = "end" -> "activate"
                                       [] Expected = "activate" -> "done"]
     ELSE NextAttempt
  /\ UNCHANGED <<s3Vars, up, down, regVars, descVars, sendQ, inst, envVars>>

\* Two seconds pass: because no reply will come, or, as a fault, too early.
NoReplyComing == down = <<>> /\ up = <<>> /\ ~act.on

SenderTimeout ==
  /\ Expected # "none" /\ ~reply.given
  /\ \/ NoReplyComing /\ UNCHANGED nEvents
     \/ ~NoReplyComing /\ Event
  /\ NextAttempt
  /\ UNCHANGED <<s3Vars, up, down, regVars, descVars, sendQ, reply, inst, cableVars, card,
                 restarted, nInstalls>>

\* The registry may have moved on to another connection in the meantime.
StillConnected == reg.present /\ reg.dev = snd.dev /\ reg.ep = snd.ep /\ snd.dev \in known

SenderFinish ==
  /\ snd.pc \in {"done", "failed"}
  /\ snd' = NoSnd
  /\ IF StillConnected
     THEN reg' = [reg EXCEPT !.st = IF snd.pc = "done" THEN "active" ELSE "failed"]
     ELSE UNCHANGED reg
  /\ mark' = IF StillConnected /\ snd.pc = "done"
             THEN [valid |-> TRUE, dev |-> snd.dev, ep |-> snd.ep]
             ELSE NoMark
  /\ UNCHANGED <<s3Vars, up, down, known, descVars, sendQ, reply, inst, envVars>>

-----------------------------------------------------------------------------
(* controller_profile_manager_install_profile, on a web server task.        *)

InstGoto(pc) == inst' = [inst EXCEPT !.pc = pc]

MayInstall == reg.st # "transferring" /\ sendQ = <<>>

InstBegin ==
  /\ inst.pc = "idle" /\ MayInstall
  /\ nInstalls < MaxInstalls /\ Disturbances < MaxEvents /\ nInstalls' = nInstalls + 1
  /\ InstGoto("write")
  /\ UNCHANGED <<s3Vars, up, down, regVars, descVars, sendQ, sendVars, cableVars, card,
                 restarted, nEvents>>

\* The file is swapped under the card's gate, or nothing changes; that the
\* directory can be read again after a successful swap is assumed.
InstWrite ==
  /\ inst.pc = "write"
  /\ \/ /\ \E d \in Devices : card' = [card EXCEPT ![d] = @ + 1]
        /\ InstGoto("apply")
     \/ InstGoto("release") /\ UNCHANGED card
  /\ UNCHANGED <<s3Vars, up, down, regVars, descVars, sendQ, sendVars, cableVars, restarted,
                 nEvents, nInstalls>>

\* Mutant: the registry keeps the old scan.
OldScan == known

\* controller_profile_registry_apply_rescan
Rescanned == OnCard

InstApply ==
  /\ inst.pc = "apply"
  /\ known' = Rescanned
  /\ reg' = IF reg.present
            THEN [reg EXCEPT !.st = IF reg.dev \in known' THEN "matched" ELSE "unsupported"]
            ELSE NoReg
  /\ mark' = NoMark
  /\ inst' = [pc |-> "release", dev |-> reg.dev, ep |-> reg.ep]
  /\ UNCHANGED <<s3Vars, up, down, descVars, sendQ, sendVars, envVars>>

InstRelease ==
  /\ inst.pc = "release"
  /\ IF inst.ep # 0 THEN InstGoto("again") ELSE inst' = NoInst
  /\ UNCHANGED <<s3Vars, up, down, regVars, descVars, sendQ, sendVars, envVars>>

\* The connected controller is announced again, with today's generation.
InstAgain ==
  /\ inst.pc = "again" /\ inst' = NoInst
  /\ descQ' = IF Len(descQ) < DescCap THEN Append(descQ, Report(inst.dev, inst.ep)) ELSE descQ
  /\ UNCHANGED <<s3Vars, up, down, regVars, descHand, sendQ, sendVars, envVars>>

-----------------------------------------------------------------------------
(* Events.                                                                  *)

LoseUp ==
  /\ up # <<>> /\ up' = Tail(up) /\ Event
  /\ UNCHANGED <<s3Vars, down, p4Vars, cableVars, card, restarted, nInstalls>>

LoseDown ==
  /\ down # <<>> /\ down' = Tail(down) /\ Event
  /\ UNCHANGED <<s3Vars, up, p4Vars, cableVars, card, restarted, nInstalls>>

P4Restart ==
  /\ Event /\ P4Boots /\ up' = <<>>
  /\ UNCHANGED <<s3Vars, down, cableVars, card, restarted, nInstalls>>

-----------------------------------------------------------------------------

Usb == UsbOpen \/ UsbClose \/ UsbPublish
S3Rx == S3Begin \/ S3Chunk \/ S3End \/ S3Activate \/ S3Install \/ S3Clear
P4Rx == RxReply \/ RxDescriptor \/ RxDisconnect
Desc == DescTake \/ DescAdmit \/ DescProcess
Sender == SenderTake \/ SenderRead \/ SenderSend \/ SenderReply \/ SenderTimeout \/ SenderFinish
Web == InstWrite \/ InstApply \/ InstRelease \/ InstAgain

Next ==
  \/ \E d \in Devices : Plug(d)
  \/ Unplug \/ Usb \/ Repeat \/ S3Restart \/ S3Rx \/ P4Rx \/ Desc \/ Sender
  \/ InstBegin \/ Web \/ S3NoBuffer \/ LoseUp \/ LoseDown \/ P4Restart

\* The tasks keep running: while one can go on, one does (which task is left
\* open, since all their work ends but for the announcement).  The announcement
\* is repeated for ever.
Fairness ==
  /\ WF_vars(Usb \/ S3Rx \/ P4Rx \/ Desc \/ Sender \/ Web)
  /\ WF_vars(Repeat /\ Quiet)

Spec == Init /\ [][Next]_vars /\ Fairness

-----------------------------------------------------------------------------

\* The bounds on installations and plugs bound the versions and the epochs.
Versions == 0 .. MaxInstalls + 1
Epochs == 0 .. MaxPlugs + MaxEvents

\* Every state machine is in one of its states, both queues of the P4 stay
\* within their capacity, and neither side counts past the last chunk.
TypeOK ==
  /\ ctx.ep \in Epochs /\ ctx.conn \in BOOLEAN
  /\ usbPc \in {"idle", "announce", "retire"}
  /\ rcv.st \in {"idle", "receiving", "stored", "error"} /\ rcv.got \in 0 .. NChunks
  /\ rt.ver \in Versions /\ rt.ep \in Epochs
  /\ reg.st \in {"idle", "matched", "unsupported", "transferring", "active", "failed"}
  /\ Len(descQ) <= DescCap /\ Len(sendQ) <= SendCap
  /\ snd.off \in 0 .. NChunks /\ snd.try \in 0 .. Attempts
  /\ inst.pc \in {"idle", "write", "apply", "release", "again"}

\* The S3 maps input through a profile only if the whole transfer of that
\* profile took place while the controller now open was open.
MapsOwnSession == Bound => rt.from = ctx.from /\ rt.dev = ctx.dev

\* The controller that is plugged in has its profile, and the P4 knows it; one
\* that is gone does not live on at the P4.
Served ==
  /\ ctx.conn /\ ctx.dev \in OnCard => Bound /\ reg.st = "active"
  /\ reg.present = ctx.conn

\* Whatever was lost, came late or met a full queue, that is how it ends.
ProfileArrives == [](~restarted) => <>[]Served

\* The mapping part of it also if the S3 restarts while the P4 runs on.
ServedAfterRestart == <>[](ctx.conn /\ ctx.dev \in OnCard => Bound)
=============================================================================
