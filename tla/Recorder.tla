------------------------------ MODULE Recorder ------------------------------
(***************************************************************************)
(* The master recorder (audio_recorder.c, _ring.c, _stop_gate.c, _sink.c,  *)
(* _finalize.c).  The audio output task pushes blocks into a ring behind a *)
(* producer gate, a writer task moves them to a WAV segment on the card,   *)
(* the Settings screen and the web server start and stop recordings, and   *)
(* the power can fail at any moment.  A block is its number and its rate;  *)
(* a segment on the card is its name, rate and kind, and the blocks it     *)
(* holds (of a block written in part, none).                               *)
(***************************************************************************)
EXTENDS Naturals, Sequences, SequencesExt, FiniteSetsExt

CONSTANTS
    Callers,         \* tasks that start and stop recordings
    Serial,          \* is a call made only when no other one runs?
    Overlap,         \* may a start fail while a producer is inside?
    Capacity,        \* slots of the ring
    SegMax,          \* blocks a segment may hold (AUDIO_RECORDER_SEGMENT_DATA_MAX)
    Rates,           \* output sample rates
    MaxBlocks,       \* blocks rendered
    MaxCalls,        \* starts and stops
    MaxFails,        \* card operations that fail
    MaxCrashes       \* power failures

ASSUME RecorderAssumption ==
    /\ {Capacity, SegMax} \subseteq Nat \ {0}
    /\ {MaxBlocks, MaxCalls, MaxFails, MaxCrashes} \subseteq Nat
    /\ {Serial, Overlap} \subseteq BOOLEAN

VARIABLES
    state,     \* s_state
    slots,     \* s_slots: the number of the allocation, or 0
    ring,      \* s_ring: slots (what it was bound to), q (its blocks, oldest first)
    gate,      \* s_producer_gate: acc (accepting), act (active_producers)
    prod,      \* output task: pc, rate of its block
    wr,        \* writer task: pc, st (the state it read)
    writer,    \* s_writer is set
    exited,    \* WRITER_EXITED_BIT
    err,       \* s_last_error is not ESP_OK
    sink,      \* s_sink: open, sess, seg, rate, data, synced (blocks made durable)
    card,      \* segments on the card: id (boot, session, segment), rate, kind, data
    boot,      \* s_boot_id, in NVS
    sess,      \* s_session
    active,    \* sd_io_gate's s_recorder_active
    op,        \* op[c]: where the call of caller c is, and the state it read
    taken,     \* history: the blocks push_master accepted in this session
    nblk, nalloc, left

vars == <<state, slots, ring, gate, prod, wr, writer, exited, err, sink, card, boot,
          sess, active, op, taken, nblk, nalloc, left>>

ctlVars == <<boot, sess, active, nalloc>>
prodVars == <<prod, taken, nblk>>

NoSink == [open |-> FALSE, sess |-> 0, seg |-> 0, rate |-> 0, data |-> <<>>, synced |-> 0]
NoRing == [slots |-> 0, q |-> <<>>]

\* The static variables after power-up, before audio_recorder_init has looked
\* at the card.
Powered ==
    /\ state' = "BOOT"
    /\ slots' = 0 /\ ring' = NoRing
    /\ gate' = [acc |-> FALSE, act |-> 0]
    /\ prod' = [pc |-> "idle", rate |-> 0]
    /\ wr' = [pc |-> "none", st |-> "none"]
    /\ writer' = FALSE /\ exited' = FALSE /\ err' = FALSE
    /\ sink' = NoSink
    /\ sess' = 0 /\ active' = FALSE
    /\ op' = [c \in Callers |-> [pc |-> "idle", st |-> "none"]]
    /\ taken' = <<>>

Init ==
    /\ state = "BOOT"
    /\ slots = 0 /\ ring = NoRing
    /\ gate = [acc |-> FALSE, act |-> 0]
    /\ prod = [pc |-> "idle", rate |-> 0]
    /\ wr = [pc |-> "none", st |-> "none"]
    /\ writer = FALSE /\ exited = FALSE /\ err = FALSE
    /\ sink = NoSink /\ card = {} /\ boot = 1
    /\ sess = 0 /\ active = FALSE
    /\ op = [c \in Callers |-> [pc |-> "idle", st |-> "none"]]
    /\ taken = <<>> /\ nblk = 0 /\ nalloc = 0
    /\ left = [calls |-> MaxCalls, fails |-> MaxFails, crashes |-> MaxCrashes]

Fail == left.fails > 0 /\ left' = [left EXCEPT !.fails = @ - 1]

-----------------------------------------------------------------------------
(* The card.                                                               *)

Id(s) == <<boot, s.sess, s.seg>>
Segment(s, kind, data) == [id |-> Id(s), rate |-> s.rate, kind |-> kind, data |-> data]
Opened(s, r) == [open |-> TRUE, sess |-> s.sess, seg |-> s.seg, rate |-> r,
                 data |-> <<>>, synced |-> 0]

\* audio_recorder_finalize_run: patch, sync and close, and the rename to .wav
\* if publishing is allowed and nothing failed before.
Closed(s, publish, ok) ==
    card \cup {Segment(s, IF publish /\ ok THEN "wav" ELSE "part", s.data)}

\* open_segment fails: without a file, or with one whose header is not written.
NotOpened(s, r, cards) == {cards, cards \cup {Segment(Opened(s, r), "part", <<>>)}}

\* Mutant: a partial segment found at boot is deleted.
RecoverOneDrops(f) == card \ {f}

\* recover_one: a segment without a whole frame is removed, any other is given
\* a correct header and published as .recovered.wav.
RecoverOne(f) ==
    IF f.data = <<>> THEN card \ {f}
    ELSE (card \ {f}) \cup {[f EXCEPT !.kind = "recovered"]}

Parts == {f \in card : f.kind = "part"}

\* audio_recorder_init: recover_orphans takes the partial segments one by one.
Recover ==
    /\ state = "BOOT"
    /\ \E f \in Parts : card' = RecoverOne(f)
    /\ UNCHANGED <<state, slots, ring, gate, prod, wr, writer, exited, err, sink, op,
                   taken, nblk, left>> /\ UNCHANGED ctlVars

\* The walk over the directory is over.  What is still partial then could not be
\* read, opened or renamed, and stays.
InitDone ==
    /\ state = "BOOT"
    /\ IF Parts = {} THEN UNCHANGED left ELSE Fail
    /\ gate' = [acc |-> FALSE, act |-> 0]
    /\ state' = "STOPPED"
    /\ UNCHANGED <<slots, ring, prod, wr, writer, exited, err, sink, card, op,
                   taken, nblk>> /\ UNCHANGED ctlVars

\* The power fails: of an open segment at least the checkpointed part is on the
\* card.  The next boot takes a new boot id.
Crash ==
    /\ left.crashes > 0
    /\ \E n \in sink.synced .. Len(sink.data) :
          card' = IF sink.open THEN card \cup {Segment(sink, "part", SubSeq(sink.data, 1, n))}
                  ELSE card
    /\ Powered
    /\ boot' = boot + 1
    /\ left' = [left EXCEPT !.crashes = @ - 1]
    /\ UNCHANGED <<nblk, nalloc>>

-----------------------------------------------------------------------------
(* audio_recorder_push_master, in the output task.                         *)

At(pc) == prod' = [prod EXCEPT !.pc = pc]
prodFrame == /\ UNCHANGED <<state, slots, wr, writer, exited, err, sink, card, op, left>>
             /\ UNCHANGED ctlVars

\* The state and the first test of "accepting".
Push(r) ==
    /\ prod.pc = "idle" /\ nblk < MaxBlocks
    /\ state = "RECORDING" /\ gate.acc
    /\ prod' = [pc |-> "enter", rate |-> r]
    /\ UNCHANGED <<ring, gate, taken, nblk>> /\ prodFrame

PushEnter ==
    /\ prod.pc = "enter"
    /\ gate' = [gate EXCEPT !.act = @ + 1]
    /\ At("recheck")
    /\ UNCHANGED <<ring, taken, nblk>> /\ prodFrame

\* Mutant: a producer that finds the gate closed stays counted.
PushRecheckKeeps ==
    /\ prod.pc = "recheck"
    /\ At(IF gate.acc THEN "push" ELSE "idle")
    /\ UNCHANGED <<ring, gate, taken, nblk>> /\ prodFrame

PushRecheck ==
    /\ prod.pc = "recheck"
    /\ IF gate.acc THEN At("push") /\ UNCHANGED gate
       ELSE At("idle") /\ gate' = [gate EXCEPT !.act = @ - 1]
    /\ UNCHANGED <<ring, taken, nblk>> /\ prodFrame

\* audio_recorder_ring_push: a full ring drops the block.
PushRing ==
    /\ prod.pc = "push"
    /\ nblk' = nblk + 1
    /\ LET blk == [b |-> nblk + 1, rate |-> prod.rate] IN
       IF Len(ring.q) < Capacity
       THEN ring' = [ring EXCEPT !.q = Append(@, blk)] /\ taken' = Append(taken, blk)
       ELSE UNCHANGED <<ring, taken>>
    /\ At("leave")
    /\ UNCHANGED gate /\ prodFrame

PushLeave ==
    /\ prod.pc = "leave"
    /\ gate' = [gate EXCEPT !.act = @ - 1]
    /\ At("idle")
    /\ UNCHANGED <<ring, taken, nblk>> /\ prodFrame

-----------------------------------------------------------------------------
(* writer_task.                                                            *)

wrFrame == UNCHANGED <<slots, writer, op>> /\ UNCHANGED ctlVars /\ UNCHANGED prodVars

\* Top of the loop: leave when the state is no longer RECORDING or STOPPING,
\* or when STOPPING has found the ring empty.
WriterLook ==
    /\ wr.pc = "look"
    /\ wr' = [st |-> state,
              pc |-> IF state \in {"RECORDING", "STOPPING"} THEN "peek" ELSE "exit"]
    /\ UNCHANGED <<state, ring, gate, exited, err, sink, card, left>> /\ wrFrame

WriterPeek ==
    /\ wr.pc = "peek"
    /\ wr' = [wr EXCEPT !.pc = IF ring.q # <<>> THEN "write"
                               ELSE IF wr.st = "STOPPING" THEN "exit" ELSE "look"]
    /\ UNCHANGED <<state, ring, gate, exited, err, sink, card, left>> /\ wrFrame

WriterFault ==
    /\ err' = TRUE
    /\ gate' = [gate EXCEPT !.acc = FALSE]
    /\ state' = "ERROR"
    /\ wr' = [wr EXCEPT !.pc = "exit"]
    /\ Fail

\* Mutant: a new rate does not roll over to a new segment.
RollsAtCap(blk) == Len(sink.data) = SegMax

Rolls(blk) == blk.rate # sink.rate \/ Len(sink.data) = SegMax

\* audio_recorder_sink_write_block: a new rate or a full segment is finalised,
\* the next one is opened, and the block is written; each of the three can fail.
WriterWrite ==
    /\ wr.pc = "write"
    /\ LET blk == Head(ring.q)
           roll == Rolls(blk)
           next == [sink EXCEPT !.seg = @ + 1]
           s == IF roll THEN Opened(next, blk.rate) ELSE sink
           published == IF roll THEN Closed(sink, TRUE, TRUE) ELSE card
       IN \/ /\ sink' = [s EXCEPT !.data = Append(@, blk)] /\ card' = published
             /\ wr' = [wr EXCEPT !.pc = "consume"]
             /\ UNCHANGED <<state, gate, err, left>>
          \/ WriterFault /\ sink' = s /\ card' = published             \* fwrite
          \/ /\ roll /\ WriterFault                                   \* finalise
             /\ sink' = [sink EXCEPT !.open = FALSE] /\ card' = Closed(sink, TRUE, FALSE)
          \/ /\ roll /\ WriterFault                                   \* open
             /\ sink' = [next EXCEPT !.open = FALSE]
             /\ card' \in NotOpened(next, blk.rate, published)
    /\ UNCHANGED <<ring, exited>> /\ wrFrame

\* audio_recorder_ring_consume, and from time to time the checkpoint; then the
\* checkpoint has failed, or it finds the card's reserve used up.
WriterConsume ==
    /\ wr.pc = "consume"
    /\ ring' = [ring EXCEPT !.q = Tail(@)]
    /\ \/ UNCHANGED sink
       \/ sink' = [sink EXCEPT !.synced = Len(sink.data)]
    /\ \/ /\ wr' = [wr EXCEPT !.pc = "look"]
          /\ UNCHANGED <<state, gate, err, left>>
       \/ WriterFault
    /\ UNCHANGED <<exited, card>> /\ wrFrame

\* Mutant: only a drained writer reports its exit.
WriterExitDrained ==
    /\ wr.pc = "exit"
    /\ exited' = (wr.st = "STOPPING")
    /\ wr' = [wr EXCEPT !.pc = "none"]
    /\ UNCHANGED <<state, ring, gate, err, sink, card, left>> /\ wrFrame

WriterExit ==
    /\ wr.pc = "exit"
    /\ exited' = TRUE
    /\ wr' = [wr EXCEPT !.pc = "none"]
    /\ UNCHANGED <<state, ring, gate, err, sink, card, left>> /\ wrFrame

-----------------------------------------------------------------------------
(* audio_recorder_start.                                                   *)

Goto(c, pc) == op' = [op EXCEPT ![c].pc = pc]
Calm(c) == op[c].pc = "idle" /\ (Serial => \A d \in Callers : op[d].pc = "idle")

Start(c) ==
    /\ Calm(c) /\ left.calls > 0 /\ state = "STOPPED"
    /\ left' = [left EXCEPT !.calls = @ - 1]
    /\ Goto(c, "alloc")
    /\ UNCHANGED <<state, slots, ring, gate, wr, writer, exited, err, sink, card>>
    /\ UNCHANGED ctlVars /\ UNCHANGED prodVars

\* STARTING, and the ring's memory.
StartAlloc(c) ==
    /\ op[c].pc = "alloc"
    /\ state' = "STARTING"
    /\ slots' = nalloc + 1
    /\ nalloc' = nalloc + 1
    /\ Goto(c, "open")
    /\ UNCHANGED <<ring, gate, wr, writer, exited, err, sink, card, boot, sess, active, left>>
    /\ UNCHANGED prodVars

\* No memory, no card or no space; or the session is counted, and its first
\* segment opens or does not.
StartOpen(c) ==
    /\ op[c].pc = "open"
    /\ \E r \in Rates : LET first == [NoSink EXCEPT !.sess = sess + 1] IN
          \/ /\ sess' = sess + 1 /\ sink' = Opened(first, r)
             /\ Goto(c, "bind")
             /\ UNCHANGED <<state, slots, card, left>>
          \/ /\ Fail
             /\ \/ UNCHANGED <<sess, sink, card>>
                \/ /\ sess' = sess + 1 /\ sink' = first
                   /\ card' \in NotOpened(first, r, card)
             /\ slots' = 0
             /\ state' = "STOPPED"
             /\ Goto(c, "idle")
    /\ UNCHANGED <<ring, gate, wr, writer, exited, err, boot, active, nalloc>>
    /\ UNCHANGED prodVars

\* ring_init, the cleared error and exit bit, and the producer gate.
StartBind(c) ==
    /\ op[c].pc = "bind"
    /\ ring' = [slots |-> slots, q |-> <<>>]
    /\ err' = FALSE
    /\ exited' = FALSE
    /\ taken' = <<>>
    /\ IF gate.act # 0
       THEN /\ card' = IF sink.open THEN Closed(sink, FALSE, TRUE) ELSE card
            /\ sink' = [sink EXCEPT !.open = FALSE]
            /\ slots' = 0
            /\ state' = "STOPPED"
            /\ Goto(c, "idle")
            /\ UNCHANGED gate
       ELSE /\ gate' = [gate EXCEPT !.acc = TRUE]
            /\ Goto(c, "run")
            /\ UNCHANGED <<card, sink, slots, state>>
    /\ UNCHANGED <<wr, writer, prod, nblk, left>> /\ UNCHANGED ctlVars

StartRun(c) ==
    /\ op[c].pc = "run"
    /\ state' = "RECORDING"
    /\ Goto(c, "create")
    /\ UNCHANGED <<slots, ring, gate, wr, writer, exited, err, sink, card, left>>
    /\ UNCHANGED ctlVars /\ UNCHANGED prodVars

StartCreate(c) ==
    /\ op[c].pc = "create"
    /\ wr' = [pc |-> "look", st |-> "none"]
    /\ writer' = TRUE
    /\ Goto(c, "active")
    /\ UNCHANGED <<state, slots, ring, gate, exited, err, sink, card, left>>
    /\ UNCHANGED ctlVars /\ UNCHANGED prodVars

StartActive(c) ==
    /\ op[c].pc = "active"
    /\ active' = TRUE
    /\ Goto(c, "idle")
    /\ UNCHANGED <<state, slots, ring, gate, wr, writer, exited, err, sink, card, left,
                   boot, sess, nalloc>> /\ UNCHANGED prodVars

\* The writer cannot be created: the gate is closed and everything released.
\* The code does not wait for a producer that is already inside.
StartNoTask(c) ==
    /\ op[c].pc = "create" /\ Fail
    /\ Overlap \/ gate.act = 0
    /\ gate' = [gate EXCEPT !.acc = FALSE]
    /\ state' = "STOPPED"
    /\ card' = IF sink.open THEN Closed(sink, FALSE, TRUE) ELSE card
    /\ sink' = [sink EXCEPT !.open = FALSE]
    /\ slots' = 0
    /\ Goto(c, "idle")
    /\ UNCHANGED <<ring, wr, writer, exited, err>> /\ UNCHANGED ctlVars /\ UNCHANGED prodVars

-----------------------------------------------------------------------------
(* audio_recorder_stop.                                                    *)

stopFrame == UNCHANGED <<ring, wr, exited, taken, nblk, prod, boot, sess, nalloc>>

\* The state is read once; producer admission closes.
Stop(c) ==
    /\ Calm(c) /\ left.calls > 0 /\ state # "BOOT"
    /\ left' = [left EXCEPT !.calls = @ - 1]
    /\ gate' = [gate EXCEPT !.acc = FALSE]
    /\ op' = [op EXCEPT ![c] = [pc |-> IF state = "STOPPED" /\ slots = 0 THEN "idle" ELSE "quiet",
                                st |-> state]]
    /\ UNCHANGED <<state, slots, writer, err, sink, card, active>> /\ stopFrame

\* Mutant: STOPPING is published before the last producer has left.
StopQuietEarly(c) ==
    /\ op[c].pc = "quiet"
    /\ state' = IF op[c].st \in {"RECORDING", "STARTING"} THEN "STOPPING" ELSE state
    /\ Goto(c, "join")
    /\ UNCHANGED <<slots, gate, writer, err, sink, card, active, left>> /\ stopFrame

\* The producers have left: STOPPING, by the state that was read before.
StopQuiet(c) ==
    /\ op[c].pc = "quiet" /\ gate.act = 0
    /\ state' = IF op[c].st \in {"RECORDING", "STARTING"} THEN "STOPPING" ELSE state
    /\ Goto(c, "join")
    /\ UNCHANGED <<slots, gate, writer, err, sink, card, active, left>> /\ stopFrame

StopJoin(c) ==
    /\ op[c].pc = "join" /\ (writer => exited)
    /\ writer' = FALSE
    /\ Goto(c, "close")
    /\ UNCHANGED <<state, slots, gate, err, sink, card, active, left>> /\ stopFrame

\* Mutant: whether the session failed is read from the state alone.
SessionOkByState == state # "ERROR"

SessionOk == ~err /\ state # "ERROR"

\* A clean session is finalised, a faulted one closed as it is.
StopClose(c) ==
    /\ op[c].pc = "close"
    /\ \/ /\ card' = IF sink.open THEN Closed(sink, SessionOk, TRUE) ELSE card
          /\ UNCHANGED <<err, left>>
       \/ /\ sink.open /\ Fail
          /\ card' = Closed(sink, SessionOk, FALSE)
          /\ err' = TRUE
    /\ sink' = [sink EXCEPT !.open = FALSE]
    /\ Goto(c, "release")
    /\ UNCHANGED <<state, slots, gate, writer, active>> /\ stopFrame

\* release_ring, STOPPED, and the card's other users may work again.
StopRelease(c) ==
    /\ op[c].pc = "release"
    /\ slots' = 0
    /\ state' = "STOPPED"
    /\ active' = FALSE
    /\ Goto(c, "idle")
    /\ UNCHANGED <<gate, writer, err, sink, card, left>> /\ stopFrame

-----------------------------------------------------------------------------
Producer == PushEnter \/ PushRecheck \/ PushRing \/ PushLeave
Writer == WriterLook \/ WriterPeek \/ WriterWrite \/ WriterConsume \/ WriterExit
Call(c) ==
    \/ StartAlloc(c) \/ StartOpen(c) \/ StartBind(c) \/ StartRun(c)
    \/ StartCreate(c) \/ StartActive(c) \/ StartNoTask(c)
    \/ StopQuiet(c) \/ StopJoin(c) \/ StopClose(c) \/ StopRelease(c)

Next ==
    \/ Recover \/ InitDone \/ Crash
    \/ \E r \in Rates : Push(r)
    \/ Producer \/ Writer
    \/ \E c \in Callers : Start(c) \/ Stop(c) \/ Call(c)

\* The output task, the writer and the callers are scheduled; nothing makes the
\* operator call or the power fail.
Spec ==
    /\ Init /\ [][Next]_vars
    /\ WF_vars(Producer) /\ WF_vars(Writer) /\ WF_vars(Recover \/ InitDone)
    /\ \A c \in Callers : WF_vars(Call(c))

-----------------------------------------------------------------------------
(* Properties.                                                             *)

Blocks == UNION {Range(f.data) : f \in card}

\* Every variable has its type, the ring never holds more than its slots, and
\* the gate counts exactly the producers inside (stop_gate_leave: paired 1:1).
TypeOK ==
    /\ state \in {"BOOT", "STOPPED", "STARTING", "RECORDING", "STOPPING", "ERROR"}
    /\ slots \in 0 .. nalloc /\ Len(ring.q) <= Capacity
    /\ \A f \in card : f.kind \in {"part", "wav", "recovered"}
    /\ \A c \in Callers : op[c].pc \in {"idle", "alloc", "open", "bind", "run", "create",
                                        "active", "quiet", "join", "close", "release"}
    /\ gate.act = IF prod.pc \in {"recheck", "push", "leave"} THEN 1 ELSE 0

\* The output task and the writer touch the ring only while its memory is
\* allocated: stop() frees it after the last producer left and the writer
\* exited.
RingOwned ==
    prod.pc = "push" \/ wr.pc \in {"peek", "write", "consume"} =>
        slots # 0 /\ ring.slots = slots

SessionFiles == {f \in card : f.id[1] = boot /\ f.id[2] = sess}
Recorded(n) == LET fs == {f \in SessionFiles : f.id[3] = n} IN
    IF fs = {} THEN <<>> ELSE (CHOOSE f \in fs : TRUE).data

\* When a stop has closed the recording, the card holds every accepted block, in
\* order and once, but for those an error left in the ring, and no segment mixes
\* two rates ("Never place two PCM rates in one WAV file").  Without an error the
\* ring is empty and every segment is a .wav; with one, however late, the segment
\* it fell in is a .part if it could be opened at all, and those finished before
\* it are .wav.
RecordingTruth ==
    \A c \in Callers : op[c].pc = "release" =>
        /\ \A f \in SessionFiles : \A blk \in Range(f.data) : blk.rate = f.rate
        /\ FlattenSeq([n \in 1 .. sink.seg + 1 |-> Recorded(n - 1)]) \o ring.q = taken
        /\ ~err => ring.q = <<>>
        /\ \A f \in SessionFiles :
              f.kind = IF err /\ f.id[3] = sink.seg THEN "part" ELSE "wav"

\* Once checkpointed, a block survives power failures, failed finalisations and
\* later recordings: it is in a segment of the card or in the open one.
Durable ==
    [][\A b \in Blocks \cup Range(SubSeq(sink.data, 1, IF sink.open THEN sink.synced ELSE 0)) :
          b \in Blocks' \cup Range(SubSeq(sink.data, 1, IF sink.open THEN sink.synced ELSE 0))']_vars

\* A stop that is not cut short by a power failure returns, and by then the
\* card's other users are let in again (sd_io_gate_set_recorder_active).
StopReturns ==
    \A c \in Callers : (op[c].pc = "quiet") ~> (op[c].pc = "idle" /\ ~active)
=============================================================================
