----------------------------- MODULE DeckSession -----------------------------
(***************************************************************************)
(* The lifecycle of the audio engine's deck sessions                       *)
(* (audio_engine.c, audio_fw_runtime.c, audio_fw_task_context.c,           *)
(* audio_fw_preload.c).  Three callers share it: the UI's load worker      *)
(* (LOAD), the UI itself (STOP of a deck or of one session) and the USB    *)
(* storage task (suspend all decks while the drive goes).  A session is a  *)
(* loader and a decoder task around one open file and one cache buffer;    *)
(* ending it means clearing "run", waiting 1.5 s for each task's exit      *)
(* signal and only then freeing what the tasks used.  The generation       *)
(* numbers the engine returns with a LOAD matter to its callers alone: see *)
(* MediaSession.                                                           *)
(***************************************************************************)
EXTENDS Naturals, FiniteSets

CONSTANTS
    NDecks,          \* AUDIO_ENGINE_DECK_COUNT
    MaxLoads,        \* LOADs the worker performs
    MaxStops,        \* STOPs the UI performs
    MaxSuspends,     \* drive removals
    MaxFails         \* task creations that run out of memory

ASSUME DeckSessionAssumption ==
    /\ NDecks \in Nat \ {0}
    /\ {MaxLoads, MaxStops, MaxSuspends, MaxFails} \subseteq Nat

Decks == 0 .. NDecks - 1
Callers == {"worker", "ui", "storage"}
None == "none"
ExpectedTasks == 2        \* audio_fw_task_plan_for_deck
SemMax == 3               \* xSemaphoreCreateCounting(3, 0)

VARIABLES
    blocked,     \* s_lifecycle_loads_blocked
    lock,        \* s_lifecycle_mutex[d]: its holder
    loaded,      \* eng->loaded
    rt,          \* s_fw_runtimes[d]: run, started (tasks_started), gen
    ctx,         \* s_fw_task_contexts[d]: gen (session_generation), deck
    sem,         \* s_tasks_done[d]
    slot,        \* s_fw_preloads[d]: src, buf (the session that bound them), done
    live,        \* the tasks that exist: d, k(ind), sid (session), pc
    out,         \* s_output_task, s_output_run, s_output_done; the output tasks
                 \* that cleared their handle and have not signalled yet
    gate,        \* media_io_gate: is a task inside a media read?
    op,          \* op[c]: where caller c is
    left,        \* what the environment may still do
    nsid,        \* sessions begun so far
    forgot       \* history: did an aborted load forget a task that still runs?

vars == <<blocked, lock, loaded, rt, ctx, sem, slot, live, out, gate,
          op, left, nsid, forgot>>

EmptySlot == [src |-> 0, buf |-> 0, done |-> FALSE]
NoCtx == [gen |-> 0, deck |-> 0]
Idle == [pc |-> "idle", d |-> 0, want |-> 0, got |-> 0, ret |-> "none",
         rc |-> "OK"]

Init ==
    /\ blocked = FALSE
    /\ lock = [d \in Decks |-> None]
    /\ loaded = [d \in Decks |-> FALSE]
    /\ rt = [d \in Decks |-> [run |-> FALSE, started |-> 0, gen |-> 0]]
    /\ ctx = [d \in Decks |-> NoCtx]
    /\ sem = [d \in Decks |-> 0]
    /\ slot = [d \in Decks |-> EmptySlot]
    /\ live = {}
    /\ out = [task |-> FALSE, run |-> FALSE, sem |-> 0, ends |-> 0]
    /\ gate = FALSE
    /\ op = [c \in Callers |-> Idle]
    /\ left = [loads |-> MaxLoads, stops |-> MaxStops,
               suspends |-> MaxSuspends, fails |-> MaxFails]
    /\ nsid = 0
    /\ forgot = FALSE

Tasks(d) == {t \in live : t.d = d}
Goto(c, pc) == op' = [op EXCEPT ![c].pc = pc]

\* A task that cannot reach its next test of "run": it is inside a media read
\* or waits for the gate that another reader holds.
Stalled(t) ==
    \/ t.pc \in {"openio", "fillio", "workio"}
    \/ t.pc \in {"open", "fill", "work"} /\ gate

\* audio_fw_runtime_invalidate_session
Invalidate(d) == rt' = [rt EXCEPT ![d].run = FALSE, ![d].gen = @ + 1]

-----------------------------------------------------------------------------
(* The callers' entry points.                                              *)

\* s_lifecycle_admission_mutex: a LOAD keeps it while it waits for its deck;
\* everybody else gives it back in the step that took it.
AdmissionFree == op["worker"].pc # "admit"

\* Mutant: the load does not ask whether admission is closed.
LoadAdmitAlways(d) ==
    /\ op["worker"].pc = "idle" /\ left.loads > 0
    /\ op' = [op EXCEPT !["worker"] = [Idle EXCEPT !.pc = "admit", !.d = d, !.ret = "load"]]
    /\ left' = [left EXCEPT !.loads = @ - 1]
    /\ UNCHANGED <<blocked, lock, loaded, rt, ctx, sem, slot, live, out, gate, nsid, forgot>>

\* audio_engine_deck_load_session takes admission (lifecycle_begin_load).  A
\* LOAD that finds it closed returns and has changed nothing.
LoadAdmit(d) ==
    /\ op["worker"].pc = "idle" /\ left.loads > 0
    /\ ~blocked
    /\ op' = [op EXCEPT !["worker"] = [Idle EXCEPT !.pc = "admit", !.d = d, !.ret = "load"]]
    /\ left' = [left EXCEPT !.loads = @ - 1]
    /\ UNCHANGED <<blocked, lock, loaded, rt, ctx, sem, slot, live, out, gate, nsid, forgot>>

\* The deck's mutex is free: the LOAD takes it and gives admission back.
LoadEnter ==
    LET d == op["worker"].d IN
    /\ op["worker"].pc = "admit"
    /\ lock[d] = None
    /\ lock' = [lock EXCEPT ![d] = "worker"]
    /\ Goto("worker", "stop")
    /\ UNCHANGED <<blocked, loaded, rt, ctx, sem, slot, live, out, gate, left, nsid, forgot>>

\* audio_engine_deck_stop
Stop(d) ==
    /\ op["ui"].pc = "idle" /\ left.stops > 0
    /\ lock[d] = None
    /\ lock' = [lock EXCEPT ![d] = "ui"]
    /\ left' = [left EXCEPT !.stops = @ - 1]
    /\ op' = [op EXCEPT !["ui"] = [Idle EXCEPT !.pc = "stop", !.d = d, !.ret = "stop"]]
    /\ UNCHANGED <<blocked, loaded, rt, ctx, sem, slot, live, out, gate, nsid, forgot>>

\* suspend_loads_and_stop_all closes admission before it waits for the decks.
Suspend ==
    /\ op["storage"].pc = "idle" /\ left.suspends > 0
    /\ ~blocked /\ AdmissionFree
    /\ blocked' = TRUE
    /\ left' = [left EXCEPT !.suspends = @ - 1]
    /\ op' = [op EXCEPT !["storage"] = [Idle EXCEPT !.pc = "lock", !.ret = "all"]]
    /\ UNCHANGED <<lock, loaded, rt, ctx, sem, slot, live, out, gate, nsid, forgot>>

SuspendLock ==
    LET d == op["storage"].d IN
    /\ op["storage"].pc = "lock"
    /\ lock[d] = None
    /\ lock' = [lock EXCEPT ![d] = "storage"]
    /\ IF d + 1 \in Decks
       THEN op' = [op EXCEPT !["storage"].d = d + 1]
       ELSE op' = [op EXCEPT !["storage"].d = 0, !["storage"].pc = "stop"]
    /\ UNCHANGED <<blocked, loaded, rt, ctx, sem, slot, live, out, gate, left, nsid, forgot>>

SuspendEnd ==
    /\ op["storage"].pc = "unlock"
    /\ lock' = [d \in Decks |-> IF lock[d] = "storage" THEN None ELSE lock[d]]
    /\ Goto("storage", IF op["storage"].rc = "OK" THEN "held" ELSE "failed")
    /\ UNCHANGED <<blocked, loaded, rt, ctx, sem, slot, live, out, gate, left, nsid, forgot>>

\* audio_engine_resume_loads: the storage task is done, or a stop failed and
\* the barrier is given back at once (audio_engine_suspend_loads_and_stop_all).
Resume ==
    /\ op["storage"].pc \in {"held", "failed"}
    /\ AdmissionFree
    /\ blocked' = FALSE
    /\ op' = [op EXCEPT !["storage"] = Idle]
    /\ UNCHANGED <<lock, loaded, rt, ctx, sem, slot, live, out, gate, left, nsid, forgot>>

-----------------------------------------------------------------------------
(* audio_engine_stop_for_deck, run by any caller that holds the deck.      *)

\* Mutant: teardown keyed on "loaded", which a failed load clears.
StopBeginIfLoaded(c) ==
    LET d == op[c].d IN
    /\ op[c].pc = "stop"
    /\ IF loaded[d]
       THEN /\ Invalidate(d)
            /\ op' = [op EXCEPT ![c].pc = "join", ![c].want = rt[d].started, ![c].got = 0]
       ELSE Goto(c, "free") /\ UNCHANGED rt
    /\ UNCHANGED <<blocked, lock, loaded, ctx, sem, slot, live, out, gate, left, nsid, forgot>>

\* How the caller goes on when the stop returns rc.
Return(c, rc) ==
    LET o == op[c] IN
    CASE o.ret = "load" /\ rc = "OK" ->
            Goto(c, "begin") /\ UNCHANGED lock
      [] o.ret \in {"load", "stop"} /\ ~(o.ret = "load" /\ rc = "OK") ->
            /\ op' = [op EXCEPT ![c] = Idle]
            /\ lock' = [lock EXCEPT ![o.d] = None]
      [] o.ret = "all" ->
            LET err == IF o.rc = "OK" THEN rc ELSE o.rc
                more == o.d + 1 \in Decks
            IN /\ op' = [op EXCEPT ![c] = [@ EXCEPT !.rc = err,
                                            !.d = IF more THEN o.d + 1 ELSE o.d,
                                            !.pc = IF more THEN "stop" ELSE "out",
                                            !.ret = IF more THEN "all" ELSE "fin"]]
               /\ UNCHANGED lock
      [] o.ret = "fin" ->
            /\ op' = [op EXCEPT ![c].pc = "unlock",
                                ![c].rc = IF o.rc = "OK" THEN rc ELSE o.rc]
            /\ UNCHANGED lock

StopBegin(c) ==
    LET d == op[c].d IN
    /\ op[c].pc = "stop"
    /\ IF rt[d].run \/ rt[d].started > 0
       THEN /\ Invalidate(d)
            /\ op' = [op EXCEPT ![c].pc = "join", ![c].want = rt[d].started, ![c].got = 0]
       ELSE Goto(c, "free") /\ UNCHANGED rt
    /\ UNCHANGED <<blocked, lock, loaded, ctx, sem, slot, live, out, gate, left, nsid, forgot>>

\* One xSemaphoreTake(s_tasks_done[d], 1500 ms) of the join loop: an exit
\* signal arrives, or every task that could still send one is stuck in I/O.
Join(c) ==
    LET d == op[c].d IN
    /\ op[c].pc \in {"join", "ajoin"} /\ op[c].want > 0
    /\ \/ /\ sem[d] > 0
          /\ sem' = [sem EXCEPT ![d] = @ - 1]
          /\ op' = [op EXCEPT ![c].want = @ - 1, ![c].got = @ + 1]
       \/ /\ sem[d] = 0
          /\ \A t \in Tasks(d) : Stalled(t)
          /\ op' = [op EXCEPT ![c].want = @ - 1]
          /\ UNCHANGED sem
    /\ UNCHANGED <<blocked, lock, loaded, rt, ctx, slot, live, out, gate, left, nsid, forgot>>

\* Mutant: the teardown goes on after a join that timed out.
StopJoinedAnyway(c) ==
    /\ op[c].pc = "join" /\ op[c].want = 0
    /\ rt' = [rt EXCEPT ![op[c].d].started = 0]
    /\ ctx' = [ctx EXCEPT ![op[c].d] = NoCtx]
    /\ Goto(c, "free")
    /\ UNCHANGED <<blocked, lock, loaded, sem, slot, live, out, gate, left, nsid, forgot>>

\* All tasks joined: the context is dropped.  Otherwise ESP_ERR_TIMEOUT, with
\* tasks_started, source and buffer as they are.
StopJoined(c) ==
    LET d == op[c].d IN
    /\ op[c].pc = "join" /\ op[c].want = 0
    /\ IF op[c].got = rt[d].started
       THEN /\ rt' = [rt EXCEPT ![d].started = 0]
            /\ ctx' = [ctx EXCEPT ![d] = NoCtx]
            /\ Goto(c, "free")
            /\ UNCHANGED lock
       ELSE Return(c, "TIMEOUT") /\ UNCHANGED <<rt, ctx>>
    /\ UNCHANGED <<blocked, loaded, sem, slot, live, out, gate, left, nsid, forgot>>

\* fclose under the gate, free the buffer, reset the deck; the last deck also
\* ends the shared output.
StopFree(c) ==
    LET d == op[c].d IN
    /\ op[c].pc = "free"
    /\ slot[d].src # 0 => ~gate
    /\ slot' = [slot EXCEPT ![d] = EmptySlot]
    /\ loaded' = [loaded EXCEPT ![d] = FALSE]
    /\ IF \E e \in Decks \ {d} : loaded[e]
       THEN Return(c, "OK")
       ELSE Goto(c, "out") /\ UNCHANGED lock
    /\ UNCHANGED <<blocked, rt, ctx, sem, live, out, gate, left, nsid, forgot>>

\* audio_output_service_stop
OutStop(c) ==
    /\ op[c].pc = "out"
    /\ out' = [out EXCEPT !.run = FALSE]
    /\ IF out.task
       THEN Goto(c, "outwait") /\ UNCHANGED lock
       ELSE Return(c, "OK")
    /\ UNCHANGED <<blocked, loaded, rt, ctx, sem, slot, live, gate, left, nsid, forgot>>

\* Mutant: the wait for the output task has no timeout.
OutWaitForever(c) ==
    /\ op[c].pc = "outwait" /\ out.sem > 0
    /\ out' = [out EXCEPT !.sem = 0]
    /\ Return(c, "OK")
    /\ UNCHANGED <<blocked, loaded, rt, ctx, sem, slot, live, gate, left, nsid, forgot>>

\* The wait times out when another caller took the one exit signal or a LOAD
\* drained it, or when a decoder inside a media read keeps AE_LOCK from the
\* output task.
OutWait(c) ==
    /\ op[c].pc = "outwait"
    /\ \/ out.sem > 0 /\ out' = [out EXCEPT !.sem = 0] /\ Return(c, "OK")
       \/ /\ out.sem = 0 /\ out.ends = 0
          /\ (~out.task \/ out.run \/ \E t \in live : t.pc = "workio")
          /\ Return(c, "TIMEOUT") /\ UNCHANGED out
    /\ UNCHANGED <<blocked, loaded, rt, ctx, sem, slot, live, gate, left, nsid, forgot>>

-----------------------------------------------------------------------------
(* audio_engine_load_for_deck after its stop returned OK.                  *)

\* audio_fw_runtime_begin_load, audio_fw_task_context_bind, stale exit
\* signals drained.
LoadBegin ==
    LET d == op["worker"].d IN
    /\ op["worker"].pc = "begin"
    /\ rt' = [rt EXCEPT ![d] = [run |-> TRUE, started |-> 0, gen |-> @.gen + 1]]
    /\ ctx' = [ctx EXCEPT ![d] = [gen |-> rt[d].gen + 1, deck |-> d]]
    /\ slot' = [slot EXCEPT ![d] = EmptySlot]
    /\ sem' = [sem EXCEPT ![d] = 0]
    /\ loaded' = [loaded EXCEPT ![d] = TRUE]
    /\ nsid' = nsid + 1
    /\ Goto("worker", "loader")
    /\ UNCHANGED <<blocked, lock, live, out, gate, left, forgot>>

\* xTaskCreatePinnedToCore of the loader, then of the decoder.
LoadSpawn ==
    LET d == op["worker"].d
        k == op["worker"].pc
    IN
    /\ k \in {"loader", "decode"}
    /\ Goto("worker", IF k = "loader" THEN "decode" ELSE "output")
    /\ \/ /\ live' = live \cup {[d |-> d, k |-> k, sid |-> nsid, pc |-> "start"]}
          /\ rt' = [rt EXCEPT ![d].started = @ + 1]
          /\ UNCHANGED left
       \/ /\ left.fails > 0
          /\ left' = [left EXCEPT !.fails = @ - 1]
          /\ UNCHANGED <<live, rt>>
    /\ UNCHANGED <<blocked, lock, loaded, ctx, sem, slot, out, gate, nsid, forgot>>

\* audio_output_service_ensure_started; then all is well, or the load aborts
\* by invalidating its own session and joining what it started.
LoadOutput ==
    LET d == op["worker"].d
        starts == ~out.task
        aborts == op' = [op EXCEPT !["worker"].pc = "ajoin", !["worker"].got = 0,
                                   !["worker"].want = rt[d].started]
    IN
    /\ op["worker"].pc = "output"
    /\ \/ /\ out' = IF starts THEN [out EXCEPT !.task = TRUE, !.run = TRUE, !.sem = 0] ELSE out
          /\ IF rt[d].started = ExpectedTasks
             THEN /\ op' = [op EXCEPT !["worker"] = Idle]
                  /\ lock' = [lock EXCEPT ![d] = None]
                  /\ UNCHANGED rt
             ELSE aborts /\ Invalidate(d) /\ UNCHANGED lock
          /\ UNCHANGED left
       \/ /\ starts /\ left.fails > 0
          /\ left' = [left EXCEPT !.fails = @ - 1]
          /\ out' = [out EXCEPT !.run = FALSE, !.sem = 0]
          /\ aborts /\ Invalidate(d)
          /\ UNCHANGED lock
    /\ UNCHANGED <<blocked, loaded, ctx, sem, slot, live, gate, nsid, forgot>>

\* Mutant: the abort returns with the deck's mutex taken.
LoadAbortedLocked ==
    LET d == op["worker"].d IN
    /\ op["worker"].pc = "ajoin" /\ op["worker"].want = 0
    /\ slot' = [slot EXCEPT ![d].src = 0, ![d].buf = 0]
    /\ rt' = [rt EXCEPT ![d].run = FALSE, ![d].started = 0]
    /\ ctx' = [ctx EXCEPT ![d] = NoCtx]
    /\ loaded' = [loaded EXCEPT ![d] = FALSE]
    /\ op' = [op EXCEPT !["worker"] = Idle]
    /\ UNCHANGED <<blocked, lock, sem, live, out, gate, left, nsid, forgot>>

\* The abort frees source and buffer only if every task exited, but resets
\* runtime and context in either case: a task that did not is forgotten.
LoadAborted ==
    LET d == op["worker"].d
        all == op["worker"].got = rt[d].started
    IN
    /\ op["worker"].pc = "ajoin" /\ op["worker"].want = 0
    /\ IF all
       THEN /\ slot[d].src # 0 => ~gate
            /\ slot' = [slot EXCEPT ![d].src = 0, ![d].buf = 0]
       ELSE UNCHANGED slot
    /\ forgot' = (forgot \/ (~all /\ Tasks(d) # {}))
    /\ rt' = [rt EXCEPT ![d].run = FALSE, ![d].started = 0]
    /\ ctx' = [ctx EXCEPT ![d] = NoCtx]
    /\ loaded' = [loaded EXCEPT ![d] = FALSE]
    /\ op' = [op EXCEPT !["worker"] = Idle]
    /\ lock' = [lock EXCEPT ![d] = None]
    /\ UNCHANGED <<blocked, sem, live, out, gate, left, nsid>>

-----------------------------------------------------------------------------
(* The tasks of a session.                                                 *)

At(t, pc) == (live \ {t}) \cup {[t EXCEPT !.pc = pc]}

\* The task gives the exit semaphore of the deck its context names.
Exits(t) ==
    LET d == ctx[t.d].deck IN
    /\ live' = live \ {t}
    /\ sem' = [sem EXCEPT ![d] = IF @ < SemMax THEN @ + 1 ELSE @]

\* ae_fail_load.  It sets load_done before it clears "run"; a decoder that looks
\* between the two goes on to a cache that is not bound and gives it nothing, or
\* to the place of a decoder that fails the load itself, and ends at its next
\* test of "run": the two are one step.
FailLoad(d) ==
    /\ loaded' = [loaded EXCEPT ![d] = FALSE]
    /\ rt' = [rt EXCEPT ![d].run = FALSE]

\* audio_fw_task_context_is_current
IsCurrent(d) == ctx[d].gen # 0 /\ ctx[d].gen = rt[d].gen

TaskStart(t) ==
    /\ t.pc = "start"
    /\ IF ~IsCurrent(t.d)
       THEN Exits(t) /\ UNCHANGED slot
       ELSE /\ live' = At(t, IF t.k = "loader" THEN "open" ELSE "wait")
            /\ slot' = IF t.k = "loader" THEN [slot EXCEPT ![t.d] = EmptySlot] ELSE slot
            /\ UNCHANGED sem
    /\ UNCHANGED <<blocked, lock, loaded, rt, ctx, out, gate, op, left, nsid, forgot>>

\* A read of the medium begins: fopen, the first page, or a later page (which
\* the decoder may ask for after its last test of "run").
ReadBegin(t) ==
    /\ t.pc \in {"open", "fill", "work"}
    /\ ~gate
    /\ gate' = TRUE
    /\ live' = At(t, CASE t.pc = "open" -> "openio" [] t.pc = "fill" -> "fillio"
                       [] t.pc = "work" -> "workio")
    /\ UNCHANGED <<blocked, lock, loaded, rt, ctx, sem, slot, out, op, left, nsid, forgot>>

\* ae_loader_task: the file is open and the cache bound to it, or the load fails.
LoaderOpened(t) ==
    /\ t.pc = "openio"
    /\ gate' = FALSE
    /\ \/ /\ slot' = [slot EXCEPT ![t.d] = [src |-> t.sid, buf |-> t.sid, done |-> FALSE]]
          /\ live' = At(t, "fill")
          /\ UNCHANGED <<loaded, rt>>
       \/ /\ FailLoad(t.d)
          /\ slot' = [slot EXCEPT ![t.d].done = TRUE]
          /\ live' = At(t, "park")
    /\ UNCHANGED <<blocked, lock, ctx, sem, out, op, left, nsid, forgot>>

LoaderFilled(t) ==
    /\ t.pc = "fillio"
    /\ gate' = FALSE
    /\ slot' = [slot EXCEPT ![t.d].done = TRUE]
    /\ live' = At(t, "park")
    /\ \/ UNCHANGED <<loaded, rt>>
       \/ FailLoad(t.d)
    /\ UNCHANGED <<blocked, lock, ctx, sem, out, op, left, nsid, forgot>>

DecodeRead(t) ==
    /\ t.pc = "workio"
    /\ gate' = FALSE
    /\ live' = At(t, "work")
    /\ UNCHANGED <<blocked, lock, loaded, rt, ctx, sem, slot, out, op, left, nsid, forgot>>

\* The decoder waits for load_done; a file it cannot decode fails the load.
DecodeReady(t) ==
    /\ t.pc = "wait" /\ rt[t.d].run /\ slot[t.d].done
    /\ live' = At(t, "work")
    /\ \/ UNCHANGED <<loaded, rt>>
       \/ FailLoad(t.d)
    /\ UNCHANGED <<blocked, lock, ctx, sem, slot, out, gate, op, left, nsid, forgot>>

\* "run" is clear: a parked loader, or a decoder between reads, ends.
TaskEnd(t) ==
    /\ t.pc \in {"park", "wait", "work"}
    /\ ~rt[t.d].run
    /\ Exits(t)
    /\ UNCHANGED <<blocked, lock, loaded, rt, ctx, slot, out, gate, op, left, nsid, forgot>>

\* ae_output_task sees s_output_run clear: it clears its handle ...
OutputEnd ==
    /\ out.task /\ ~out.run
    /\ out' = [out EXCEPT !.task = FALSE, !.ends = @ + 1]
    /\ UNCHANGED <<blocked, lock, loaded, rt, ctx, sem, slot, live, gate, op, left, nsid, forgot>>

\* ... and gives the exit signal, by when the next output task may run.
OutputSignal ==
    /\ out.ends > 0
    /\ out' = [out EXCEPT !.ends = @ - 1, !.sem = 1]
    /\ UNCHANGED <<blocked, lock, loaded, rt, ctx, sem, slot, live, gate, op, left, nsid, forgot>>

-----------------------------------------------------------------------------
\* What one caller does once it is inside the engine.
Step(c) ==
    \/ StopBegin(c) \/ Join(c) \/ StopJoined(c) \/ StopFree(c) \/ OutStop(c) \/ OutWait(c)
    \/ c = "worker" /\ (LoadEnter \/ LoadBegin \/ LoadSpawn \/ LoadOutput \/ LoadAborted)
    \/ c = "storage" /\ (SuspendLock \/ SuspendEnd \/ Resume)

TaskStep(t) ==
    \/ TaskStart(t) \/ ReadBegin(t) \/ LoaderOpened(t) \/ LoaderFilled(t)
    \/ DecodeRead(t) \/ DecodeReady(t) \/ TaskEnd(t)

Next ==
    \/ \E d \in Decks : LoadAdmit(d) \/ Stop(d)
    \/ Suspend
    \/ \E c \in Callers : Step(c)
    \/ \E t \in live : TaskStep(t)
    \/ OutputEnd \/ OutputSignal

\* Every task is scheduled, every media read returns, and a FreeRTOS mutex is
\* handed to a waiter when it is given: strong fairness for what waits for
\* one.  Only the decoders' reads recur for ever; all other steps are finitely
\* many, so strong fairness of their disjunction is that of every caller and
\* of every task.
Fairness ==
    /\ SF_vars(\/ \E c \in Callers : Step(c)
               \/ \E t \in live : TaskEnd(t) \/ (t.pc \notin {"work", "workio"} /\ TaskStep(t))
               \/ OutputEnd \/ OutputSignal)
    /\ WF_vars(\E t \in live : DecodeRead(t))

Spec == Init /\ [][Next]_vars /\ Fairness

-----------------------------------------------------------------------------
(* Properties.                                                             *)

TypeOK ==
    /\ blocked \in BOOLEAN
    /\ lock \in [Decks -> Callers \cup {None}]
    /\ \A d \in Decks : lock[d] # None => op[lock[d]].pc # "idle"
    /\ loaded \in [Decks -> BOOLEAN]
    /\ \A d \in Decks : rt[d].started \in 0 .. ExpectedTasks
    /\ sem \in [Decks -> 0 .. SemMax]
    /\ \A d \in Decks : {slot[d].src, slot[d].buf} \subseteq 0 .. nsid
    /\ \A t \in live : t.d \in Decks /\ t.sid \in 1 .. nsid

\* The buffer a task reads or fills is never freed or replaced under it
\* ("freeing it under a stuck loader would be a use-after-free",
\* audio_engine.c:3895), whichever loads, stops and removals interleave and
\* whichever of their joins time out -- except after a LOAD aborted over a task
\* that sat in a read for longer than the abort's join: the abort keeps the
\* buffer, but resets tasks_started and the context (audio_engine.c:3947-3952),
\* and from then on ("forgot") nothing is promised.
BufferOutlivesTasks ==
    ~forgot => \A t \in live : t.pc \in {"fill", "fillio", "work", "workio"} => slot[t.d].buf = t.sid

\* One session at a time owns a deck: two generations of loader or decoder
\* never run side by side, whichever joins of stops and removals time out in
\* between.  The exception is the same: the LOAD after an abort that forgot a
\* task runs beside it.
OneSession ==
    ~forgot => \A t, u \in live : t.d = u.d => t.sid = u.sid

\* Every call into the engine returns: the admission mutex, which a LOAD keeps
\* while it waits for its deck, the deck mutexes, the media gate and the joins
\* never wait for each other in a circle.  (The calls are finitely many, so all
\* of them return iff the callers end up idle.)
CallsReturn == <>[](\A c \in Callers : op[c].pc = "idle")

\* The engine implements the barrier its callers rely on, until a LOAD
\* forgets a task.
Barrier == INSTANCE DeckBarrier WITH
    barrier <- IF forgot THEN "void"
               ELSE IF ~blocked THEN "open"
               ELSE IF op["storage"].pc = "held" THEN "closed" ELSE "closing",
    loading <- [d \in Decks |-> op["worker"].pc # "idle" /\ op["worker"].d = d],
    holds <- [d \in Decks |-> (\E t \in live : t.d = d) \/ slot[d].src # 0 \/ slot[d].buf # 0]
BarrierSpec == Barrier!Spec
=============================================================================
