---------------------------- MODULE MediaSession ----------------------------
(***************************************************************************)
(* The Rekordbox drive comes and goes while tracks are loaded from it      *)
(* (usb_storage.c, usb_storage_session.c, media_io_gate.c, app_main.c's    *)
(* on_usb_storage_event, library.c, media_catalog.c, ui_library.c's load   *)
(* worker and result poll, ui_load_gate.c, deck_loaded_track_store.c).     *)
(* Four tasks meet: the USB driver's callback records the wanted state,    *)
(* the storage task reconciles the mount with it and runs the application  *)
(* callback, a worker performs one LOAD, and the LVGL task publishes its   *)
(* result.  The audio engine is the abstraction that DeckBarrier states    *)
(* and DeckSession implements.                                             *)
(***************************************************************************)
EXTENDS Naturals

CONSTANTS
    Decks,           \* the decks
    MaxPlugs,        \* times the drive is plugged in
    MaxLoads,        \* LOADs the operator asks for
    MaxSorts,        \* times the catalog is sorted
    MaxFails,        \* I/O errors, allocation failures and stops that time out
    Bounce           \* may a drive be back before its removal was announced?

ASSUME MediaSessionAssumption ==
    /\ {MaxPlugs, MaxLoads, MaxSorts, MaxFails} \subseteq Nat
    /\ Bounce \in BOOLEAN

InitTries == 3       \* on_usb_storage_event calls library_init three times

VARIABLES
    plug,      \* the drive that is in the port: its number, or 0
    drv,       \* the drive the driver last reported: its number, or 0
    drvpc,     \* the driver's callback: "idle", or "gate" inside a disconnect
    ses,       \* s_session: conn, mounted, epoch, bound (accepted_handle)
    announced, \* s_announced_mounted
    avail,     \* media_io_gate's s_available
    st,        \* the storage task: pc, epoch, tries, owns (owns_load_barrier)
    dev,       \* s_msc_dev: the drive it was installed for, or 0
    mount,     \* s_mount: the drive whose volume is mounted at /usb, or 0
    lib,       \* the catalog: gen (s_generation), media (drive it lists, or 0)
    eng,       \* the audio engine: blocked, and per deck gen (its session's number),
               \* on (a session exists), src (drive of the open file), stuck (a task
               \* does not exit)
    gate,      \* s_track_load_gate: busy, cancelled
    wk,        \* the load worker: pc, d, gen, sess, rc, reset
    res,       \* s_track_load_result_q: the queued result (pc "queued"), if any
    ui,        \* LVGL task: pc, removed (a removal it was told of and has not seen)
    shown,     \* s_loaded_media_valid
    store,     \* s_loaded_tracks: floor, mg[d] (media_generation), valid[d]
    left       \* what the environment may still do

vars == <<plug, drv, drvpc, ses, announced, avail, st, dev, mount, lib, eng,
          gate, wk, res, ui, shown, store, left>>

storageVars == <<ses, announced, avail, st, dev, mount>>
loadVars == <<gate, wk, res, ui, shown>>

IdleWorker == [pc |-> "idle", d |-> 0, gen |-> 0, sess |-> 0, rc |-> "OK", reset |-> FALSE]

Init ==
    /\ plug = 0 /\ drv = 0 /\ drvpc = "idle"
    /\ ses = [conn |-> FALSE, mounted |-> FALSE, epoch |-> 0, bound |-> FALSE]
    /\ announced = FALSE /\ avail = FALSE
    /\ st = [pc |-> "look", epoch |-> 0, tries |-> 0, owns |-> FALSE]
    /\ dev = 0 /\ mount = 0
    /\ lib = [gen |-> 0, media |-> 0]
    /\ eng = [blocked |-> FALSE, gen |-> [d \in Decks |-> 0],
              on |-> [d \in Decks |-> FALSE], src |-> [d \in Decks |-> 0],
              stuck |-> [d \in Decks |-> FALSE]]
    /\ gate = [busy |-> FALSE, cancelled |-> FALSE]
    /\ wk = IdleWorker /\ res = IdleWorker
    /\ ui = [pc |-> "idle", removed |-> FALSE]
    /\ shown = [d \in Decks |-> FALSE]
    /\ store = [floor |-> 0, mg |-> [d \in Decks |-> 0], valid |-> [d \in Decks |-> FALSE]]
    /\ left = [plugs |-> MaxPlugs, loads |-> MaxLoads, sorts |-> MaxSorts, fails |-> MaxFails]

-----------------------------------------------------------------------------
(* The drive and the driver's callback.                                    *)

\* The operator plugs a drive in; each time counts as another drive.
PlugIn ==
    /\ plug = 0 /\ left.plugs > 0
    /\ plug' = MaxPlugs - left.plugs + 1
    /\ left' = [left EXCEPT !.plugs = @ - 1]
    /\ UNCHANGED <<drv, drvpc, lib, eng, store>> /\ UNCHANGED storageVars /\ UNCHANGED loadVars

Unplug ==
    /\ plug # 0
    /\ plug' = 0
    /\ UNCHANGED <<drv, drvpc, lib, eng, store, left>>
    /\ UNCHANGED storageVars /\ UNCHANGED loadVars

\* msc_event_cb -> publish_desired_connect -> usb_storage_session_on_connect.
\* A drive takes hundreds of milliseconds to enumerate: a storage task that was
\* waiting has by then acted on the removal before.  One that is building the
\* catalog has not.
ReportConnect ==
    /\ drvpc = "idle" /\ drv = 0 /\ plug # 0
    /\ ~(st.pc = "look" /\ (announced \/ mount # 0 \/ dev # 0))
    /\ Bounce \/ ~announced
    /\ drv' = plug
    /\ ses' = [conn |-> TRUE, mounted |-> FALSE, epoch |-> ses.epoch + 1, bound |-> FALSE]
    /\ UNCHANGED <<plug, drvpc, announced, avail, st, dev, mount, lib, eng, store, left>>
    /\ UNCHANGED loadVars

\* publish_desired_disconnect: usb_storage_session_on_disconnect ...
ReportDisconnect ==
    /\ drvpc = "idle" /\ drv # 0 /\ plug # drv
    /\ drv' = 0
    /\ drvpc' = "gate"
    /\ ses' = [conn |-> FALSE, mounted |-> FALSE, epoch |-> ses.epoch + 1, bound |-> FALSE]
    /\ UNCHANGED <<plug, announced, avail, st, dev, mount, lib, eng, store, left>>
    /\ UNCHANGED loadVars

\* ... and then the gate.
ReportDisconnectGate ==
    /\ drvpc = "gate"
    /\ drvpc' = "idle"
    /\ avail' = FALSE
    /\ UNCHANGED <<plug, drv, ses, announced, st, dev, mount, lib, eng, store, left>>
    /\ UNCHANGED loadVars

-----------------------------------------------------------------------------
(* The storage task.                                                       *)

Matches == ses.conn /\ ses.epoch = st.epoch       \* usb_storage_session_matches
At(pc) == st' = [st EXCEPT !.pc = pc]

\* Device I/O works only while the drive it was opened for is in the port;
\* otherwise, or by bad luck, it fails.
Fails(d) ==
    \/ d # plug /\ UNCHANGED left
    \/ left.fails > 0 /\ left' = [left EXCEPT !.fails = @ - 1]

\* Mutant: the volume is released before the application is told.
LookReleaseFirst ==
    /\ st.pc = "look"
    /\ \/ /\ ~ses.conn
          /\ ses' = [ses EXCEPT !.mounted = FALSE]
          /\ avail' = FALSE
          /\ \/ (mount # 0 \/ dev # 0) /\ At("release") /\ UNCHANGED announced
             \/ mount = 0 /\ dev = 0 /\ announced /\ announced' = FALSE /\ At("suspend")
       \/ /\ ses.conn /\ ~ses.mounted
          /\ ui = [pc |-> "idle", removed |-> FALSE]
          /\ st' = [st EXCEPT !.pc = "mount", !.epoch = ses.epoch]
          /\ UNCHANGED <<ses, announced, avail>>
    /\ UNCHANGED <<plug, drv, drvpc, dev, mount, lib, eng, store, left>> /\ UNCHANGED loadVars

\* Top of the loop.  Not connected: publish_unmounted, then the application
\* callback if a mount was announced.  Connected and not mounted: try to mount
\* once wait_for_stable_connection has seen 350 ms pass, in which the LVGL task
\* (a frame takes tens of milliseconds) has run.
Look ==
    /\ st.pc = "look"
    /\ \/ /\ ~ses.conn
          /\ ses' = [ses EXCEPT !.mounted = FALSE]
          /\ announced' = FALSE
          /\ avail' = FALSE
          /\ \/ announced /\ At("suspend")
             \/ ~announced /\ (mount # 0 \/ dev # 0) /\ At("release")
       \/ /\ ses.conn /\ ~ses.mounted
          /\ ui = [pc |-> "idle", removed |-> FALSE]
          /\ st' = [st EXCEPT !.pc = "mount", !.epoch = ses.epoch]
          /\ UNCHANGED <<ses, announced, avail>>
    /\ UNCHANGED <<plug, drv, drvpc, dev, mount, lib, eng, store, left>> /\ UNCHANGED loadVars

\* release_device: unmount and uninstall inside the gate, give the handle up.
ReleaseTo(pc) ==
    /\ mount' = 0
    /\ dev' = 0
    /\ ses' = IF dev # 0 /\ dev = drv THEN [ses EXCEPT !.bound = FALSE] ELSE ses
    /\ At(pc)

Release ==
    /\ st.pc = "release"
    /\ ReleaseTo("look")
    /\ UNCHANGED <<plug, drv, drvpc, announced, avail, lib, eng, store, left>> /\ UNCHANGED loadVars

\* mount_desired_device up to the installed and bound device handle.
Install ==
    /\ st.pc = "mount"
    /\ \/ ~Matches /\ At("look") /\ UNCHANGED <<ses, dev, mount, left>>
       \/ Matches /\ (mount # 0 \/ dev # 0) /\ ReleaseTo("mount") /\ UNCHANGED left
       \/ Matches /\ mount = 0 /\ dev = 0 /\ Fails(drv) /\ At("look") /\ UNCHANGED <<ses, dev, mount>>
       \/ /\ Matches /\ mount = 0 /\ dev = 0 /\ plug = drv
          /\ dev' = drv
          /\ ses' = [ses EXCEPT !.bound = TRUE]
          /\ At("volume")
          /\ UNCHANGED <<mount, left>>
    /\ UNCHANGED <<plug, drv, drvpc, announced, avail, lib, eng, store>> /\ UNCHANGED loadVars

\* usb_media_mount and the match test after it.
Mount ==
    /\ st.pc = "volume"
    /\ \/ Fails(dev) /\ ReleaseTo("look")
       \/ ~Matches /\ ReleaseTo("look") /\ UNCHANGED left
       \/ Matches /\ plug = dev /\ mount' = dev /\ At("open") /\ UNCHANGED <<ses, dev, left>>
    /\ UNCHANGED <<plug, drv, drvpc, announced, avail, lib, eng, store>> /\ UNCHANGED loadVars

\* commit_mounted opens the gate before the final test of the session ...
CommitOpen ==
    /\ st.pc = "open"
    /\ avail' = TRUE
    /\ At("commit")
    /\ UNCHANGED <<plug, drv, drvpc, ses, announced, dev, mount, lib, eng, store, left>>
    /\ UNCHANGED loadVars

\* Mutant: the session is not asked again.
CommitAlways ==
    /\ st.pc = "commit"
    /\ ses' = [ses EXCEPT !.mounted = TRUE]
    /\ announced' = TRUE
    /\ st' = [st EXCEPT !.pc = "init", !.tries = InitTries]
    /\ UNCHANGED <<plug, drv, drvpc, avail, dev, mount, lib, eng, store, left>>
    /\ UNCHANGED loadVars

\* ... and closes it again if the drive has gone.
Commit ==
    /\ st.pc = "commit"
    /\ IF Matches /\ ses.bound
       THEN /\ ses' = [ses EXCEPT !.mounted = TRUE]
            /\ announced' = TRUE
            /\ st' = [st EXCEPT !.pc = "init", !.tries = InitTries]
            /\ UNCHANGED <<avail, dev, mount>>
       ELSE avail' = FALSE /\ ReleaseTo("look") /\ UNCHANGED announced
    /\ UNCHANGED <<plug, drv, drvpc, lib, eng, store, left>> /\ UNCHANGED loadVars

-----------------------------------------------------------------------------
(* on_usb_storage_event(true): the catalog.                                *)

\* library_init, up to three times: pdb_open, with s_index_building set ...
LibraryOpen ==
    /\ st.pc = "init"
    /\ \/ plug = mount /\ At("parse") /\ UNCHANGED left
       \/ /\ Fails(mount)
          /\ st' = [st EXCEPT !.tries = @ - 1, !.pc = IF st.tries > 1 THEN "init" ELSE "look"]
    /\ UNCHANGED <<plug, drv, drvpc, ses, announced, avail, dev, mount, lib, eng, store>>
    /\ UNCHANGED loadVars

\* ... the rows, as many as could be read, and the publication.
LibraryPublish ==
    /\ st.pc = "parse"
    /\ lib' = [gen |-> lib.gen + 1, media |-> mount]
    /\ At("look")
    /\ UNCHANGED <<plug, drv, drvpc, ses, announced, avail, dev, mount, eng, store, left>>
    /\ UNCHANGED loadVars

\* library_sort: refused during a build and on an empty catalog.
Sort ==
    /\ left.sorts > 0
    /\ st.pc # "parse" /\ lib.media # 0
    /\ lib' = [lib EXCEPT !.gen = @ + 1]
    /\ left' = [left EXCEPT !.sorts = @ - 1]
    /\ UNCHANGED <<plug, drv, drvpc, eng, store>> /\ UNCHANGED storageVars /\ UNCHANGED loadVars

-----------------------------------------------------------------------------
(* The audio engine, as DeckBarrier states it.                             *)

\* audio_engine_stop_for_deck of the decks ds, in a new generation each; a deck
\* with a stuck task keeps its session.
Stopped(ds, e) ==
    [e EXCEPT !.gen = [d \in Decks |-> IF d \in ds THEN @[d] + 1 ELSE @[d]],
              !.on  = [d \in Decks |-> @[d] /\ ~(d \in ds /\ ~e.stuck[d])],
              !.src = [d \in Decks |-> IF d \in ds /\ ~e.stuck[d] THEN 0 ELSE @[d]]]

DeckStop(d) == eng' = Stopped({d}, eng)

\* audio_engine_deck_stop_session: only if the session is still that one.
StopSession(d, sess) ==
    eng' = IF sess # 0 /\ eng.gen[d] = sess THEN Stopped({d}, eng) ELSE eng

\* The loader task opens the file, or fails and gives the session up.
LoaderOpen(d) ==
    /\ eng.on[d] /\ eng.src[d] = 0
    /\ \/ mount # 0 /\ plug = mount /\ eng' = [eng EXCEPT !.src[d] = mount] /\ UNCHANGED left
       \/ (mount = 0 \/ plug # mount) /\ eng' = [eng EXCEPT !.on[d] = FALSE] /\ UNCHANGED left
    /\ UNCHANGED <<plug, drv, drvpc, lib, store>> /\ UNCHANGED storageVars /\ UNCHANGED loadVars

-----------------------------------------------------------------------------
(* on_usb_storage_event(false): the decks, the catalog, the store, the UI. *)

\* audio_engine_suspend_loads_and_stop_all: closes admission and stops every
\* deck; if a deck does not stop in time it opens admission again.
SuspendLoads ==
    /\ st.pc = "suspend"
    /\ \/ UNCHANGED left /\ eng' = [Stopped(Decks, eng) EXCEPT !.blocked = \A d \in Decks : ~eng.stuck[d]]
       \/ /\ left.fails > 0
          /\ left' = [left EXCEPT !.fails = @ - 1]
          /\ \E d \in Decks :
                /\ eng.on[d] /\ ~eng.stuck[d]
                /\ eng' = Stopped(Decks, [eng EXCEPT !.stuck[d] = TRUE])
    /\ st' = [st EXCEPT !.pc = "clear", !.owns = eng'.blocked]
    /\ UNCHANGED <<plug, drv, drvpc, ses, announced, avail, dev, mount, lib, store>>
    /\ UNCHANGED loadVars

\* library_clear
LibraryClear ==
    /\ st.pc = "clear"
    /\ lib' = [gen |-> lib.gen + 1, media |-> 0]
    /\ At("tracks")
    /\ UNCHANGED <<plug, drv, drvpc, ses, announced, avail, dev, mount, eng, store, left>>
    /\ UNCHANGED loadVars

\* deck_core_clear_loaded_tracks(library_generation())
ClearLoadedTracks ==
    /\ st.pc = "tracks"
    /\ store' = IF lib.gen < store.floor \/ \E d \in Decks : store.mg[d] > lib.gen
                THEN store
                ELSE [floor |-> lib.gen, mg |-> [d \in Decks |-> lib.gen],
                      valid |-> [d \in Decks |-> FALSE]]
    /\ At("notify")
    /\ UNCHANGED <<plug, drv, drvpc, ses, announced, avail, dev, mount, lib, eng, left>>
    /\ UNCHANGED loadVars

\* Mutant: the barrier's owner leaves it closed.
NotifyOnly ==
    /\ st.pc = "notify"
    /\ ui' = [ui EXCEPT !.removed = TRUE]
    /\ st' = [st EXCEPT !.pc = IF mount # 0 \/ dev # 0 THEN "release" ELSE "look", !.owns = FALSE]
    /\ UNCHANGED <<plug, drv, drvpc, ses, announced, avail, dev, mount, lib, eng, store, left,
                   gate, wk, res, shown>>

\* ui_notify_usb_removed and audio_engine_resume_loads, by the barrier's owner.
NotifyAndResume ==
    /\ st.pc = "notify"
    /\ ui' = [ui EXCEPT !.removed = TRUE]
    /\ eng' = IF st.owns THEN [eng EXCEPT !.blocked = FALSE] ELSE eng
    /\ st' = [st EXCEPT !.pc = IF mount # 0 \/ dev # 0 THEN "release" ELSE "look", !.owns = FALSE]
    /\ UNCHANGED <<plug, drv, drvpc, ses, announced, avail, dev, mount, lib, store, left,
                   gate, wk, res, shown>>

-----------------------------------------------------------------------------
(* One LOAD: the request, the worker, the result.                          *)

IsCurrent == gate.busy /\ ~gate.cancelled          \* ui_load_gate_is_current
storeRefuses(d, g) == g < store.floor \/ g < store.mg[d]

\* ui_library_load_selected_deck, ui_library_load_track_identity_for_deck
LoadRequest(d) ==
    /\ left.loads > 0
    /\ ~gate.busy /\ lib.media # 0
    /\ gate' = [busy |-> TRUE, cancelled |-> FALSE]
    /\ res' = IdleWorker
    /\ wk' = [IdleWorker EXCEPT !.pc = "resolve", !.d = d, !.gen = lib.gen]
    /\ left' = [left EXCEPT !.loads = @ - 1]
    /\ UNCHANGED <<plug, drv, drvpc, lib, eng, ui, shown, store>> /\ UNCHANGED storageVars

\* ui_track_load_worker: media_catalog_load_by_identity, then is the load wanted?
Resolve ==
    /\ wk.pc = "resolve"
    /\ \/ /\ lib.gen # wk.gen \/ ~IsCurrent
          /\ wk' = [wk EXCEPT !.pc = "send", !.rc = "INVALID_STATE"]
          /\ UNCHANGED left
       \/ /\ left.fails > 0
          /\ left' = [left EXCEPT !.fails = @ - 1]
          /\ wk' = [wk EXCEPT !.pc = "send", !.rc = "FAIL"]
       \/ /\ lib.gen = wk.gen /\ IsCurrent
          /\ wk' = [wk EXCEPT !.pc = "reset"]
          /\ UNCHANGED left
    /\ UNCHANGED <<plug, drv, drvpc, lib, eng, gate, res, ui, shown, store>> /\ UNCHANGED storageVars

\* deck_core_reset_deck and deck_core_clear_loaded_track
ResetDeck ==
    /\ wk.pc = "reset"
    /\ IF storeRefuses(wk.d, wk.gen)
       THEN /\ wk' = [wk EXCEPT !.pc = "send", !.reset = TRUE, !.rc = "INVALID_STATE"]
            /\ UNCHANGED store
       ELSE /\ wk' = [wk EXCEPT !.pc = "load", !.reset = TRUE]
            /\ store' = [store EXCEPT !.mg[wk.d] = wk.gen, !.valid[wk.d] = FALSE]
    /\ UNCHANGED <<plug, drv, drvpc, lib, eng, gate, res, ui, shown, left>> /\ UNCHANGED storageVars

\* audio_engine_deck_load_session: refused behind the barrier; otherwise a new
\* generation, the old session ended and a new one begun, or no memory for it.
LoadSession ==
    /\ wk.pc = "load"
    /\ \/ /\ eng.blocked
          /\ wk' = [wk EXCEPT !.pc = "send", !.rc = "INVALID_STATE"]
          /\ UNCHANGED <<eng, left>>
       \/ /\ ~eng.blocked
          /\ LET e == Stopped({wk.d}, eng)
             IN \/ /\ ~eng.stuck[wk.d]
                   /\ eng' = [e EXCEPT !.on[wk.d] = TRUE]
                   /\ wk' = [wk EXCEPT !.pc = "check", !.sess = e.gen[wk.d]]
                   /\ UNCHANGED left
                \/ /\ \/ eng.stuck[wk.d] /\ UNCHANGED left
                      \/ left.fails > 0 /\ left' = [left EXCEPT !.fails = @ - 1]
                   /\ eng' = e
                   /\ wk' = [wk EXCEPT !.pc = "send", !.sess = e.gen[wk.d], !.rc = "FAIL"]
    /\ UNCHANGED <<plug, drv, drvpc, lib, gate, res, ui, shown, store>> /\ UNCHANGED storageVars

\* Did the catalog change, or the drive go, while the session was made?
Recheck ==
    /\ wk.pc = "check"
    /\ IF lib.gen # wk.gen \/ ~IsCurrent
       THEN /\ StopSession(wk.d, wk.sess)
            /\ wk' = [wk EXCEPT !.pc = "send", !.rc = "INVALID_STATE"]
       ELSE wk' = [wk EXCEPT !.pc = "send"] /\ UNCHANGED eng
    /\ UNCHANGED <<plug, drv, drvpc, lib, gate, res, ui, shown, store, left>>
    /\ UNCHANGED storageVars

Send ==
    /\ wk.pc = "send"
    /\ res' = [wk EXCEPT !.pc = "queued"]
    /\ wk' = IdleWorker
    /\ UNCHANGED <<plug, drv, drvpc, lib, eng, gate, ui, shown, store, left>>
    /\ UNCHANGED storageVars

\* Mutant: a removal frees the single-flight slot.
InvalidateFrees == gate' = [busy |-> FALSE, cancelled |-> FALSE]

\* ui_load_gate_invalidate
Invalidate == gate' = [gate EXCEPT !.cancelled = gate.busy]

\* ui_library_update: ui_apply_usb_removed first, then the results.
UiUpdate ==
    /\ ui.pc = "idle" /\ (ui.removed \/ res.pc = "queued")
    /\ ui' = [pc |-> "poll", removed |-> FALSE]
    /\ IF ui.removed
       THEN Invalidate /\ shown' = [d \in Decks |-> FALSE]
       ELSE UNCHANGED <<gate, shown>>
    /\ UNCHANGED <<plug, drv, drvpc, lib, eng, wk, res, store, left>> /\ UNCHANGED storageVars

Finish(pc) ==
    /\ gate' = [busy |-> FALSE, cancelled |-> FALSE]
    /\ res' = IdleWorker
    /\ ui' = [ui EXCEPT !.pc = pc]

\* Mutant: a result whose catalog is gone only clears the screen.
StaleResultUiOnly ==
    /\ shown' = IF res.reset THEN [shown EXCEPT ![res.d] = FALSE] ELSE shown
    /\ UNCHANGED eng

\* A result whose catalog is gone: the session is retired, then the screen.
StaleResult ==
    IF res.reset
    THEN /\ IF res.sess # 0 THEN StopSession(res.d, res.sess) ELSE DeckStop(res.d)
         /\ shown' = [shown EXCEPT ![res.d] = FALSE]
    ELSE UNCHANGED <<eng, shown>>

\* ui_poll_track_load_result up to deck_core_publish_loaded_track.
UiPoll ==
    /\ ui.pc = "poll"
    /\ \/ /\ res.pc # "queued"
          /\ ui' = [ui EXCEPT !.pc = "idle"]
          /\ UNCHANGED <<eng, gate, res, shown>>
       \/ /\ res.pc = "queued" /\ ~IsCurrent
          /\ StopSession(res.d, res.sess)
          /\ Finish("poll")
          /\ UNCHANGED shown
       \/ /\ res.pc = "queued" /\ IsCurrent /\ res.gen # lib.gen
          /\ StaleResult
          /\ Finish("poll")
       \/ /\ res.pc = "queued" /\ IsCurrent /\ res.gen = lib.gen /\ res.rc # "OK"
          /\ IF res.reset
             THEN DeckStop(res.d) /\ shown' = [shown EXCEPT ![res.d] = FALSE]
             ELSE UNCHANGED <<eng, shown>>
          /\ Finish("poll")
       \/ /\ res.pc = "queued" /\ IsCurrent /\ res.gen = lib.gen /\ res.rc = "OK"
          /\ ui' = [ui EXCEPT !.pc = "publish"]
          /\ UNCHANGED <<eng, gate, res, shown>>
    /\ UNCHANGED <<plug, drv, drvpc, lib, wk, store, left>> /\ UNCHANGED storageVars

\* deck_core_publish_loaded_track and what follows it.  No memory for the track's
\* analysis, or a catalog that is gone: the deck is emptied again.
UiPublish ==
    /\ ui.pc = "publish"
    /\ LET d == res.d IN
       \/ /\ \/ storeRefuses(d, res.gen) /\ UNCHANGED left
             \/ left.fails > 0 /\ left' = [left EXCEPT !.fails = @ - 1]
          /\ DeckStop(d)
          /\ shown' = [shown EXCEPT ![d] = FALSE]
          /\ UNCHANGED store
       \/ /\ ~storeRefuses(d, res.gen)
          /\ store' = [store EXCEPT !.mg[d] = res.gen, !.valid[d] = TRUE]
          /\ shown' = [shown EXCEPT ![d] = TRUE]
          /\ UNCHANGED <<eng, left>>
    /\ Finish("poll")
    /\ UNCHANGED <<plug, drv, drvpc, lib, wk>> /\ UNCHANGED storageVars

-----------------------------------------------------------------------------
Driver == ReportConnect \/ ReportDisconnect \/ ReportDisconnectGate
Storage ==
    \/ Look \/ Release \/ Install \/ Mount \/ CommitOpen \/ Commit
    \/ LibraryOpen \/ LibraryPublish
    \/ SuspendLoads \/ LibraryClear \/ ClearLoadedTracks \/ NotifyAndResume
Worker == Resolve \/ ResetDeck \/ LoadSession \/ Recheck \/ Send
Ui == UiUpdate \/ UiPoll \/ UiPublish

Next ==
    \/ PlugIn \/ Unplug \/ Sort
    \/ Driver \/ Storage \/ Worker \/ Ui
    \/ \E d \in Decks : LoadRequest(d) \/ LoaderOpen(d)

\* Every task runs: FreeRTOS schedules them by priority and each of them blocks
\* between its steps.
Spec ==
    /\ Init /\ [][Next]_vars
    /\ WF_vars(Driver) /\ WF_vars(Storage) /\ WF_vars(Worker) /\ WF_vars(Ui)
    /\ \A d \in Decks : WF_vars(LoaderOpen(d))

-----------------------------------------------------------------------------
(* Properties.                                                             *)

\* Every variable has its type, and the single-flight slot of ui_load_gate has
\* one holder: it is busy exactly while one worker runs or its result waits.
TypeOK ==
    /\ plug \in 0 .. MaxPlugs /\ drv \in 0 .. MaxPlugs /\ drvpc \in {"idle", "gate"}
    /\ dev \in 0 .. MaxPlugs /\ mount \in 0 .. MaxPlugs /\ lib.media \in 0 .. MaxPlugs
    /\ announced \in BOOLEAN /\ avail \in BOOLEAN
    /\ eng.on \in [Decks -> BOOLEAN] /\ eng.src \in [Decks -> 0 .. MaxPlugs]
    /\ shown \in [Decks -> BOOLEAN] /\ store.valid \in [Decks -> BOOLEAN]
    /\ gate.cancelled => gate.busy
    /\ ~(wk.pc # "idle" /\ res.pc # "idle")
    /\ gate.busy <=> (wk.pc # "idle" \/ res.pc # "idle")

\* media_io_gate says "available" only for the volume of the drive that the
\* session believes in, however the driver's disconnect callback and the
\* storage task's commit_mounted interleave (usb_storage.c, commit_mounted:
\* "its callback always executes the later set_available(false)").
GateTruth ==
    avail /\ drvpc = "idle" /\ st.pc # "commit" =>
        ses.conn /\ ses.mounted /\ mount = drv /\ mount = dev

Wedged == \E d \in Decks : eng.stuck[d]

\* No deck holds a file of a volume that is not mounted any more: the removal
\* callback has stopped the decks before release_device unmounts, whatever the
\* load worker does meanwhile.  Two exceptions are the code's: a removal that
\* could not stop a deck, which reopens admission at once, and a session that
\* the worker made for a catalog that is gone and retires in its next step.
SourceOfMount ==
    \A d \in Decks : eng.src[d] # 0 =>
        \/ eng.src[d] = mount
        \/ Wedged
        \/ wk.pc = "check" /\ wk.d = d /\ wk.gen # lib.gen

\* The application hears of every unmount before the volume goes
\* (usb_storage.h: "Fired from the USB storage task when the drive mounts (true)
\* or unmounts (false)").  A drive that bounces while the catalog is built is
\* unmounted by mount_desired_device, which tells nobody.
UnmountAnnounced == [][mount # 0 /\ mount' # mount => ~announced]_vars

Quiet ==
    /\ wk.pc = "idle" /\ res.pc = "idle" /\ ui = [pc |-> "idle", removed |-> FALSE]
    /\ st.pc \notin {"clear", "tracks", "notify"}

\* Between loads and removals the screen, the deck core's store and the engine
\* agree: a deck the screen shows as empty has no audio session that could
\* still be started (ui_poll_track_load_result: "so both sides agree the deck
\* is empty").  A removal that could not stop a deck is excepted: it reopens
\* admission before the catalog is cleared, and a LOAD of the other deck may
\* slip through.
AgreeEmpty ==
    Quiet => \A d \in Decks :
                /\ store.valid[d] = shown[d]
                /\ eng.on[d] => shown[d] \/ Wedged

\* When the operator stops plugging, the system comes to rest on what is in the
\* port: the drive mounted, readable and listed, or nothing mounted, listed,
\* shown or held; and another LOAD would be admitted by the UI and the engine.
Settles ==
    <>[](/\ ~gate.busy /\ ~eng.blocked
         /\ IF plug = 0
            THEN /\ mount = 0 /\ dev = 0 /\ ~avail /\ lib.media = 0
                 /\ \A d \in Decks : ~shown[d] /\ ~store.valid[d] /\ (eng.on[d] => Wedged)
            ELSE mount = plug /\ avail /\ lib.media = plug)
=============================================================================
