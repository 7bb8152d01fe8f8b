---------------------------- MODULE Screensaver ----------------------------
(***************************************************************************)
(* The P4 idle screensaver: ui_idle.c decides when it shows, ui.c runs the *)
(* decision once per UI frame and publishes it, deck_core_queue_event asks *)
(* ui_activity_notice whether the event in hand wakes the screen and so is *)
(* to be swallowed, and the deck task acts on what reached its queue.      *)
(*                                                                         *)
(* Events come from three places: the web server's task and the UI task    *)
(* itself, both through deck_core_queue_event, and the S3 controller,      *)
(* whose receive task sends to the same queue directly.  Every event here  *)
(* is a PLAY press.                                                        *)
(***************************************************************************)
EXTENDS Integers

CONSTANTS
  ClockMod,   \* the millisecond counter wraps here (2^32)
  Timeout,    \* UI_IDLE_DEFAULT_TIMEOUT_MS
  QueueCap,   \* CTRL_QUEUE_LEN
  Sources,    \* the producers of this instance
  MaxEvents   \* bound: events produced

ASSUME ScreensaverAssumption ==
  /\ ClockMod \in Nat \ {0} /\ Timeout \in 0 .. ClockMod - 1
  /\ QueueCap \in Nat \ {0} /\ MaxEvents \in Nat
  /\ Sources \subseteq {"web", "ui", "flx4"}

VARIABLES
  now,           \* ui_now_ms
  lastActivity,  \* s_idle.last_activity_ms
  shown,         \* s_idle.shown
  flag,          \* s_idle_activity_flag
  shownPub,      \* s_idle_shown_pub
  uiPc,          \* where the UI task is in its frame
  uiNow, uiPlaying,  \* the frame's clock and deck snapshot
  web,           \* the web task is between the flag and the verdict
  queue,         \* s_queue: the number of PLAY presses in it
  playing,       \* the deck plays
  nEvents

idleVars == <<lastActivity, shown, shownPub>>
uiVars == <<uiPc, uiNow, uiPlaying>>
vars == <<now, idleVars, flag, uiVars, web, queue, playing, nEvents>>

Init ==
  /\ now = 0 /\ lastActivity = 0 /\ shown = FALSE /\ flag = FALSE
  /\ shownPub = FALSE
  /\ uiPc = "frame" /\ uiNow = 0 /\ uiPlaying = FALSE
  /\ web = FALSE
  /\ queue = 0 /\ playing = FALSE /\ nEvents = 0

\* Wrong variants, for checking the properties.
NeverInhibited == FALSE
ForgetsActivity == lastActivity

\* elapsed_since: unsigned subtraction.
Elapsed == (uiNow - lastActivity) % ClockMod

-----------------------------------------------------------------------------
(* The UI task's frame: build the context, service the idle state.          *)

Tick ==
  /\ now' = (now + 1) % ClockMod
  /\ UNCHANGED <<idleVars, flag, uiVars, web, queue, playing, nEvents>>

\* ui_build_frame_context
UiFrame ==
  /\ uiPc = "frame"
  /\ uiPlaying' = playing /\ uiPc' = "flag"
  /\ UNCHANGED <<now, idleVars, flag, uiNow, web, queue, playing, nEvents>>

\* The flag is tested and cleared by two separate accesses.
UiTestFlag ==
  /\ uiPc = "flag"
  /\ uiNow' = now
  /\ uiPc' = IF flag THEN "clear" ELSE "decide"
  /\ UNCHANGED <<now, idleVars, flag, uiPlaying, web, queue, playing, nEvents>>

\* ui_idle_notice_activity
ActivityNoticed == uiNow

UiClearFlag ==
  /\ uiPc = "clear"
  /\ flag' = FALSE
  /\ lastActivity' = ActivityNoticed
  /\ uiPc' = "decide"
  /\ UNCHANGED <<now, shown, shownPub, uiNow, uiPlaying, web, queue, playing,
                 nEvents>>

\* Recording never inhibits: the recorder is compiled out.
Inhibited == uiPlaying

\* ui_idle_tick and the publication of its verdict.
UiDecide ==
  /\ uiPc = "decide"
  /\ lastActivity' = IF Inhibited THEN uiNow ELSE lastActivity
  /\ shown' = /\ Timeout # 0 /\ ~Inhibited
              /\ Elapsed >= Timeout
  /\ shownPub' = shown'
  /\ uiPc' = "frame"
  /\ UNCHANGED <<now, flag, uiNow, uiPlaying, web, queue, playing, nEvents>>

-----------------------------------------------------------------------------
(* The producers.                                                           *)

\* xQueueSend without waiting: a full queue drops the event.
Queued == IF queue < QueueCap THEN queue + 1 ELSE queue

\* A web request enters deck_core_queue_event: ui_activity_notice sets the flag
\* and only then reads the published state.
WebPress ==
  /\ "web" \in Sources /\ ~web /\ nEvents < MaxEvents
  /\ nEvents' = nEvents + 1
  /\ flag' = TRUE
  /\ web' = TRUE
  /\ UNCHANGED <<now, idleVars, uiVars, queue, playing>>

WebVerdict ==
  /\ web
  /\ queue' = IF shownPub THEN queue ELSE Queued
  /\ web' = FALSE
  /\ UNCHANGED <<now, idleVars, flag, uiVars, playing, nEvents>>

\* The UI task posts between two frames, so nothing of its own interleaves; the
\* touch itself already counts as activity.
UiPress ==
  /\ "ui" \in Sources /\ uiPc = "frame" /\ nEvents < MaxEvents
  /\ nEvents' = nEvents + 1
  /\ flag' = TRUE
  /\ queue' = IF shownPub THEN queue ELSE Queued
  /\ UNCHANGED <<now, idleVars, uiVars, web, playing>>

\* enqueue_control_event of the S3 receive task: straight to the queue.
Flx4Press ==
  /\ "flx4" \in Sources /\ nEvents < MaxEvents
  /\ nEvents' = nEvents + 1
  /\ queue' = Queued
  /\ UNCHANGED <<now, idleVars, flag, uiVars, web, playing>>

\* deck_task: PLAY toggles the deck.
DeckTake ==
  /\ queue > 0
  /\ queue' = queue - 1
  /\ playing' = ~playing
  /\ UNCHANGED <<now, idleVars, flag, uiVars, web, nEvents>>

UiStep == UiFrame \/ UiTestFlag \/ UiClearFlag \/ UiDecide
Produce == WebPress \/ UiPress \/ Flx4Press
Next == Tick \/ UiStep \/ Produce \/ WebVerdict \/ DeckTake

\* The UI task, the deck task and a web request in progress keep running; no
\* fairness is assumed of the clock or of the producers.
Spec ==
  /\ Init /\ [][Next]_vars
  /\ WF_vars(UiStep) /\ WF_vars(WebVerdict) /\ WF_vars(DeckTake)

-----------------------------------------------------------------------------
\* Activity reported while the screensaver is up takes it down, although the
\* flag is tested and cleared without a lock and is set by other tasks.
WakesUp == flag /\ shownPub ~> ~shownPub

\* A deck that plays does not stay behind the screensaver, even when the press
\* that started it never reported any activity.
PlaybackUncovers == playing /\ shownPub ~> ~shownPub \/ ~playing
=============================================================================
