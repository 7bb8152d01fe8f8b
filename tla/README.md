# TLA+ models of Pajoniiir

Pajoniiir turns a DDJ-FLX4 controller and two ESP32 boards into a standalone
DJ deck. The **S3** (`firmware/control-board-s3`) is the USB host of the
controller; the **P4** (`firmware/main-deck-p4`) plays the music, draws the UI,
serves a web page and stores the library. The boards talk over a UART that
loses frames and acknowledges nothing except profile transfers.

This directory holds TLA+ modules that model the code's concurrent parts, TLC
configurations that check them on small instances, and proofs checked by TLAPS.
`PROJECT.json` lists the runs, the source lines each definition models, a
mutant or two per checked property, the hazards of the code, and the findings.

    tlc -config ControlLinkRx.cfg MCControlLinkRx     # one run
    tlapm DeckSessionProofs.tla                       # the proofs of one module

## 1. Inventory

| Component | State | Operations | Hard part | What makes it correct |
|---|---|---|---|---|
| P4 control link receiver (`control_link_uart.c`) | held slots, 256 pending slots, scan hint, counters | `dispatch_frame`, `enqueue_control_event`, the flushes, `uart_rx_pump` | a full deck queue shared with UI and web producers | no level lost, nothing repeated, movement conserved, drops counted |
| Held-state reconciler (`control_state_reconciler.h`) | slot per held control: observed, desired, scheduled, dirty | observe, mark scheduled, release all, next dirty/observed | used by two boards and four tasks | dirty iff the newest level was not scheduled |
| Control event scheduler (`control_event_scheduler.c`) | FIFO and coalescing slots | publish, dequeue, take, reset | accumulation in a slot that is reused | order of commands, sum of movement |
| S3 sending tasks (`control-board-s3/main/app_main.c`) | map, held slots, scheduler | USB callback, heartbeat replay, translator | three tasks send what they read earlier | the P4 converges to the controller |
| USB MIDI host (`flx4_midi_host.c`) | device, transfers, LED queue, connection state | open, close in steps, callbacks, LED producers | teardown against callbacks and producers | no transfer outlives its device, LEDs keep to their connection, input recovers |
| Profile manager (P4) and receiver (S3) | registry, mark, two queues; receiver, runtime | announce, match, stream, activate, clear, install | replies without a number, five tasks, restarts | the open controller maps through its own, complete profile |
| Idle screensaver (`ui_idle.c`, `ui.c`) | timer, activity flag, published state | tick, notice, wake | lock-free flag | activity and playback take it down |
| S3 LED output (`controller_led_reconciler.c`) | desired and sent lights | update, flush, replay | reconnection, profile change | lights follow the deck |
| Deck core (`deck_core.c`) | decks, cues, loops, sync, load requests | one handler per event | many modes sharing buttons | mode exits, load/eject order |
| Audio engine lifecycle (`audio_engine.c`, `audio_fw_*.c`) | per deck: mutex, generation, tasks, exit semaphore, open file, cache buffer; admission flag; shared output task | load, stop, suspend all, resume, loader/decoder/output tasks | joins that time out, failed loads, three callers | no buffer freed under a task, one session per deck, the barrier holds |
| USB storage, media gate, library, catalog, load path of the UI (`usb_storage*.c`, `media_io_gate.c`, `library.c`, `media_catalog.c`, `ui_library.c`, `ui_load_gate.c`, `deck_loaded_track_store.c`) | mount session, availability, catalog generation, single-flight gate, what screen and store show | connect, mount, commit, index, sort, remove, request, resolve, publish | a drive pulled at any moment | nobody reads a volume that is gone; all views agree; it settles |
| Audio recorder (`audio_recorder*.c`, `sd_io_gate.c`) | state, ring, producer gate, writer, segment, card | start, push, write, checkpoint, stop, recover | realtime producer against stop; card faults; power loss | the ring is owned, a published file is whole, checkpoints survive |
| PCM rings, mixer, effects, monitor link | sample buffers | render | realtime | sound |
| Updaters and boot gate (`p4_ota*`, `s3_ota`, `firmware_boot_gate.c`) | pull state, image state, challenge | check, download, apply, confirm, roll back | power loss, partial download | an image is kept only if it proved itself |
| Wi-Fi link and lease, web server, settings, cues, log | leases, sessions, records | connect, hand over, store | leases that outlive their holder | one owner at a time |

Interactions: USB callbacks on the S3 feed the map, the held slots and the
scheduler; translator and heartbeat write the UART; the P4's UART task posts to
the deck queue, to the profile manager's queue and its reply semaphore; the
deck, UI and web tasks post to the same deck queue; the profile sender writes
the UART in the other direction; LED frames travel back to the USB host. On the
media side the MSC driver's callback reports drives to the storage task, which
mounts them and calls the application (`on_usb_storage_event`); that builds the
catalog, or stops the decks behind the engine's barrier, clears catalog and
loaded-track store and tells the UI. A LOAD runs on a worker of the UI, which
calls the catalog, the deck core and the engine, and hands its result to the
LVGL task. The recorder taps the engine's output task and is started and
stopped by the LVGL task and the web server.

## 2. Modules

| Module | Models | Notes |
|---|---|---|
| `HeldReconciler` | the slot operations of `control_state_reconciler.h` | shared by the next two |
| `ControlLinkRx` | the P4's receive task, deck task and other producers | one step per `xQueueSend`: that is where others run |
| `ControlLinkTx` | the S3's USB, heartbeat and translator tasks, the UART, the P4's view | a private copy or an event taken from the scheduler is a variable of its own |
| `MidiHost` | the USB client loop, its callbacks, two LED producers | callbacks run only inside `usb_host_client_handle_events` |
| `ProfileTransfer` | USB task and UART task of the S3; UART, descriptor, sender and web tasks of the P4 | what happens under the manager's mutex is one step |
| `Screensaver` | UI frame, web, UI and controller activity, deck queue | the flag's test and clear are separate steps |
| `DeckBarrier` | what the engine's lifecycle promises: media is held only inside an admitted LOAD, and nothing is held once the removal barrier is closed | abstract specification |
| `DeckSession` | the lifecycle of `audio_engine.c`: LOAD, STOP and suspend by three callers, the loader, decoder and output tasks, the media gate as the place where they hang | implements `DeckBarrier` |
| `MediaSession` | driver callback, storage task, application callback, load worker and LVGL task from the drive in the port to the deck on the screen | composes storage, gate, catalog, load gate and store with the engine, which appears as atomic stops and loads, the level `DeckBarrier` describes |
| `Recorder` | output task, writer, callers, the card, power failures and the recovery at boot | one step per access of the gate, the state and the ring |
| `Sums` | finite sums, for the conservation properties of the control link | a recursive function, so that it can be proved about |
| `MCControlLinkRx`, `MCControlLinkTx`, `MCScreensaver` | values of the constants | |
| `ControlLinkRxProofs`, `ControlLinkTxProofs`, `MidiHostProofs`, `ProfileTransferProofs`, `DeckSessionProofs`, `MediaSessionProofs`, `RecorderProofs` | theorems about the module each is named after | section 4 |
| `SumsProofs` | induction over the natural numbers, and what `SumUpTo` computes | used by three of them |

A variable's comment names the C variable it stands for. Variables no C
variable corresponds to record history for the properties: in `ControlLinkRx`
what was received and what the deck took; in `ControlLinkTx` what was lost and
what the P4 was told; in `ProfileTransfer` the `from` fields and `restarted`; in
`DeckSession` the session numbers `sid` and `forgot`; in `MediaSession` the numbers that tell
one plugging of a drive from the next; in `Recorder` `taken` and `nalloc`.
Payloads are small integers or model values; logging, statistics that nothing
reads, and byte formats are left out, frames are records. Where a task blocks
(the 20 ms wait of `enqueue_control_event`, the reply timeout), success and
expiry are both actions.

## 3. Runs

| Run | Result | What it shows |
|---|---|---|
| `control_rx` | pass | With a queue of two shared with another producer: the newest level of every held control is delivered, queued or marked to be sent (`HeldNeverLost`); no level is delivered twice in a row (`LevelsAlternate`); commands stay in order and each is delivered or counted as dropped (`CommandsAccounted`); jog movement is conserved unless it saturates (`DeltaConserved`); the deck ends with the last level and nothing stays held back (`HeldConverge`). |
| `control_tx` | pass | A disconnection leaves nothing scheduled and at most one event in the translator's hand per disconnection (`AtMostOneLate`); movement and command order survive failed sends and losses (`JogConserved`, `CommandsInOrder`). |
| `control_tx_heal` | pass | After losses, failed sends and a restart of the P4 the replay makes it agree with the S3 on held levels, positions and connection. |
| `midi_host` | pass | A transfer is freed, and the handle closed, only when nothing is in flight; LED packets stay within their connection and survive a failed transfer; a plugged controller always gets its input transfer back; the reported connection state becomes true. |
| `profile` | pass | One disturbance (loss, failed send, early timeout, no memory for the S3's receive buffer, restart of either board, colliding announcement, installation over the web) over two connections of a controller with or without a profile: only a complete profile of this connection maps (`MapsOwnSession`), and the profile arrives (`ProfileArrives`; not after a restart of the S3, which finding 1 is about). |
| `profile_restart` | violation | `ServedAfterRestart`, finding 1. |
| `screensaver` | pass | Activity and a playing deck take the screensaver down (`WakesUp`, `PlaybackUncovers`). |
| `deck_session` | pass | Two decks, two LOADs, a STOP and a removal in any order, reads that outlast any join, the one of an aborting LOAD included, task creations that fail: the buffer a task uses is its own (`BufferOutlivesTasks`) and two generations of tasks never coexist on a deck (`OneSession`), both until an abort has forgotten a task ("Behaviour met", below); every call returns, although a LOAD keeps the admission mutex while it waits for its deck (`CallsReturn`); and every step is one `DeckBarrier` allows (`BarrierSpec`). |
| `media` | pass | Two pluggings, two LOADs, a sort and one failure: the gate is open only for the volume the session believes in (`GateTruth`); no deck holds a file of a volume that is not mounted (`SourceOfMount`); between operations screen, store and engine agree (`AgreeEmpty`); the UI's single-flight slot has one holder (`TypeOK`); at the end everything reflects what is in the port and LOAD works again (`Settles`). |
| `media_bounce` | violation | `UnmountAnnounced`, finding 2. |
| `recorder` | pass | Two sample rates, segments of two blocks, one failing card operation and one power failure: the ring is freed and replaced only when neither producer nor writer uses it (`RingOwned`); when STOP has closed a recording, its segments hold every accepted block in order and once, but for those an error left in the ring, no segment mixes rates, and all are `.wav` but the one an error fell in (`RecordingTruth`); what was checkpointed or closed is on the card after a power failure and the recovery (`Durable`); STOP returns with the card's other users let in (`StopReturns`). |
| `recorder_start` | violation | `RingOwned` with two callers, finding 3. |

Two names are used in two modules on purpose: `HeldConverge` is about the deck
behind the receiver in `ControlLinkRx`, and about the P4's knowledge in
`ControlLinkTx`.

### Findings

1. **A restarted S3 gets no profile** (`ServedAfterRestart`). Its epochs start
   at one again; the P4 either has a mark for that epoch and reports "active",
   or takes the lower epoch for stale. A controller unplugged while the S3
   restarts likewise stays listed at the P4, because an S3 that has opened
   nothing announces nothing.
2. **A drive that bounces is unmounted silently** (`UnmountAnnounced`). If it
   goes and comes back while the storage task is inside `library_init`, the loop
   finds it connected again; the old volume is then released by
   `mount_desired_device`, and the callback that stops the decks and clears the
   catalog never runs. With `Bounce = TRUE` `SourceOfMount` fails too: a deck
   keeps a file of the unmounted volume.
3. **Two starts of a recording** (`RingOwned` in `recorder_start`). The state is
   tested and set in two steps; the Settings button and the web server are
   different tasks.

Behaviour met while modelling that no run of the project claims:

* *Older fader position wins.* The flush before a frame can stop at an earlier
  control; if the deck then frees a slot, a newer value goes straight into the
  queue and the stored older one follows (`control_link_uart.c:403`).
* *Releases after the disconnection.* They are only marked dirty; the flush
  stops at a full queue, and the report is queued once a slot is free
  (`control_link_uart.c:499`). The levels still converge.
* *A profile installed beside a running transfer* may stay unsent until the next
  announcement of a new connection (`controller_profile_manager.c:803`).
* *A mark for a profile the S3 has dropped*
  (`controller_profile_manager.c:673`). Replies name the kind of frame they
  answer and nothing else. Two waits that expire with their replies still on the
  way put the sender two replies behind; if the controller is replugged then and
  the P4 restarts or gives the transfer up, frames of the old transfer are
  answered in the new connection, and these answers carry the new transfer to
  "active" although the CLEAR between the two is still to come. The rest of the
  new transfer normally repairs it. It takes three disturbances and all of the
  three attempts the code makes; TLC finds it after 15 million states, too many
  for a run of the project. No property claims the mark to be true, and the
  comment it contradicts ("the S3 still holds it",
  `controller_profile_manager.c:1021`) is the one finding 1 refutes.
* *A replug needs the profile again.* The comment at
  `controller_profile_manager.c:607` says that the S3 keeps its profile across a
  replug and need not be sent it again. The S3 uses a profile only for the
  connection it was activated for (`controller_profile_runtime.c:97`), and the
  P4's mark holds the epoch, so the code does send it again. `MapsOwnSession`
  and `ProfileArrives` are about what the code does.
* *A controller press is never swallowed by the screensaver*: it does not pass
  `deck_core_queue_event`.
* *A deck that timed out once stays stuck* (`audio_engine.c:4037`). A STOP that
  collected one of two exit signals and gave up has used that signal up; when
  the second task exits later, every following STOP and LOAD of the deck still
  waits for two signals and times out. `ui_library.c:619` expects the stop to
  join whatever the failed session parked.
* *An aborted load forgets a stuck task* (`audio_engine.c:3952`). A task creation
  fails while the session's loader sits in a read for longer than the 1.5 s the
  abort waits. The abort keeps the buffer, as its comment says
  (`audio_engine.c:3895`, "freeing it under a stuck loader would be a
  use-after-free"), but resets `tasks_started` and the context. So the next stop
  knows of no task and frees the buffer under the loader, and the next LOAD
  starts its tasks beside it. The run `deck_session` contains all of this; from
  the abort on the history variable `forgot` is set, and `BufferOutlivesTasks`,
  `OneSession` and `DeckBarrier` (its step `Forget`) promise nothing more.
  Without that exception TLC shows either property violated.
* *A faulted recording may consist of `.wav` files only*
  (`audio_recorder.c:450`: "A faulted session is never promoted to an ordinary
  .wav"). The rule holds for the segment that is open when the session ends.
  Segments finished before the fault are `.wav` already, and when the fault is
  that the next segment cannot be created, there is no open one: STOP has
  nothing to leave as a `.part`.
* *A LOAD beside an EJECT* can find the output task that is just being stopped
  and count on it (`audio_engine.c:3500`); a later LOAD starts it again.

One transient that no property claims: when the send queue is full, a controller
whose previous connection was active is listed as active for the new epoch
before its profile was sent; the next announcement corrects it.

### Bounds

Every bound is a constant commented "bound:". Queues have one or two slots,
so that full queues, a drop of the oldest entry and "one slot free, two
claimants" all occur. Two held controls are needed for a flush that stops half
way, two ids for the scan hint, `DeltaMax = 3` with steps of 1 and 2 to reach
saturation. Two plugs are the least that lets something of one connection meet
the next. In `ProfileTransfer` each disturbance adds an order of magnitude of
states; one with two connections is what a run affords, and `profile` sends a
profile in one chunk, `profile_restart` in two. The code makes three attempts at
a transfer; `profile` allows two (`Attempts`), `profile_restart` the code's
three. (With three, `profile` passes too, in 1.65 million states and more than
five minutes.) Two decks are what the hardware has, and what the shared output
and the suspend's order of mutexes need. Two LOADs let a session meet its successor; two pluggings let a volume meet the
next. One failure (`MaxFails`) in `media` reaches every failing step once, but
cannot exhaust the three tries of `library_init`: with three failures in a row a
plugged drive stays unlisted until it is replugged, and `Settles` does not speak
of that. In `Recorder` a ring of two blocks overflows, segments of two blocks and
two rates make both kinds of roll-over happen with three blocks, and three calls
are a session and the start of the next.

Constants that switch an assumption, all FALSE (`Serial`: TRUE) in the passing runs:

* `Bounce` (`MediaSession`): finding 2.
* `Serial` (`Recorder`): calls do not overlap; finding 3.
* `Overlap` (`Recorder`): the writer cannot be created while a producer is
  already inside; the start then frees the ring without waiting for it.

`CHECK_DEADLOCK FALSE` is used where the system may come to rest: no controller
is plugged in, or every caller has made its calls, and the bounds are spent.

### Fairness

* Weak fairness of each task: every task is an endless loop whose blocking calls
  have timeouts. `ControlLinkRx` assumes it of the receive task and the deck
  task, not of frames or posts.
* `ControlLinkTx` assumes strong fairness of the three senders. They compete for
  the transmit mutex and a finite UART buffer that the hardware drains; FreeRTOS
  mutexes hand over by priority, and the link is idle most of the time. Only
  weak fairness is assumed of reception, and none of inputs, faults or restarts.
* `MidiHost` assumes strong fairness of the events inside `handle_events`, which
  the USB stack delivers when the loop calls it again and again, and of the end
  of the audio transfers.
* `ProfileTransfer` assumes that while some task of either board can go on, one
  does (weak fairness of their disjunction, which is less than each task's), and
  weak fairness of the repeated announcement when nothing else is under way: it
  is repeated every few seconds
  while a transfer takes a fraction of one. An announcement that collides with
  other traffic is possible within the fault bound and never assumed.
* `Screensaver` assumes it of the UI frame, the web request under way and the
  deck task, not of time.
* `DeckSession` assumes strong fairness of the callers, which wait for FreeRTOS
  mutexes that are handed to a waiter when given, and of tasks that wait for the
  media gate; every read returns in the end. A join or a wait for the output
  task expires only while something it waits for is really stuck.
* `MediaSession` and `Recorder` assume weak fairness of each task, and none of
  the operator, the drive, failures or the power.

## 4. Proofs

Each `...Proofs` module has an inductive invariant (`HeldInv` in
`ControlLinkRxProofs`, `IInv` in the others), one lemma or step per action that
shows the action keeps it, a theorem `Invariance`, and the theorems below; the
invariants of the conservation theorems build on it. The theorems hold for every
value of the constants that satisfies the module's named assumption, so for any
number of decks, controls, producers, callers, pluggings, faults and for any
queue size. The bounds of section 3 play no part. The invariants were checked
with TLC on the instances of the runs before they were proved.

| Module | Hypotheses | Theorems |
|---|---|---|
| `ControlLinkRxProofs` | none | `TypeCorrect`, `HeldLevelsSurvive` (`HeldNeverLost`), `LevelsNeverRepeat` (`LevelsAlternate`), `CommandsAreAccounted` (`CommandsAccounted`), `MovementConserved` (`DeltaConserved`) |
| `ControlLinkTxProofs` | none | `TypeCorrect`, `OneLateEach` (`AtMostOneLate`), `CommandOrder` (`CommandsInOrder`), `JogIsConserved` (`JogConserved`) |
| `MidiHostProofs` | none | `TypeCorrect`, `HandleSafe` (`HandleOutlivesTransfers`), `NoStaleLeds` (`LedsFresh`), `NoLedLost` (`LedsConserved`) |
| `ProfileTransferProofs` | none | `TypeCorrect`, `OwnProfile` (`MapsOwnSession`) |
| `DeckSessionProofs` | none | `TypeCorrect`, `NoUseAfterFree` (`BufferOutlivesTasks`), `SessionsExclude` (`OneSession`), `EngineImplementsBarrier` (`BarrierSpec`) |
| `MediaSessionProofs` | none | `TypeCorrect`, `GateIsTrue` (`GateTruth`), `ViewsAgree` (`AgreeEmpty`) |
| | `~Bounce` | `FilesOfMount` (`SourceOfMount`), `UnmountsAnnounced` (`UnmountAnnounced`) |
| `RecorderProofs` | `Serial`, `~Overlap` | `TypeCorrect`, `RingSafe` (`RingOwned`), `CheckpointsSurvive` (`Durable`), `RecordingIsTrue` (`RecordingTruth`) |

The hypotheses are the switches of section 3, at the value the passing runs
use, and none is a convenience of the proof: `media_bounce` and `recorder_start`
show what happens without `~Bounce` and `Serial`, and `Overlap` is described
under "Bounds". The theorems of `DeckSessionProofs` have no hypothesis; three of
them are about the time before an abort forgets a task (`~forgot`), the fourth
gives that moment a step of its own. What the proofs add is that these are the *only*
ways: with `UnmountsAnnounced`, for example, an unmount nobody hears of needs a
bounce.

**ControlLinkRx.** `HeldNeverLost` is not inductive: a slot that is not dirty
could be one whose level was never sent. The strengthening `HeldInv` ties three
places together, per control: the slot's `dirty` flag is truthful (`SlotOK`);
the level last scheduled is the newest one in the queue, or, if the queue has
none, the level the deck took last (`NewestIn`); and levels of one control
alternate along the queue starting from the deck's (`ChainIn`). Two more
conjuncts say what holds while a frame is in hand, between its reception and its
observation. `ChainIn` is what `LevelsAlternate` needs: with it the head of the
queue differs from the deck's level. Lemmas state what `Append` and `Tail` do to
`NewestIn` and `ChainIn`, and `ClampLemma` that the sums stay within 16 bits.
Commands and movement are balances over the queue, the event in hand and the
pending slots. `OnceInv` adds that no number in the queue is above the last one
received, which keeps commands in order; `DeltaInv` adds what a pending slot may
hold (a slot without a sum holds zero, a sum belongs to a movement of that
control), without which a flush could send a sum under another control's name.

**ControlLinkTx.** Two chains run from the USB task to the P4. `OrderInv`:
command numbers grow from what the P4 took, over the wire and the translator's
hand, to the scheduler's FIFO; each step moves one link of the chain. `LateInv`:
the ends of connections are on the wire in their order, and the commands that
will arrive after the end of their connection (`Doomed`) belong to strictly
increasing connections, the one in the translator's hand last. That a
disconnection empties the scheduler (`SchedulerFresh`) is what lets only the
command in the hand become doomed. `JogInv` is the balance of movement; it needs
one more fact, that a sample is in the translator's hand only while it is being
sent, so nothing overwrites it.

**MidiHost.** The device is closed in three steps: gate, close, release.
`Closing` says what each leaves behind: from the close step on packets are not
accepted and no producer is past its check, and a closed host has an empty
queue. So the connection number changes only when no packet is left, which
keeps `Fresh` (all packets are of the open connection); `LedsFresh` alone would
not survive the reopening of the gate. `SubmitOutMoves` is the lemma that moving
packets into the transfer loses none.

**ProfileTransfer.** `MapsOwnSession` compares what the S3 decided some steps
ago with the connection open now. The proof rests on one fact: the S3 gives out
a connection number once between two restarts (`CableInv`), so a transfer, an
activation or an installed profile that carries the number of the open
connection stems from it (`Own`). The time between check and installation does
no harm, for the number is compared again when the profile is used.

**DeckSession.** The argument counts (`Counted`): a task that was started is
alive, or its signal is in the deck's semaphore, or the caller ending the
session has taken it. A join that took as many signals as tasks were started
has the deck to itself (`Phases`), and everything that frees or rebinds a buffer
comes after such a join, under the deck's mutex (`Places`, `Locks`: who may be
where and which mutexes it holds). `Contexts` is needed because a task signals
the semaphore its context names; `NotYet` and `Bound` because the decoder waits
for a flag and then uses a buffer. `Aborting` says what
an aborting LOAD knows: it resets the count whatever its join said
(`audio_engine.c:3952`), so the counting ends there unless every task was
collected or is gone. The inductive invariant is therefore `forgot \/ IInv`.
For the refinement, `Swept` says what the removal's sweep has left behind it on
the decks it has passed; `EngineImplementsBarrier` then goes action by action:
each is a step of `DeckBarrier` or leaves its three variables alone.

**MediaSession.** Four tasks meet and each acts on what it read before.
`GateInv`: the session number tells the storage task whether the drive it began
to mount is still the one reported. `FlightInv`: the single-flight slot is taken
from the request to the end of its result. `LoadsInv`: a LOAD under way has a
catalog no newer than the listed one, its session is the last of its deck, and
the deck it has reset shows no track; without it nothing says that the stale
result the LVGL task discards stops its own session and not a newer one.
`ViewInv`: the store is cleared before the screen, and no catalog is listed in
between. `EngineInv`: a session is that of a track on the screen or of the LOAD
under way. `SourceInv`, the only part that needs `~Bounce`: a catalog is listed
and a file kept only between a mount's announcement and the callback for its
removal. `Invariance` itself has no hypothesis (`IInv` contains
`~Bounce => SourceInv`), so the gate and the three views are right even when
drives bounce.

**Recorder.** The ring has two users besides the call that frees it. `Knows`
says, for each step of `start()` and `stop()`, whether a producer can be between
its second look at the gate and its push (`Shut`), whether a writer can run
(`NoWriter`), and whether a segment is open; `Users` says that whoever may touch
the ring finds it bound. `CheckpointsSurvive` is an action property: the same
facts show that a start never overwrites an open segment, and each action that
changes the card or the open segment is a case of its own. `RecordingIsTrue`
needs a second invariant, `TruthInv`. Its core, `DataInv`, follows the blocks:
from the ring's binding to the end of the session, whatever fails, the accepted
blocks are those of the session's segments in order (`Cat`), then the open
one's, then those in the ring that are not written yet. `RateInv` says that a
segment, open or finished, has blocks of its own rate only. `FilesInv` numbers
the segments, so that the one just closed is the last, and says which of them
may be a `.part`; `PhaseInv` says that a writer that leaves without an error
leaves an empty ring and no producer behind, which is what STOPPING after the
last producer is for; `Learns` carries that to the step that publishes, the
error that only `s_last_error` remembers included.

**Sums and concatenations.** The induction theorems of the library take an
operator and cannot be instantiated here. `SumsProofs` derives what is needed
from `WFMin`, which is first-order: a set of naturals that contains 0 and with
each number its successor contains them all (`Induction`). With it the functions
that `SumUpTo` and `FlattenSeq` define by recursion are shown to exist and to be
unique, and lemmas say what appending, removing and changing one element does to
them (`SumsProofs`, and "Concatenations" in `RecorderProofs`).

Only model-checked is every liveness property (`HeldConverge`, `AbsConverge`,
`ConnConverge`, `InputAlive`, `StateConverges`, `ProfileArrives`, `WakesUp`,
`PlaybackUncovers`, `CallsReturn`, `Settles`, `StopReturns`): fairness is outside
the prover.

## 5. Assumptions and omissions

* Shared variables are sequentially consistent. The producer count of the MIDI
  OUT queue relies on acquire/release order; that is listed as a hazard without
  a property.
* `ProfileTransfer`: the directory can be read again after a successful swap; a
  file on the card always parses, so the refusals of a profile that does not are
  left out; a checksum never passes for a wrong file.
* `DeckSession`: what `ae_fail_load` writes is one step. It sets `load_done`
  before it clears `run`; a decoder that looks between the two finds nothing it
  could use and ends at its next test of `run`.
* A damaged frame is lost; bytes never make a wrong frame that is valid.
* `MediaSession` is about time only where the code relies on it: enumeration
  takes longer than the storage task needs to act on a removal it is waiting
  for; the LVGL task runs within the 350 ms of `wait_for_stable_connection`; the
  driver reports every removal of a drive it reported (one pulled before it was
  installed may get no event, and the next address is then taken for a second
  drive). A removal that could not stop a deck reopens admission before the
  catalog is cleared; `SourceOfMount` and `AgreeEmpty` except it (`Wedged`).
* `MediaSession` leaves out EJECT, a second drive behind a hub, the power
  cycling of `usb_storage_recovery.c`, and the updater's use of the barrier.
* `Recorder` models the code as built with `CONFIG_AUDIO_RECORDER_ENABLED`; the
  default build leaves it out, which is why it never inhibits the screensaver. A
  power failure keeps the checkpointed part of an open segment and any part of
  what followed it; the file system's own metadata survives. A block of which
  only a part was written counts as none. Boot ids are never reused: that NVS
  fails, and a random or an old id names a segment that exists already
  (`audio_recorder.c:91`), is not modelled. A `.part` the recovery cannot open,
  patch or rename stays, and is found again at the next boot. A start whose
  writer cannot be created while a producer is inside the ring
  (`audio_recorder.c:405`) is behind `Overlap`, and no run sets it.
* Not modelled: DSP and decoders (numeric), drawing, file formats, vendored
  code (the FAT file system, dr_flac, minimp3 and the bitmap fonts are more
  than half of the repository's C lines), and the components of the plan below.

## 6. Plan

Modelled so far: the control path between the boards, and on the P4 the life of
a deck's audio session, the path of a drive from the port to the screen, and the
recorder. In order of what a failure costs the user, what is left:

1. **Updates**: boot gate, pull updater with power loss between steps and its
   use of the engine's barrier, the S3's upload guard, the Wi-Fi lease.
2. **Deck core**: buttons, cue, loop, roll, sync; the maintenance token in two
   halves (needs `ControlLinkRx`'s pending slots).
3. **LED path**: reconciler and output policy against reconnection, with
   `MidiHost`'s queue as the environment; out-of-sequence frames of the P4.
4. **Persistence**: settings, cues, service log, interrupted profile swap.
