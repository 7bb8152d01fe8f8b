------------------------- MODULE MediaSessionProofs -------------------------
(***************************************************************************)
(* What the path from the drive in the port to the deck on the screen      *)
(* guarantees for every number of decks, pluggings, LOADs, sorts and       *)
(* failures.                                                               *)
(*                                                                         *)
(* Four tasks meet, and each of them acts on what it read some steps       *)
(* before.  What ties them together is told in five parts: the session and *)
(* the gate (GateInv), the single-flight slot (FlightInv), what a LOAD     *)
(* knows that is under way (LoadsInv), the three views of a deck           *)
(* (ViewInv), and where sessions and open files may come from (EngineInv,  *)
(* and SourceInv unless drives bounce).                                    *)
(***************************************************************************)
EXTENDS MediaSession, Integers, TLAPS

Drives == 0 .. MaxPlugs
StoragePcs == {"look", "release", "mount", "volume", "open", "commit", "init", "parse",
               "suspend", "clear", "tracks", "notify"}
WorkerPcs == {"idle", "resolve", "reset", "load", "check", "send"}
Codes == {"OK", "FAIL", "INVALID_STATE"}
Load(pcs) == [pc : pcs, d : Decks \cup {0}, gen : Nat, sess : Nat, rc : Codes, reset : BOOLEAN]

StorageType ==
  /\ plug \in Drives /\ drv \in Drives /\ drvpc \in {"idle", "gate"}
  /\ ses \in [conn : BOOLEAN, mounted : BOOLEAN, epoch : Nat, bound : BOOLEAN]
  /\ announced \in BOOLEAN /\ avail \in BOOLEAN
  /\ st \in [pc : StoragePcs, epoch : Nat, tries : Int, owns : BOOLEAN]
  /\ dev \in Drives /\ mount \in Drives
  /\ lib \in [gen : Nat, media : Drives]
  /\ left \in [plugs : Drives, loads : Nat, sorts : Nat, fails : Nat]

Engines == [blocked : BOOLEAN, gen : [Decks -> Nat], on : [Decks -> BOOLEAN],
            src : [Decks -> Drives], stuck : [Decks -> BOOLEAN]]
EngineType == eng \in Engines

LoadType ==
  /\ gate \in [busy : BOOLEAN, cancelled : BOOLEAN]
  /\ wk \in Load(WorkerPcs) /\ res \in Load({"idle", "queued"})
  /\ ui \in [pc : {"idle", "poll", "publish"}, removed : BOOLEAN]

ViewType ==
  /\ shown \in [Decks -> BOOLEAN]
  /\ store \in [floor : Nat, mg : [Decks -> Nat], valid : [Decks -> BOOLEAN]]

\* The session's number tells the storage task whether the drive it began to
\* mount is still the one reported; the gate is open only between the commit
\* and the moment somebody notices the removal.
GateInv ==
  /\ ses.conn <=> drv # 0
  /\ ses.conn => drvpc = "idle"
  /\ st.epoch <= ses.epoch
  /\ avail => st.pc \in {"look", "init", "parse", "commit"}
  /\ announced => st.pc \notin {"suspend", "clear", "tracks", "notify", "release"}
  /\ st.pc = "volume" => dev # 0 /\ mount = 0
  /\ st.pc \in {"open", "commit"} => mount # 0 /\ mount = dev
  /\ st.pc \in {"volume", "open", "commit"} /\ Matches => dev = drv
  /\ GateTruth

\* The slot is taken from the request to the end of its result.
FlightInv ==
  /\ gate.cancelled => gate.busy
  /\ ~(wk.pc # "idle" /\ res.pc # "idle")
  /\ gate.busy <=> (wk.pc # "idle" \/ res.pc # "idle")
  /\ ui.pc = "publish" => res.pc = "queued" /\ res.rc = "OK"

\* The LOAD under way, in the worker or as its result: its catalog is not newer
\* than the one listed, its session is the last of its deck, and the deck it
\* has reset holds no track.
LoadsInv ==
  /\ \A x \in {wk, res} : x.pc # "idle" =>
       /\ x.d \in Decks /\ x.gen <= lib.gen
       /\ x.gen = lib.gen => lib.media # 0
       /\ x.sess # 0 => x.reset /\ (eng.on[x.d] /\ ~Wedged => eng.gen[x.d] = x.sess)
       /\ x.reset => ~store.valid[x.d]
       /\ x.pc \in {"send", "queued"} /\ x.rc = "OK" => x.reset
       /\ x.gen < store.floor => \A d \in Decks : ~store.valid[d]
       /\ \A d \in Decks : store.mg[d] <= store.floor \/ store.mg[d] <= x.gen
  /\ wk.pc \in {"resolve", "reset", "load"} => wk.sess = 0
  /\ wk.pc \in {"load", "check"} => wk.reset
  /\ wk.pc = "check" => wk.sess # 0

OwnSession(d) == \E x \in {wk, res} : x.pc # "idle" /\ x.d = d /\ x.sess # 0
BeingReset(d) == \E x \in {wk, res} : x.pc # "idle" /\ x.d = d /\ x.reset

\* The store is cleared before the screen; no catalog is listed in between.
ViewInv ==
  /\ store.floor <= lib.gen /\ \A d \in Decks : store.mg[d] <= lib.gen
  /\ st.pc = "tracks" => lib.media = 0
  /\ st.pc = "notify" \/ ui.removed =>
       lib.media = 0 /\ store.floor = lib.gen /\ \A d \in Decks : ~store.valid[d]
  /\ ui.removed => st.pc \in {"look", "release"} /\ ~announced
  /\ gate.cancelled => \A d \in Decks : ~shown[d]
  /\ \A d \in Decks : store.valid[d] = shown[d] \/
       (~store.valid[d] /\ (st.pc = "notify" \/ ui.removed \/ BeingReset(d)))

\* Unless a deck is stuck, a session is that of a track on the screen or of the
\* LOAD under way, and there is none behind the barrier.
EngineInv ==
  /\ \A d \in Decks : eng.src[d] # 0 => eng.on[d]
  /\ ~Wedged => \A d \in Decks : eng.on[d] => (shown[d] /\ ~ui.removed) \/ OwnSession(d)
  /\ st.pc \in {"clear", "tracks", "notify"} /\ ~Wedged =>
       eng.blocked /\ \A d \in Decks : ~eng.on[d]

\* The session that the worker is about to retire.
Retiring(d) == wk.pc = "check" /\ wk.d = d /\ wk.gen # lib.gen

\* A catalog is listed, and a file may be opened and kept, only between the
\* announcement of a mount and the callback for its removal.
SourceInv ==
  /\ announced => /\ st.pc \in {"look", "init", "parse"} /\ mount # 0
                  /\ ses.conn => ses.mounted
  /\ st.pc \in {"init", "parse"} => announced
  /\ lib.media # 0 => announced \/ st.pc \in {"suspend", "clear"}
  /\ ~Wedged => \A d \in Decks : eng.src[d] # 0 => eng.src[d] = mount \/ Retiring(d)
  /\ ~Wedged /\ ~announced /\ st.pc # "suspend" => \A d \in Decks : eng.on[d] => Retiring(d)

IInv ==
  /\ StorageType /\ EngineType /\ LoadType /\ ViewType
  /\ GateInv /\ FlightInv /\ LoadsInv /\ ViewInv /\ EngineInv
  /\ ~Bounce => SourceInv

-----------------------------------------------------------------------------
(* The parts of the invariant that a step leaves alone.                     *)

\* The bounds are numbers.
LEMMA Bounds ==
  MaxPlugs \in Nat /\ MaxLoads \in Nat /\ MaxSorts \in Nat /\ MaxFails \in Nat /\ Bounce \in BOOLEAN
BY MediaSessionAssumption

\* Types of what is not touched.
LEMMA TypesKept ==
  /\ StorageType /\ UNCHANGED <<plug, drv, drvpc, storageVars, lib, left>> => StorageType'
  /\ EngineType /\ UNCHANGED eng => EngineType'
  /\ LoadType /\ UNCHANGED <<gate, wk, res, ui>> => LoadType'
  /\ ViewType /\ UNCHANGED <<shown, store>> => ViewType'
<1>1. StorageType /\ UNCHANGED <<plug, drv, drvpc, storageVars, lib, left>> => StorageType'
  BY DEF StorageType, storageVars
<1>2. EngineType /\ UNCHANGED eng => EngineType'
  BY DEF EngineType
<1>3. LoadType /\ UNCHANGED <<gate, wk, res, ui>> => LoadType'
  BY DEF LoadType
<1>4. ViewType /\ UNCHANGED <<shown, store>> => ViewType'
  BY DEF ViewType
<1> QED
  BY <1>1, <1>2, <1>3, <1>4

\* The gate is a matter of the driver and the storage task.
LEMMA GateKept ==
  ASSUME GateInv, UNCHANGED <<drv, drvpc, storageVars>>
  PROVE  GateInv'
BY DEF GateInv, GateTruth, Matches, storageVars

\* The slot is a matter of the worker and the LVGL task.
LEMMA FlightKept ==
  ASSUME FlightInv, UNCHANGED <<gate, wk, res>>, ui'.pc = ui.pc
  PROVE  FlightInv'
BY DEF FlightInv

\* Whether a deck is stuck.
LEMMA WedgedKept ==
  ASSUME eng'.stuck = eng.stuck
  PROVE  Wedged' <=> Wedged
BY DEF Wedged

\* What a LOAD knows, while the catalog and the store stay as they are and the
\* engine starts no session.
LEMMA LoadsKept ==
  ASSUME LoadsInv, UNCHANGED <<wk, res, lib, eng, store>>
  PROVE  LoadsInv'
BY DEF LoadsInv, Wedged

\* The views, while only the storage task moves between steps that do not
\* matter to them.
LEMMA ViewKept ==
  ASSUME ViewInv, UNCHANGED <<store, lib, gate, shown, wk, res, ui>>,
         announced' => announced \/ ~ui.removed,
         st'.pc \in {"tracks", "notify"} => st'.pc = st.pc,
         ui.removed => st'.pc \in {"look", "release"},
         st.pc = "notify" => st'.pc = "notify" \/ ui.removed
  PROVE  ViewInv'
<1>1. ASSUME NEW d \in Decks PROVE BeingReset(d)' <=> BeingReset(d)
  BY DEF BeingReset
<1> QED
  BY <1>1 DEF ViewInv

\* The engine, while the storage task does not come behind the barrier.
LEMMA EngineKept ==
  ASSUME EngineInv, UNCHANGED <<eng, shown, wk, res, ui>>,
         st'.pc \in {"clear", "tracks", "notify"} => st.pc \in {"clear", "tracks", "notify"}
  PROVE  EngineInv'
<1>1. ASSUME NEW d \in Decks PROVE OwnSession(d)' <=> OwnSession(d)
  BY DEF OwnSession
<1>2. Wedged' <=> Wedged
  BY WedgedKept
<1> QED
  BY <1>1, <1>2 DEF EngineInv

\* The sources, while the volume and the engine stay as they are.
LEMMA SourceKept ==
  ASSUME SourceInv, UNCHANGED <<storageVars, lib, eng, wk>>
  PROVE  SourceInv'
<1>1. ASSUME NEW d \in Decks PROVE Retiring(d)' <=> Retiring(d)
  BY DEF Retiring
<1>2. Wedged' <=> Wedged
  BY WedgedKept
<1> QED
  BY <1>1, <1>2 DEF SourceInv, storageVars

\* A step of the storage task.
LEMMA AtMoves ==
  ASSUME StorageType, NEW p \in StoragePcs, At(p)
  PROVE  /\ st' \in [pc : StoragePcs, epoch : Nat, tries : Int, owns : BOOLEAN]
         /\ st'.pc = p /\ st'.epoch = st.epoch
BY DEF At, StorageType

\* A step of the storage task that leaves the engine, the catalog and the views
\* alone keeps what is said of them.
LEMMA StorageFrame ==
  ASSUME IInv, UNCHANGED <<eng, lib, store, loadVars>>,
         announced' => announced \/ ~ui.removed,
         st'.pc \notin {"clear", "tracks", "notify"},
         ui.removed => st'.pc \in {"look", "release"},
         st.pc \notin {"clear", "tracks", "notify"}
  PROVE  /\ EngineType' /\ LoadType' /\ ViewType'
         /\ FlightInv' /\ LoadsInv' /\ ViewInv' /\ EngineInv'
<1> USE DEF IInv, loadVars
<1>1. EngineType' /\ LoadType' /\ ViewType'
  BY TypesKept
<1>2. FlightInv'
  BY FlightKept
<1>3. LoadsInv'
  BY LoadsKept
<1>4. ViewInv'
  BY ViewKept
<1>5. EngineInv'
  BY EngineKept
<1> QED
  BY <1>1, <1>2, <1>3, <1>4, <1>5

-----------------------------------------------------------------------------
(* The initial state, the drive and the driver.                             *)

\* Nothing is plugged in and nothing is loaded.
LEMMA InitInv == Init => IInv
<1> SUFFICES ASSUME Init PROVE IInv
  OBVIOUS
<1> USE Bounds DEF Init
<1>1. StorageType
  <2>1. 0 \in Drives /\ MaxPlugs \in Drives
    BY DEF Drives
  <2>2. st \in [pc : StoragePcs, epoch : Nat, tries : Int, owns : BOOLEAN]
    BY DEF StoragePcs
  <2>3. left \in [plugs : Drives, loads : Nat, sorts : Nat, fails : Nat]
    BY <2>1
  <2> QED
    BY <2>1, <2>2, <2>3 DEF StorageType
<1>2. EngineType
  BY DEF EngineType, Engines, Drives
<1>3. LoadType
  BY DEF LoadType, IdleWorker, Load, WorkerPcs, Codes
<1>4. ViewType
  BY DEF ViewType
<1>5. GateInv
  BY DEF GateInv, GateTruth
<1>6. FlightInv
  BY DEF FlightInv, IdleWorker
<1>7. LoadsInv
  BY DEF LoadsInv, IdleWorker
<1>8. ViewInv
  BY DEF ViewInv
<1>9. EngineInv
  BY DEF EngineInv
<1>10. SourceInv
  BY DEF SourceInv
<1> QED
  BY <1>1, <1>2, <1>3, <1>4, <1>5, <1>6, <1>7, <1>8, <1>9, <1>10 DEF IInv

\* What the operator does with the port, nobody has noticed yet.
LEMMA PortKeeps ==
  ASSUME IInv, PlugIn \/ Unplug
  PROVE  IInv'
<1> USE DEF IInv
<1>1. /\ UNCHANGED <<drv, drvpc, lib, eng, store>> /\ UNCHANGED storageVars
      /\ UNCHANGED loadVars
  BY DEF PlugIn, Unplug
<1>2. plug' \in Drives /\ left' \in [plugs : Drives, loads : Nat, sorts : Nat, fails : Nat]
  <2>1. CASE Unplug
    BY <2>1, Bounds DEF Unplug, StorageType, Drives
  <2>2. CASE PlugIn
    <3>1. left.plugs \in 1 .. MaxPlugs /\ MaxPlugs \in Nat
      BY <2>2, Bounds DEF PlugIn, StorageType, Drives
    <3>2. PICK n \in Drives : n = left.plugs - 1
      BY <3>1 DEF Drives
    <3>3. left' = [left EXCEPT !.plugs = n]
      BY <2>2, <3>2 DEF PlugIn
    <3>4. left' \in [plugs : Drives, loads : Nat, sorts : Nat, fails : Nat]
      BY <3>3 DEF StorageType
    <3>5. plug' \in Drives
      BY <2>2, <3>1 DEF PlugIn, Drives
    <3> QED
      BY <3>4, <3>5
  <2> QED
    BY <2>1, <2>2
<1>3. StorageType'
  BY <1>1, <1>2 DEF StorageType, storageVars
<1>4. EngineType' /\ LoadType' /\ ViewType'
  BY <1>1, TypesKept DEF loadVars
<1>5. GateInv'
  BY <1>1, GateKept
<1>6. FlightInv' /\ LoadsInv'
  BY <1>1, FlightKept, LoadsKept DEF loadVars
<1>7. announced' = announced /\ st' = st
  BY <1>1 DEF storageVars
<1>8. ViewInv'
  BY <1>1, <1>7, ViewKept DEF loadVars, ViewInv
<1>9. EngineInv'
  BY <1>1, <1>7, EngineKept DEF loadVars
<1>10. ~Bounce => SourceInv'
  BY <1>1, SourceKept DEF loadVars
<1> QED
  BY <1>3, <1>4, <1>5, <1>6, <1>8, <1>9, <1>10

\* A drive is reported: its session has a number that the storage task has not
\* seen.
LEMMA ReportConnectKeeps ==
  ASSUME IInv, ReportConnect
  PROVE  IInv'
<1> USE DEF IInv
<1>1. /\ drvpc = "idle" /\ drv = 0 /\ drv' = plug /\ plug # 0 /\ plug' = plug /\ drvpc' = drvpc
      /\ announced' = announced /\ avail' = avail /\ st' = st /\ dev' = dev /\ mount' = mount
      /\ UNCHANGED <<lib, eng, store, left>> /\ UNCHANGED loadVars
      /\ Bounce \/ ~announced
  BY DEF ReportConnect
<1>2. PICK n \in Nat : n = ses.epoch + 1 /\ st.epoch < n
  BY DEF StorageType, GateInv
<1>3. ses' = [conn |-> TRUE, mounted |-> FALSE, epoch |-> n, bound |-> FALSE]
  BY <1>2 DEF ReportConnect
<1>4. StorageType'
  BY <1>1, <1>3 DEF StorageType
<1>5. ses'.conn /\ ~ses'.mounted /\ ses'.epoch = n
  BY <1>3
<1>6. GateInv'
  BY <1>1, <1>2, <1>5 DEF GateInv, GateTruth, Matches, StorageType
<1>7. EngineType' /\ LoadType' /\ ViewType' /\ FlightInv' /\ LoadsInv'
  BY <1>1, TypesKept, FlightKept, LoadsKept DEF loadVars
<1>8. ViewInv'
  BY <1>1, ViewKept DEF loadVars, ViewInv
<1>9. EngineInv'
  BY <1>1, EngineKept DEF loadVars
<1>10. ASSUME ~Bounce PROVE SourceInv'
  <2>1. ASSUME NEW d \in Decks PROVE Retiring(d)' <=> Retiring(d)
    BY <1>1 DEF Retiring, loadVars
  <2>2. Wedged' <=> Wedged
    BY <1>1, WedgedKept
  <2> QED
    BY <1>1, <1>10, <2>1, <2>2 DEF SourceInv
<1> QED
  BY <1>4, <1>6, <1>7, <1>8, <1>9, <1>10

\* A removal is reported; the gate follows in a second step.
LEMMA ReportDisconnectKeeps ==
  ASSUME IInv, ReportDisconnect
  PROVE  IInv'
<1> USE DEF IInv
<1>1. /\ drvpc = "idle" /\ drv # 0 /\ drv' = 0 /\ plug' = plug /\ drvpc' = "gate"
      /\ announced' = announced /\ avail' = avail /\ st' = st /\ dev' = dev /\ mount' = mount
      /\ UNCHANGED <<lib, eng, store, left>> /\ UNCHANGED loadVars
  BY DEF ReportDisconnect
<1>2. PICK n \in Nat : n = ses.epoch + 1 /\ st.epoch < n
  BY DEF StorageType, GateInv
<1>3. ses' = [conn |-> FALSE, mounted |-> FALSE, epoch |-> n, bound |-> FALSE]
  BY <1>2 DEF ReportDisconnect
<1>4. StorageType'
  BY <1>1, <1>3, Bounds DEF StorageType, Drives
<1>5. ~ses'.conn /\ ~ses'.mounted /\ ses'.epoch = n
  BY <1>3
<1>6. GateInv'
  BY <1>1, <1>2, <1>5 DEF GateInv, GateTruth, Matches, StorageType
<1>7. EngineType' /\ LoadType' /\ ViewType' /\ FlightInv' /\ LoadsInv'
  BY <1>1, TypesKept, FlightKept, LoadsKept DEF loadVars
<1>8. ViewInv'
  BY <1>1, ViewKept DEF loadVars, ViewInv
<1>9. EngineInv'
  BY <1>1, EngineKept DEF loadVars
<1>10. ASSUME ~Bounce PROVE SourceInv'
  <2>1. ASSUME NEW d \in Decks PROVE Retiring(d)' <=> Retiring(d)
    BY <1>1 DEF Retiring, loadVars
  <2>2. Wedged' <=> Wedged
    BY <1>1, WedgedKept
  <2> QED
    BY <1>1, <1>5, <1>10, <2>1, <2>2 DEF SourceInv
<1> QED
  BY <1>4, <1>6, <1>7, <1>8, <1>9, <1>10

\* The driver's callback closes the gate.
LEMMA ReportDisconnectGateKeeps ==
  ASSUME IInv, ReportDisconnectGate
  PROVE  IInv'
<1> USE DEF IInv
<1>1. /\ plug' = plug /\ drv' = drv /\ drvpc = "gate" /\ drvpc' = "idle" /\ ses' = ses
      /\ announced' = announced /\ avail' = FALSE /\ st' = st /\ dev' = dev /\ mount' = mount
      /\ UNCHANGED <<lib, eng, store, left>> /\ UNCHANGED loadVars
  BY DEF ReportDisconnectGate
<1>2. StorageType'
  BY <1>1 DEF StorageType
<1>3. GateInv'
  BY <1>1 DEF GateInv, GateTruth, Matches
<1>4. EngineType' /\ LoadType' /\ ViewType' /\ FlightInv' /\ LoadsInv'
  BY <1>1, TypesKept, FlightKept, LoadsKept DEF loadVars
<1>5. ViewInv'
  BY <1>1, ViewKept DEF loadVars, ViewInv
<1>6. EngineInv'
  BY <1>1, EngineKept DEF loadVars
<1>7. ASSUME ~Bounce PROVE SourceInv'
  <2>1. ASSUME NEW d \in Decks PROVE Retiring(d)' <=> Retiring(d)
    BY <1>1 DEF Retiring, loadVars
  <2>2. Wedged' <=> Wedged
    BY <1>1, WedgedKept
  <2> QED
    BY <1>1, <1>7, <2>1, <2>2 DEF SourceInv
<1> QED
  BY <1>2, <1>3, <1>4, <1>5, <1>6, <1>7

-----------------------------------------------------------------------------
(* The storage task.                                                        *)

\* What SourceInv says of the engine, when a step of the storage task leaves the
\* engine, the worker and the catalog alone, and keeps the mount or has seen
\* that every session is about to be retired.
LEMMA SourceFrame ==
  ASSUME SourceInv, EngineInv, EngineType, UNCHANGED <<eng, wk, lib>>,
         mount' = mount \/ (~announced /\ st.pc # "suspend"),
         (announced \/ st.pc = "suspend") => (announced' \/ st'.pc = "suspend")
  PROVE  /\ ~Wedged' => \A d \in Decks : eng'.src[d] # 0 => eng'.src[d] = mount' \/ Retiring(d)'
         /\ ~Wedged' /\ ~announced' /\ st'.pc # "suspend" =>
              \A d \in Decks : eng'.on[d] => Retiring(d)'
<1>1. ASSUME NEW d \in Decks PROVE Retiring(d)' <=> Retiring(d)
  BY DEF Retiring
<1>2. Wedged' <=> Wedged
  BY WedgedKept
<1>3. CASE mount' = mount
  BY <1>1, <1>2, <1>3 DEF SourceInv
<1>4. CASE ~announced /\ st.pc # "suspend"
  BY <1>1, <1>2, <1>4 DEF SourceInv, EngineInv
<1> QED
  BY <1>3, <1>4

\* The loop finds the drive gone, or another one to mount.
LEMMA LookKeeps ==
  ASSUME IInv, Look
  PROVE  IInv'
<1> USE DEF IInv
<1>1. /\ st.pc = "look" /\ UNCHANGED <<plug, drv, drvpc, dev, mount, lib, eng, store, left>>
      /\ UNCHANGED loadVars
  BY DEF Look
<1>2. CASE /\ ~ses.conn /\ ses' = [ses EXCEPT !.mounted = FALSE] /\ announced' = FALSE
           /\ avail' = FALSE
           /\ \/ announced /\ At("suspend")
              \/ ~announced /\ At("release")
  <2>1. PICK b \in BOOLEAN : b = FALSE
    OBVIOUS
  <2>2. ses' = [ses EXCEPT !.mounted = b]
    BY <1>2, <2>1
  <2>3. /\ ses' \in [conn : BOOLEAN, mounted : BOOLEAN, epoch : Nat, bound : BOOLEAN]
        /\ ses'.conn = ses.conn /\ ses'.epoch = ses.epoch /\ ~ses'.mounted
    BY <2>1, <2>2 DEF StorageType
  <2>4. /\ st' \in [pc : StoragePcs, epoch : Nat, tries : Int, owns : BOOLEAN]
        /\ st'.pc = (IF announced THEN "suspend" ELSE "release") /\ st'.epoch = st.epoch
    BY <1>2, AtMoves DEF StoragePcs
  <2>5. StorageType'
    BY <1>1, <1>2, <2>3, <2>4 DEF StorageType
  <2>6. GateInv'
    BY <1>1, <1>2, <2>3, <2>4 DEF GateInv, GateTruth, Matches
  <2>7. ui.removed => ~announced
    BY DEF ViewInv
  <2>8. /\ EngineType' /\ LoadType' /\ ViewType'
        /\ FlightInv' /\ LoadsInv' /\ ViewInv' /\ EngineInv'
    BY <1>1, <1>2, <2>4, <2>7, StorageFrame
  <2>9. ASSUME ~Bounce PROVE SourceInv'
    BY <1>1, <1>2, <2>4, <2>9, SourceFrame DEF SourceInv, loadVars
  <2> QED
    BY <2>5, <2>6, <2>8, <2>9
<1>3. CASE /\ ses.conn /\ ~ses.mounted /\ ui = [pc |-> "idle", removed |-> FALSE]
           /\ st' = [st EXCEPT !.pc = "mount", !.epoch = ses.epoch]
           /\ UNCHANGED <<ses, announced, avail>>
  <2>1. PICK p \in StoragePcs, n \in Nat : p = "mount" /\ n = ses.epoch
    BY DEF StoragePcs, StorageType
  <2>2. st' = [st EXCEPT !.pc = p, !.epoch = n]
    BY <1>3, <2>1
  <2>3. /\ st' \in [pc : StoragePcs, epoch : Nat, tries : Int, owns : BOOLEAN]
        /\ st'.pc = "mount" /\ st'.epoch = ses.epoch
    BY <2>1, <2>2 DEF StorageType
  <2>4. StorageType'
    BY <1>1, <1>3, <2>3 DEF StorageType
  <2>5. GateInv'
    BY <1>1, <1>3, <2>3 DEF GateInv, GateTruth, Matches, StorageType
  <2>6. ~ui.removed
    BY <1>3
  <2>7. /\ EngineType' /\ LoadType' /\ ViewType'
        /\ FlightInv' /\ LoadsInv' /\ ViewInv' /\ EngineInv'
    BY <1>1, <1>3, <2>3, <2>6, StorageFrame
  <2>8. ASSUME ~Bounce PROVE SourceInv'
    BY <1>1, <1>3, <2>3, <2>8, SourceFrame DEF SourceInv, loadVars
  <2> QED
    BY <2>4, <2>5, <2>7, <2>8
<1> QED
  BY <1>2, <1>3 DEF Look

\* Whatever fails costs one of the failures left, or none.
LEMMA FailCount ==
  ASSUME StorageType,
         left' = left \/ (left.fails > 0 /\ left' = [left EXCEPT !.fails = @ - 1])
  PROVE  left' \in [plugs : Drives, loads : Nat, sorts : Nat, fails : Nat]
<1>1. CASE left' = left
  BY <1>1 DEF StorageType
<1>2. CASE left.fails > 0 /\ left' = [left EXCEPT !.fails = @ - 1]
  <2>1. PICK n \in Nat : n = left.fails - 1
    BY <1>2 DEF StorageType
  <2>2. left' = [left EXCEPT !.fails = n]
    BY <1>2, <2>1
  <2> QED
    BY <2>2 DEF StorageType
<1> QED
  BY <1>1, <1>2

\* The volume and the device are given up; the session stays but for its handle.
LEMMA ReleaseMoves ==
  ASSUME StorageType, NEW p \in StoragePcs, ReleaseTo(p)
  PROVE  /\ mount' = 0 /\ dev' = 0 /\ st'.pc = p /\ st'.epoch = st.epoch
         /\ ses'.conn = ses.conn /\ ses'.mounted = ses.mounted /\ ses'.epoch = ses.epoch
         /\ ses' \in [conn : BOOLEAN, mounted : BOOLEAN, epoch : Nat, bound : BOOLEAN]
         /\ st' \in [pc : StoragePcs, epoch : Nat, tries : Int, owns : BOOLEAN]
         /\ 0 \in Drives
<1>1. PICK b \in BOOLEAN : b = FALSE
  OBVIOUS
<1>2. ses' = ses \/ ses' = [ses EXCEPT !.bound = b]
  BY <1>1 DEF ReleaseTo
<1>3. /\ ses'.conn = ses.conn /\ ses'.mounted = ses.mounted /\ ses'.epoch = ses.epoch
      /\ ses' \in [conn : BOOLEAN, mounted : BOOLEAN, epoch : Nat, bound : BOOLEAN]
  BY <1>2 DEF StorageType
<1> QED
  BY <1>3, AtMoves, Bounds DEF ReleaseTo, Drives

\* A step that releases the device while the gate is closed and no mount is
\* announced.
LEMMA ReleaseKeepsAll ==
  ASSUME IInv, NEW p \in {"look", "mount"}, ReleaseTo(p),
         st.pc \in {"release", "mount", "volume", "commit"}, ~avail',
         p = "mount" => st.pc = "mount",
         left' = left \/ (left.fails > 0 /\ left' = [left EXCEPT !.fails = @ - 1]),
         UNCHANGED <<plug, drv, drvpc, announced, lib, eng, store>>, UNCHANGED loadVars,
         avail' \in BOOLEAN
  PROVE  IInv'
<1> USE DEF IInv
<1>1. p \in StoragePcs
  BY DEF StoragePcs
<1>2. /\ mount' = 0 /\ dev' = 0 /\ st'.pc = p /\ st'.epoch = st.epoch
      /\ ses'.conn = ses.conn /\ ses'.mounted = ses.mounted /\ ses'.epoch = ses.epoch
      /\ ses' \in [conn : BOOLEAN, mounted : BOOLEAN, epoch : Nat, bound : BOOLEAN]
      /\ st' \in [pc : StoragePcs, epoch : Nat, tries : Int, owns : BOOLEAN]
      /\ 0 \in Drives
  BY <1>1, ReleaseMoves
<1>3. left' \in [plugs : Drives, loads : Nat, sorts : Nat, fails : Nat]
  BY FailCount
<1>4. StorageType'
  BY <1>2, <1>3 DEF StorageType
<1>5. GateInv'
  BY <1>2 DEF GateInv, GateTruth, Matches
<1>6. ui.removed => st'.pc \in {"look", "release"}
  BY <1>2 DEF ViewInv
<1>7. /\ EngineType' /\ LoadType' /\ ViewType'
      /\ FlightInv' /\ LoadsInv' /\ ViewInv' /\ EngineInv'
  BY <1>2, <1>6, StorageFrame
<1>8. ASSUME ~Bounce PROVE SourceInv'
  BY <1>2, <1>8, SourceFrame DEF SourceInv, loadVars
<1> QED
  BY <1>4, <1>5, <1>7, <1>8

\* The device is released after the application has been told.
LEMMA ReleaseKeeps ==
  ASSUME IInv, Release
  PROVE  IInv'
<1>1. ~avail' /\ avail' \in BOOLEAN
  BY DEF Release, IInv, GateInv, StorageType
<1> QED
  BY <1>1, ReleaseKeepsAll DEF Release

\* A step of the storage task that only moves on, between two places where no
\* catalog is announced.
LEMMA StepKeeps ==
  ASSUME IInv, NEW p \in {"look", "open"}, At(p), st.pc \in {"mount", "volume"},
         mount' = (IF p = "open" THEN dev ELSE mount),
         p = "open" => st.pc = "volume" /\ Matches,
         left' = left \/ (left.fails > 0 /\ left' = [left EXCEPT !.fails = @ - 1]),
         UNCHANGED <<plug, drv, drvpc, ses, announced, avail, dev, lib, eng, store>>,
         UNCHANGED loadVars
  PROVE  IInv'
<1> USE DEF IInv
<1>1. p \in StoragePcs
  BY DEF StoragePcs
<1>2. /\ st' \in [pc : StoragePcs, epoch : Nat, tries : Int, owns : BOOLEAN]
      /\ st'.pc = p /\ st'.epoch = st.epoch
  BY <1>1, AtMoves
<1>3. left' \in [plugs : Drives, loads : Nat, sorts : Nat, fails : Nat]
  BY FailCount
<1>4. StorageType'
  BY <1>2, <1>3 DEF StorageType
<1>5. GateInv'
  BY <1>2 DEF GateInv, GateTruth, Matches
<1>6. ~ui.removed
  BY DEF ViewInv
<1>7. /\ EngineType' /\ LoadType' /\ ViewType'
      /\ FlightInv' /\ LoadsInv' /\ ViewInv' /\ EngineInv'
  BY <1>2, <1>6, StorageFrame
<1>8. ASSUME ~Bounce PROVE SourceInv'
  BY <1>2, <1>8, SourceFrame DEF SourceInv, loadVars
<1> QED
  BY <1>4, <1>5, <1>7, <1>8

\* The device of the drive that is reported is installed.
LEMMA InstallKeeps ==
  ASSUME IInv, Install
  PROVE  IInv'
<1> USE DEF IInv
<1>1. /\ st.pc = "mount" /\ UNCHANGED <<plug, drv, drvpc, announced, avail, lib, eng, store>>
      /\ UNCHANGED loadVars
  BY DEF Install
<1>2. ~avail' /\ avail' \in BOOLEAN
  BY <1>1 DEF GateInv, StorageType
<1>3. CASE ReleaseTo("mount") /\ UNCHANGED left
  BY <1>1, <1>2, <1>3, ReleaseKeepsAll
<1>4. CASE /\ At("look") /\ UNCHANGED <<ses, dev, mount>>
           /\ left' = left \/ (left.fails > 0 /\ left' = [left EXCEPT !.fails = @ - 1])
  BY <1>1, <1>4, StepKeeps
<1>5. CASE /\ Matches /\ mount = 0 /\ dev = 0 /\ plug = drv /\ dev' = drv
           /\ ses' = [ses EXCEPT !.bound = TRUE] /\ At("volume") /\ UNCHANGED <<mount, left>>
  <2>1. PICK b \in BOOLEAN : b = TRUE
    OBVIOUS
  <2>2. ses' = [ses EXCEPT !.bound = b]
    BY <1>5, <2>1
  <2>3. /\ ses' \in [conn : BOOLEAN, mounted : BOOLEAN, epoch : Nat, bound : BOOLEAN]
        /\ ses'.conn = ses.conn /\ ses'.epoch = ses.epoch /\ ses'.mounted = ses.mounted
    BY <2>2 DEF StorageType
  <2>4. /\ st' \in [pc : StoragePcs, epoch : Nat, tries : Int, owns : BOOLEAN]
        /\ st'.pc = "volume" /\ st'.epoch = st.epoch
    BY <1>5, AtMoves DEF StoragePcs
  <2>5. StorageType'
    BY <1>1, <1>5, <2>3, <2>4 DEF StorageType
  <2>6. GateInv'
    BY <1>1, <1>2, <1>5, <2>3, <2>4 DEF GateInv, GateTruth, Matches
  <2>7. ~ui.removed
    BY <1>1 DEF ViewInv
  <2>8. /\ EngineType' /\ LoadType' /\ ViewType'
        /\ FlightInv' /\ LoadsInv' /\ ViewInv' /\ EngineInv'
    BY <1>1, <2>4, <2>7, StorageFrame
  <2>9. ASSUME ~Bounce PROVE SourceInv'
    BY <1>1, <1>5, <2>4, <2>9, SourceFrame DEF SourceInv, loadVars
  <2> QED
    BY <2>5, <2>6, <2>8, <2>9
<1> QED
  BY <1>1, <1>3, <1>4, <1>5 DEF Install, Fails

\* The volume is mounted, if the session is still the one it began with.
LEMMA MountKeeps ==
  ASSUME IInv, Mount
  PROVE  IInv'
<1> USE DEF IInv
<1>1. /\ st.pc = "volume" /\ UNCHANGED <<plug, drv, drvpc, announced, avail, lib, eng, store>>
      /\ UNCHANGED loadVars
  BY DEF Mount
<1>2. ~avail' /\ avail' \in BOOLEAN
  BY <1>1 DEF GateInv, StorageType
<1>3. CASE /\ ReleaseTo("look")
           /\ left' = left \/ (left.fails > 0 /\ left' = [left EXCEPT !.fails = @ - 1])
  BY <1>1, <1>2, <1>3, ReleaseKeepsAll
<1>4. CASE Matches /\ mount' = dev /\ At("open") /\ UNCHANGED <<ses, dev, left>>
  BY <1>1, <1>4, StepKeeps
<1> QED
  BY <1>1, <1>3, <1>4 DEF Mount, Fails

\* The gate is opened before the last test of the session.
LEMMA CommitOpenKeeps ==
  ASSUME IInv, CommitOpen
  PROVE  IInv'
<1> USE DEF IInv
<1>1. /\ st.pc = "open" /\ avail' = TRUE
      /\ UNCHANGED <<plug, drv, drvpc, ses, announced, dev, mount, lib, eng, store, left>>
      /\ UNCHANGED loadVars
  BY DEF CommitOpen
<1>2. /\ st' \in [pc : StoragePcs, epoch : Nat, tries : Int, owns : BOOLEAN]
      /\ st'.pc = "commit" /\ st'.epoch = st.epoch
  BY AtMoves DEF CommitOpen, StoragePcs
<1>3. StorageType'
  BY <1>1, <1>2 DEF StorageType
<1>4. GateInv'
  BY <1>1, <1>2 DEF GateInv, GateTruth, Matches
<1>5. ~ui.removed
  BY <1>1 DEF ViewInv
<1>6. /\ EngineType' /\ LoadType' /\ ViewType'
      /\ FlightInv' /\ LoadsInv' /\ ViewInv' /\ EngineInv'
  BY <1>1, <1>2, <1>5, StorageFrame
<1>7. ASSUME ~Bounce PROVE SourceInv'
  BY <1>1, <1>2, <1>7, SourceFrame DEF SourceInv, loadVars
<1> QED
  BY <1>3, <1>4, <1>6, <1>7

\* The mount is announced, or given up if the drive has gone meanwhile.
LEMMA CommitKeeps ==
  ASSUME IInv, Commit
  PROVE  IInv'
<1> USE DEF IInv
<1>1. /\ st.pc = "commit" /\ UNCHANGED <<plug, drv, drvpc, lib, eng, store, left>>
      /\ UNCHANGED loadVars
  BY DEF Commit
<1>2. CASE avail' = FALSE /\ ReleaseTo("look") /\ UNCHANGED announced
  BY <1>1, <1>2, ReleaseKeepsAll
<1>3. CASE /\ Matches /\ ses' = [ses EXCEPT !.mounted = TRUE] /\ announced' = TRUE
           /\ st' = [st EXCEPT !.pc = "init", !.tries = InitTries]
           /\ UNCHANGED <<avail, dev, mount>>
  <2>1. PICK b \in BOOLEAN : b = TRUE
    OBVIOUS
  <2>2. PICK p \in StoragePcs : p = "init"
    BY DEF StoragePcs
  <2>3. PICK n \in Int : n = InitTries
    BY DEF InitTries
  <2>4. b = TRUE /\ p = "init"
    BY <2>1, <2>2
  <2>5. ses' = [ses EXCEPT !.mounted = b] /\ st' = [st EXCEPT !.pc = p, !.tries = n]
    BY <1>3, <2>1, <2>2, <2>3
  <2>6. /\ ses' \in [conn : BOOLEAN, mounted : BOOLEAN, epoch : Nat, bound : BOOLEAN]
        /\ ses'.conn = ses.conn /\ ses'.epoch = ses.epoch /\ ses'.mounted
    BY <2>4, <2>5 DEF StorageType
  <2>7. /\ st' \in [pc : StoragePcs, epoch : Nat, tries : Int, owns : BOOLEAN]
        /\ st'.pc = "init" /\ st'.epoch = st.epoch
    BY <2>4, <2>5 DEF StorageType
  <2>8. StorageType'
    BY <1>1, <1>3, <2>6, <2>7 DEF StorageType
  <2>9. GateInv'
    BY <1>1, <1>3, <2>6, <2>7 DEF GateInv, GateTruth, Matches
  <2>10. ~ui.removed
    BY <1>1 DEF ViewInv
  <2>11. /\ EngineType' /\ LoadType' /\ ViewType'
         /\ FlightInv' /\ LoadsInv' /\ ViewInv' /\ EngineInv'
    BY <1>1, <2>7, <2>10, StorageFrame
  <2>12. ASSUME ~Bounce PROVE SourceInv'
    BY <1>1, <1>3, <2>6, <2>7, <2>12, SourceFrame DEF SourceInv, loadVars, GateInv
  <2> QED
    BY <2>8, <2>9, <2>11, <2>12
<1> QED
  BY <1>2, <1>3 DEF Commit

\* The catalog is opened, or not.
LEMMA LibraryOpenKeeps ==
  ASSUME IInv, LibraryOpen
  PROVE  IInv'
<1> USE DEF IInv
<1>1. /\ st.pc = "init"
      /\ UNCHANGED <<plug, drv, drvpc, ses, announced, avail, dev, mount, lib, eng, store>>
      /\ UNCHANGED loadVars
  BY DEF LibraryOpen
<1>2. left' = left \/ (left.fails > 0 /\ left' = [left EXCEPT !.fails = @ - 1])
  BY DEF LibraryOpen, Fails
<1>3. left' \in [plugs : Drives, loads : Nat, sorts : Nat, fails : Nat]
  BY <1>2, FailCount
<1>4. PICK p \in {"parse", "init", "look"}, n \in Int :
        st' = [st EXCEPT !.pc = p] \/ st' = [st EXCEPT !.tries = n, !.pc = p]
  <2>1. CASE At("parse")
    <3>1. PICK p \in {"parse", "init", "look"} : p = "parse"
      OBVIOUS
    <3>2. st' = [st EXCEPT !.pc = p] /\ 0 \in Int
      BY <2>1, <3>1 DEF At
    <3> QED
      BY <3>2
  <2>2. CASE st' = [st EXCEPT !.tries = @ - 1, !.pc = IF st.tries > 1 THEN "init" ELSE "look"]
    <3>1. PICK n \in Int, p \in {"init", "look"} :
            n = st.tries - 1 /\ p = IF st.tries > 1 THEN "init" ELSE "look"
      BY DEF StorageType
    <3>2. st' = [st EXCEPT !.tries = n, !.pc = p]
      BY <2>2, <3>1
    <3> QED
      BY <3>2
  <2> QED
    BY <2>1, <2>2 DEF LibraryOpen
<1>5. /\ st' \in [pc : StoragePcs, epoch : Nat, tries : Int, owns : BOOLEAN]
      /\ st'.pc = p /\ st'.epoch = st.epoch
  <2>1. p \in StoragePcs
    BY DEF StoragePcs
  <2> QED
    BY <1>4, <2>1 DEF StorageType
<1>6. StorageType'
  BY <1>1, <1>3, <1>5 DEF StorageType
<1>7. GateInv'
  BY <1>1, <1>5 DEF GateInv, GateTruth, Matches
<1>8. ~ui.removed
  BY <1>1 DEF ViewInv
<1>9. /\ EngineType' /\ LoadType' /\ ViewType'
      /\ FlightInv' /\ LoadsInv' /\ ViewInv' /\ EngineInv'
  BY <1>1, <1>5, <1>8, StorageFrame
<1>10. ASSUME ~Bounce PROVE SourceInv'
  BY <1>1, <1>5, <1>10, SourceFrame DEF SourceInv, loadVars
<1> QED
  BY <1>6, <1>7, <1>9, <1>10

-----------------------------------------------------------------------------
(* The catalog.                                                             *)

\* A new generation of the catalog: no LOAD under way is of it.
LEMMA CatalogMoves ==
  ASSUME IInv, lib' \in [gen : Nat, media : Drives], lib'.gen = lib.gen + 1,
         UNCHANGED <<wk, res, eng, store>>
  PROVE  LoadsInv' /\ \A d \in Decks : Retiring(d) => Retiring(d)'
<1> USE DEF IInv
<1>1. lib.gen \in Nat /\ wk.gen \in Nat /\ res.gen \in Nat
  BY DEF StorageType, LoadType, Load
<1>2. Wedged' <=> Wedged
  BY WedgedKept
<1>3. \A x \in {wk, res} : x.gen \in Nat
  BY <1>1
<1>4. LoadsInv'
  BY <1>1, <1>2, <1>3 DEF LoadsInv
<1>5. ASSUME NEW d \in Decks, Retiring(d) PROVE Retiring(d)'
  BY <1>1, <1>5 DEF Retiring, LoadsInv
<1> QED
  BY <1>4, <1>5

\* What is said of the engine, when only the catalog gets a new generation.
LEMMA CatalogFrame ==
  ASSUME IInv, lib' \in [gen : Nat, media : Drives], lib'.gen = lib.gen + 1,
         UNCHANGED <<eng, store, loadVars>>
  PROVE  EngineType' /\ LoadType' /\ ViewType' /\ FlightInv' /\ LoadsInv'
BY TypesKept, FlightKept, CatalogMoves DEF IInv, loadVars

\* The catalog is published.
LEMMA LibraryPublishKeeps ==
  ASSUME IInv, LibraryPublish
  PROVE  IInv'
<1> USE DEF IInv
<1>1. /\ st.pc = "parse"
      /\ UNCHANGED <<plug, drv, drvpc, ses, announced, avail, dev, mount, eng, store, left>>
      /\ UNCHANGED loadVars
  BY DEF LibraryPublish
<1>2. /\ lib' \in [gen : Nat, media : Drives] /\ lib'.gen = lib.gen + 1 /\ lib'.media = mount
      /\ lib.gen \in Nat
  BY DEF LibraryPublish, StorageType
<1>3. /\ st' \in [pc : StoragePcs, epoch : Nat, tries : Int, owns : BOOLEAN]
      /\ st'.pc = "look" /\ st'.epoch = st.epoch
  BY AtMoves DEF LibraryPublish, StoragePcs
<1>4. StorageType'
  BY <1>1, <1>2, <1>3 DEF StorageType
<1>5. GateInv'
  BY <1>1, <1>3 DEF GateInv, GateTruth, Matches
<1>6. EngineType' /\ LoadType' /\ ViewType' /\ FlightInv' /\ LoadsInv'
  BY <1>1, <1>2, CatalogFrame
<1>7. ViewInv'
  <2>1. ~ui.removed /\ st.pc # "notify"
    BY <1>1 DEF ViewInv
  <2>2. \A d \in Decks : store.mg[d] \in Nat
    BY DEF ViewType
  <2>3. store.floor \in Nat
    BY DEF ViewType
  <2>4. ASSUME NEW d \in Decks PROVE BeingReset(d)' <=> BeingReset(d)
    BY <1>1 DEF BeingReset, loadVars
  <2> QED
    BY <1>1, <1>2, <1>3, <2>1, <2>2, <2>3, <2>4 DEF ViewInv, loadVars
<1>8. EngineInv'
  BY <1>1, <1>3, EngineKept DEF loadVars
<1>9. ASSUME ~Bounce PROVE SourceInv'
  <2>1. \A d \in Decks : Retiring(d) => Retiring(d)'
    BY <1>1, <1>2, CatalogMoves DEF loadVars
  <2>2. Wedged' <=> Wedged
    BY <1>1, WedgedKept
  <2> QED
    BY <1>1, <1>3, <1>9, <2>1, <2>2 DEF SourceInv
<1> QED
  BY <1>4, <1>5, <1>6, <1>7, <1>8, <1>9

\* The catalog is sorted: the same media in a new generation.
LEMMA SortKeeps ==
  ASSUME IInv, Sort
  PROVE  IInv'
<1> USE DEF IInv
<1>1. /\ lib.media # 0 /\ UNCHANGED <<plug, drv, drvpc, eng, store>> /\ UNCHANGED storageVars
      /\ UNCHANGED loadVars
  BY DEF Sort
<1>2. PICK n \in Nat : n = lib.gen + 1
  BY DEF StorageType
<1>3. lib' = [lib EXCEPT !.gen = n]
  BY <1>2 DEF Sort
<1>4. /\ lib' \in [gen : Nat, media : Drives] /\ lib'.gen = lib.gen + 1 /\ lib'.media = lib.media
      /\ lib.gen \in Nat
  BY <1>2, <1>3 DEF StorageType
<1>5. PICK m \in Nat : m = left.sorts - 1
  BY DEF Sort, StorageType
<1>6. left' = [left EXCEPT !.sorts = m]
  BY <1>5 DEF Sort
<1>7. left' \in [plugs : Drives, loads : Nat, sorts : Nat, fails : Nat]
  BY <1>6 DEF StorageType
<1>8. StorageType'
  BY <1>1, <1>4, <1>7 DEF StorageType, storageVars
<1>9. GateInv'
  BY <1>1, GateKept
<1>10. EngineType' /\ LoadType' /\ ViewType' /\ FlightInv' /\ LoadsInv'
  BY <1>1, <1>4, CatalogFrame
<1>11. st' = st /\ announced' = announced /\ mount' = mount /\ ses' = ses
  BY <1>1 DEF storageVars
<1>12. ViewInv'
  <2>1. ~ui.removed /\ st.pc # "notify" /\ st.pc # "tracks"
    BY <1>1 DEF ViewInv
  <2>2. store.floor \in Nat /\ \A d \in Decks : store.mg[d] \in Nat
    BY DEF ViewType
  <2>3. ASSUME NEW d \in Decks PROVE BeingReset(d)' <=> BeingReset(d)
    BY <1>1 DEF BeingReset, loadVars
  <2> QED
    BY <1>1, <1>4, <1>11, <2>1, <2>2, <2>3 DEF ViewInv, loadVars
<1>13. EngineInv'
  BY <1>1, <1>11, EngineKept DEF loadVars
<1>14. ASSUME ~Bounce PROVE SourceInv'
  <2>1. \A d \in Decks : Retiring(d) => Retiring(d)'
    BY <1>1, <1>4, CatalogMoves DEF loadVars
  <2>2. Wedged' <=> Wedged
    BY <1>1, WedgedKept
  <2> QED
    BY <1>1, <1>4, <1>11, <1>14, <2>1, <2>2 DEF SourceInv
<1> QED
  BY <1>8, <1>9, <1>10, <1>12, <1>13, <1>14

\* The catalog is cleared, behind the barrier.
LEMMA LibraryClearKeeps ==
  ASSUME IInv, LibraryClear
  PROVE  IInv'
<1> USE DEF IInv
<1>1. /\ st.pc = "clear"
      /\ UNCHANGED <<plug, drv, drvpc, ses, announced, avail, dev, mount, eng, store, left>>
      /\ UNCHANGED loadVars
  BY DEF LibraryClear
<1>2. /\ lib' \in [gen : Nat, media : Drives] /\ lib'.gen = lib.gen + 1 /\ lib'.media = 0
      /\ lib.gen \in Nat
  BY Bounds DEF LibraryClear, StorageType, Drives
<1>3. /\ st' \in [pc : StoragePcs, epoch : Nat, tries : Int, owns : BOOLEAN]
      /\ st'.pc = "tracks" /\ st'.epoch = st.epoch
  BY AtMoves DEF LibraryClear, StoragePcs
<1>4. StorageType'
  BY <1>1, <1>2, <1>3 DEF StorageType
<1>5. GateInv'
  BY <1>1, <1>3 DEF GateInv, GateTruth, Matches
<1>6. EngineType' /\ LoadType' /\ ViewType' /\ FlightInv' /\ LoadsInv'
  BY <1>1, <1>2, CatalogFrame
<1>7. ViewInv'
  <2>1. ~ui.removed
    BY <1>1 DEF ViewInv
  <2>2. store.floor \in Nat /\ \A d \in Decks : store.mg[d] \in Nat
    BY DEF ViewType
  <2>3. ASSUME NEW d \in Decks PROVE BeingReset(d)' <=> BeingReset(d)
    BY <1>1 DEF BeingReset, loadVars
  <2> QED
    BY <1>1, <1>2, <1>3, <2>1, <2>2, <2>3 DEF ViewInv, loadVars
<1>8. EngineInv'
  BY <1>1, <1>3, EngineKept DEF loadVars
<1>9. ASSUME ~Bounce PROVE SourceInv'
  <2>1. \A d \in Decks : Retiring(d) => Retiring(d)'
    BY <1>1, <1>2, CatalogMoves DEF loadVars
  <2>2. Wedged' <=> Wedged
    BY <1>1, WedgedKept
  <2> QED
    BY <1>1, <1>2, <1>3, <1>9, <2>1, <2>2 DEF SourceInv
<1> QED
  BY <1>4, <1>5, <1>6, <1>7, <1>8, <1>9

\* The store is cleared; it is never newer than the catalog, so it never refuses.
LEMMA ClearLoadedTracksKeeps ==
  ASSUME IInv, ClearLoadedTracks
  PROVE  IInv'
<1> USE DEF IInv
<1>1. /\ st.pc = "tracks"
      /\ UNCHANGED <<plug, drv, drvpc, ses, announced, avail, dev, mount, lib, eng, left>>
      /\ UNCHANGED loadVars
  BY DEF ClearLoadedTracks
<1>2. /\ st' \in [pc : StoragePcs, epoch : Nat, tries : Int, owns : BOOLEAN]
      /\ st'.pc = "notify" /\ st'.epoch = st.epoch
  BY AtMoves DEF ClearLoadedTracks, StoragePcs
<1>3. lib.gen \in Nat /\ store.floor \in Nat /\ \A d \in Decks : store.mg[d] \in Nat
  BY DEF StorageType, ViewType
<1>4. ~(lib.gen < store.floor \/ \E d \in Decks : store.mg[d] > lib.gen)
  BY <1>3 DEF ViewInv
<1>5. store' = [floor |-> lib.gen, mg |-> [d \in Decks |-> lib.gen],
                valid |-> [d \in Decks |-> FALSE]]
  BY <1>4 DEF ClearLoadedTracks
<1>6. /\ store'.floor = lib.gen /\ \A d \in Decks : store'.mg[d] = lib.gen /\ ~store'.valid[d]
  BY <1>5
<1>7. StorageType'
  BY <1>1, <1>2 DEF StorageType
<1>8. ViewType'
  BY <1>1, <1>3, <1>5 DEF ViewType, loadVars
<1>9. EngineType' /\ LoadType'
  BY <1>1, TypesKept DEF loadVars
<1>10. GateInv'
  BY <1>1, <1>2 DEF GateInv, GateTruth, Matches
<1>11. FlightInv'
  BY <1>1, FlightKept DEF loadVars
<1>12. LoadsInv'
  <2>1. Wedged' <=> Wedged
    BY <1>1, WedgedKept
  <2> QED
    BY <1>1, <1>3, <1>6, <2>1 DEF LoadsInv, loadVars
<1>13. ViewInv'
  BY <1>1, <1>2, <1>3, <1>6 DEF ViewInv, loadVars
<1>14. EngineInv'
  BY <1>1, <1>2, EngineKept DEF loadVars
<1>15. ASSUME ~Bounce PROVE SourceInv'
  BY <1>1, <1>2, <1>15, SourceFrame DEF SourceInv, loadVars
<1> QED
  BY <1>7, <1>8, <1>9, <1>10, <1>11, <1>12, <1>13, <1>14, <1>15

-----------------------------------------------------------------------------
(* The engine.                                                              *)

\* What a stop of the decks ds does to the engine.
LEMMA StoppedFacts ==
  ASSUME NEW e \in Engines, NEW ds
  PROVE  /\ Stopped(ds, e) \in Engines
         /\ Stopped(ds, e).blocked = e.blocked /\ Stopped(ds, e).stuck = e.stuck
         /\ \A d \in Decks :
              /\ Stopped(ds, e).gen[d] = IF d \in ds THEN e.gen[d] + 1 ELSE e.gen[d]
              /\ Stopped(ds, e).on[d] <=> e.on[d] /\ ~(d \in ds /\ ~e.stuck[d])
              /\ Stopped(ds, e).src[d] = IF d \in ds /\ ~e.stuck[d] THEN 0 ELSE e.src[d]
<1> DEFINE g == [d \in Decks |-> IF d \in ds THEN e.gen[d] + 1 ELSE e.gen[d]]
           o == [d \in Decks |-> e.on[d] /\ ~(d \in ds /\ ~e.stuck[d])]
           s == [d \in Decks |-> IF d \in ds /\ ~e.stuck[d] THEN 0 ELSE e.src[d]]
<1>1. g \in [Decks -> Nat]
  BY DEF Engines
<1>2. o \in [Decks -> BOOLEAN]
  BY DEF Engines
<1>3. s \in [Decks -> Drives]
  BY Bounds DEF Engines, Drives
<1>4. Stopped(ds, e) = [e EXCEPT !.gen = g, !.on = o, !.src = s]
  BY DEF Stopped
<1>5. \A d \in Decks : /\ g[d] = IF d \in ds THEN e.gen[d] + 1 ELSE e.gen[d]
                       /\ o[d] <=> e.on[d] /\ ~(d \in ds /\ ~e.stuck[d])
                       /\ s[d] = IF d \in ds /\ ~e.stuck[d] THEN 0 ELSE e.src[d]
  OBVIOUS
<1> HIDE DEF g, o, s
<1>6. /\ Stopped(ds, e) \in Engines /\ Stopped(ds, e).blocked = e.blocked
      /\ Stopped(ds, e).stuck = e.stuck /\ Stopped(ds, e).gen = g /\ Stopped(ds, e).on = o
      /\ Stopped(ds, e).src = s
  BY <1>1, <1>2, <1>3, <1>4 DEF Engines
<1> QED
  BY <1>5, <1>6

\* Every deck is stopped and admission closed, or a deck is stuck.
LEMMA SuspendLoadsKeeps ==
  ASSUME IInv, SuspendLoads
  PROVE  IInv'
<1> USE DEF IInv
<1>1. /\ st.pc = "suspend"
      /\ UNCHANGED <<plug, drv, drvpc, ses, announced, avail, dev, mount, lib, store>>
      /\ UNCHANGED loadVars
  BY DEF SuspendLoads
<1>2. left' = left \/ (left.fails > 0 /\ left' = [left EXCEPT !.fails = @ - 1])
  BY DEF SuspendLoads
<1>3. left' \in [plugs : Drives, loads : Nat, sorts : Nat, fails : Nat]
  BY <1>2, FailCount
<1>4. /\ eng' \in Engines /\ \A d \in Decks : eng'.src[d] # 0 => eng'.on[d]
      /\ ~Wedged' => eng'.blocked /\ \A d \in Decks : ~eng'.on[d]
  <2>1. CASE eng' = [Stopped(Decks, eng) EXCEPT !.blocked = \A d \in Decks : ~eng.stuck[d]]
    <3>1. PICK e \in Engines : e = Stopped(Decks, eng)
      BY StoppedFacts DEF EngineType
    <3>2. PICK b \in BOOLEAN : b = \A d \in Decks : ~eng.stuck[d]
      OBVIOUS
    <3>3. eng' = [e EXCEPT !.blocked = b]
      BY <2>1, <3>1, <3>2
    <3>4. eng' \in Engines /\ eng'.blocked = b /\ eng'.stuck = e.stuck /\ eng'.on = e.on
          /\ eng'.src = e.src
      BY <3>3 DEF Engines
    <3>5. /\ e.stuck = eng.stuck
          /\ \A d \in Decks : /\ e.on[d] <=> eng.on[d] /\ eng.stuck[d]
                              /\ e.src[d] = IF ~eng.stuck[d] THEN 0 ELSE eng.src[d]
      BY <3>1, StoppedFacts DEF EngineType
    <3>6. ASSUME NEW d \in Decks, eng'.src[d] # 0 PROVE eng'.on[d]
      BY <3>4, <3>5, <3>6 DEF EngineInv
    <3>7. ~Wedged' => b /\ \A d \in Decks : ~eng'.on[d]
      BY <3>2, <3>4, <3>5 DEF Wedged
    <3> QED
      BY <3>4, <3>6, <3>7
  <2>2. ASSUME NEW d \in Decks, eng' = Stopped(Decks, [eng EXCEPT !.stuck[d] = TRUE])
        PROVE  /\ eng' \in Engines /\ \A x \in Decks : eng'.src[x] # 0 => eng'.on[x]
               /\ Wedged'
    <3>1. PICK t \in [Decks -> BOOLEAN] : t = [eng.stuck EXCEPT ![d] = TRUE]
      BY DEF EngineType, Engines
    <3>2. PICK e \in Engines : e = [eng EXCEPT !.stuck = t]
      BY DEF EngineType, Engines
    <3>3. eng' = Stopped(Decks, e)
      BY <2>2, <3>1, <3>2
    <3>4. e.stuck = t /\ e.on = eng.on /\ e.src = eng.src
      BY <3>2 DEF EngineType, Engines
    <3>5. t[d]
      BY <3>1 DEF EngineType, Engines
    <3>6. /\ eng' \in Engines /\ eng'.stuck = t
          /\ \A x \in Decks : /\ eng'.on[x] <=> eng.on[x] /\ t[x]
                              /\ eng'.src[x] = IF ~t[x] THEN 0 ELSE eng.src[x]
      BY <3>3, <3>4, StoppedFacts
    <3>7. ASSUME NEW x \in Decks, eng'.src[x] # 0 PROVE eng'.on[x]
      BY <3>6, <3>7 DEF EngineInv
    <3>8. Wedged'
      BY <3>5, <3>6 DEF Wedged
    <3> QED
      BY <3>6, <3>7, <3>8
  <2> QED
    BY <2>1, <2>2 DEF SuspendLoads
<1>5. /\ st' \in [pc : StoragePcs, epoch : Nat, tries : Int, owns : BOOLEAN]
      /\ st'.pc = "clear" /\ st'.epoch = st.epoch
  <2>1. PICK p \in StoragePcs : p = "clear"
    BY DEF StoragePcs
  <2>2. PICK b \in BOOLEAN : b = eng'.blocked
    BY <1>4 DEF Engines
  <2>3. st' = [st EXCEPT !.pc = p, !.owns = b]
    BY <2>1, <2>2 DEF SuspendLoads
  <2> QED
    BY <2>1, <2>3 DEF StorageType
<1>6. StorageType'
  BY <1>1, <1>3, <1>5 DEF StorageType
<1>7. EngineType'
  BY <1>4 DEF EngineType
<1>8. LoadType' /\ ViewType' /\ FlightInv'
  BY <1>1, TypesKept, FlightKept DEF loadVars
<1>9. GateInv'
  BY <1>1, <1>5 DEF GateInv, GateTruth, Matches
<1>10. LoadsInv'
  BY <1>1, <1>4 DEF LoadsInv, loadVars
<1>11. ViewInv'
  <2>1. ~ui.removed
    BY <1>1 DEF ViewInv
  <2> QED
    BY <1>1, <1>5, <2>1, ViewKept DEF loadVars
<1>12. EngineInv'
  BY <1>4 DEF EngineInv
<1>13. ASSUME ~Bounce PROVE SourceInv'
  BY <1>1, <1>4, <1>5, <1>13 DEF SourceInv
<1> QED
  BY <1>6, <1>7, <1>8, <1>9, <1>10, <1>11, <1>12, <1>13

\* The screen is told, and admission is opened again.
LEMMA NotifyAndResumeKeeps ==
  ASSUME IInv, NotifyAndResume
  PROVE  IInv'
<1> USE DEF IInv
<1>1. /\ st.pc = "notify"
      /\ UNCHANGED <<plug, drv, drvpc, ses, announced, avail, dev, mount, lib, store, left,
                     gate, wk, res, shown>>
  BY DEF NotifyAndResume
<1>2. PICK b \in BOOLEAN, c \in BOOLEAN : b = FALSE /\ c = TRUE
  OBVIOUS
<1>3. /\ ui' \in [pc : {"idle", "poll", "publish"}, removed : BOOLEAN]
      /\ ui'.pc = ui.pc /\ ui'.removed
  <2>1. ui' = [ui EXCEPT !.removed = c]
    BY <1>2 DEF NotifyAndResume
  <2> QED
    BY <1>2, <2>1 DEF LoadType
<1>4. eng' = eng \/ eng' = [eng EXCEPT !.blocked = b]
  BY <1>2 DEF NotifyAndResume
<1>5. /\ eng' \in Engines /\ eng'.on = eng.on /\ eng'.src = eng.src /\ eng'.stuck = eng.stuck
      /\ eng'.gen = eng.gen
  BY <1>4 DEF EngineType, Engines
<1>6. PICK p \in {"release", "look"} : p = IF mount # 0 \/ dev # 0 THEN "release" ELSE "look"
  OBVIOUS
<1>7. /\ st' \in [pc : StoragePcs, epoch : Nat, tries : Int, owns : BOOLEAN]
      /\ st'.pc = p /\ st'.epoch = st.epoch
  <2>1. p \in StoragePcs
    BY DEF StoragePcs
  <2>2. st' = [st EXCEPT !.pc = p, !.owns = b]
    BY <1>2, <1>6 DEF NotifyAndResume
  <2> QED
    BY <2>1, <2>2 DEF StorageType
<1>8. StorageType'
  BY <1>1, <1>7 DEF StorageType
<1>9. EngineType' /\ ViewType'
  BY <1>1, <1>5, TypesKept DEF EngineType
<1>10. LoadType'
  BY <1>1, <1>3 DEF LoadType
<1>11. GateInv'
  BY <1>1, <1>7 DEF GateInv, GateTruth, Matches
<1>12. FlightInv'
  BY <1>1, <1>3, FlightKept
<1>13. Wedged' <=> Wedged
  BY <1>5, WedgedKept
<1>14. LoadsInv'
  BY <1>1, <1>5, <1>13 DEF LoadsInv
<1>15. ViewInv'
  <2>1. ASSUME NEW d \in Decks PROVE BeingReset(d)' <=> BeingReset(d)
    BY <1>1 DEF BeingReset
  <2>2. ~announced
    BY <1>1 DEF GateInv
  <2> QED
    BY <1>1, <1>3, <1>7, <2>1, <2>2 DEF ViewInv
<1>16. EngineInv'
  BY <1>1, <1>5, <1>7, <1>13 DEF EngineInv
<1>17. ASSUME ~Bounce PROVE SourceInv'
  BY <1>1, <1>5, <1>7, <1>13, <1>17 DEF SourceInv, EngineInv
<1> QED
  BY <1>8, <1>9, <1>10, <1>11, <1>12, <1>14, <1>15, <1>16, <1>17

\* The loader opens the file on the volume that is mounted, or gives up.
LEMMA LoaderOpenKeeps ==
  ASSUME IInv, NEW k \in Decks, LoaderOpen(k)
  PROVE  IInv'
<1> USE DEF IInv
<1>1. /\ eng.on[k] /\ eng.src[k] = 0 /\ left' = left
      /\ UNCHANGED <<plug, drv, drvpc, lib, store>> /\ UNCHANGED storageVars /\ UNCHANGED loadVars
  BY DEF LoaderOpen
<1>2. /\ eng' \in Engines /\ eng'.stuck = eng.stuck /\ eng'.blocked = eng.blocked
      /\ eng'.gen = eng.gen
      /\ \A d \in Decks : /\ eng'.on[d] => eng.on[d]
                          /\ eng'.src[d] # 0 => eng'.on[d]
                          /\ eng'.src[d] # 0 => eng'.src[d] = eng.src[d] \/ eng'.src[d] = mount
  <2>1. CASE eng' = [eng EXCEPT !.src[k] = mount]
    <3>1. PICK s \in [Decks -> Drives] : s = [eng.src EXCEPT ![k] = mount]
      BY DEF EngineType, Engines, StorageType
    <3>2. eng' = [eng EXCEPT !.src = s]
      BY <2>1, <3>1
    <3>3. /\ eng' \in Engines /\ eng'.stuck = eng.stuck /\ eng'.blocked = eng.blocked
          /\ eng'.gen = eng.gen /\ eng'.on = eng.on /\ eng'.src = s
      BY <3>2 DEF EngineType, Engines
    <3>4. \A d \in Decks : s[d] = IF d = k THEN mount ELSE eng.src[d]
      BY <3>1 DEF EngineType, Engines
    <3> QED
      BY <1>1, <3>3, <3>4 DEF EngineInv
  <2>2. CASE eng' = [eng EXCEPT !.on[k] = FALSE]
    <3>1. PICK o \in [Decks -> BOOLEAN] : o = [eng.on EXCEPT ![k] = FALSE]
      BY DEF EngineType, Engines
    <3>2. eng' = [eng EXCEPT !.on = o]
      BY <2>2, <3>1
    <3>3. /\ eng' \in Engines /\ eng'.stuck = eng.stuck /\ eng'.blocked = eng.blocked
          /\ eng'.gen = eng.gen /\ eng'.on = o /\ eng'.src = eng.src
      BY <3>2 DEF EngineType, Engines
    <3>4. \A d \in Decks : o[d] <=> d # k /\ eng.on[d]
      BY <3>1 DEF EngineType, Engines
    <3> QED
      BY <1>1, <3>3, <3>4 DEF EngineInv
  <2> QED
    BY <2>1, <2>2 DEF LoaderOpen
<1>3. plug' = plug /\ st' = st /\ announced' = announced /\ mount' = mount /\ ses' = ses
  BY <1>1 DEF storageVars
<1>4. StorageType' /\ EngineType' /\ LoadType' /\ ViewType'
  BY <1>1, <1>2, TypesKept DEF EngineType, loadVars
<1>5. GateInv' /\ FlightInv'
  BY <1>1, GateKept, FlightKept DEF loadVars
<1>6. Wedged' <=> Wedged
  BY <1>2, WedgedKept
<1>7. LoadsInv'
  BY <1>1, <1>2, <1>6 DEF LoadsInv, loadVars
<1>8. ViewInv'
  BY <1>1, <1>3, ViewKept DEF loadVars, ViewInv
<1>9. EngineInv'
  <2>1. ASSUME NEW d \in Decks PROVE OwnSession(d)' <=> OwnSession(d)
    BY <1>1 DEF OwnSession, loadVars
  <2> QED
    BY <1>1, <1>2, <1>3, <1>6, <2>1 DEF EngineInv, loadVars
<1>10. ASSUME ~Bounce PROVE SourceInv'
  <2>1. ASSUME NEW d \in Decks PROVE Retiring(d)' <=> Retiring(d)
    BY <1>1 DEF Retiring, loadVars
  <2> QED
    BY <1>1, <1>2, <1>3, <1>6, <1>10, <2>1 DEF SourceInv
<1> QED
  BY <1>4, <1>5, <1>7, <1>8, <1>9, <1>10

-----------------------------------------------------------------------------
(* The worker.                                                              *)

\* What the worker's steps have in common: the storage task, the slot and the
\* screen stay as they are.
LEMMA WorkerFrame ==
  ASSUME IInv, UNCHANGED <<plug, drv, drvpc, lib, gate, res, ui, shown>>, UNCHANGED storageVars,
         wk.pc # "idle", wk'.pc # "idle", wk' \in Load(WorkerPcs),
         left' = left \/ (left.fails > 0 /\ left' = [left EXCEPT !.fails = @ - 1])
  PROVE  /\ StorageType' /\ LoadType' /\ GateInv' /\ FlightInv' /\ res.pc = "idle"
         /\ st' = st /\ announced' = announced /\ mount' = mount /\ ses' = ses
<1> USE DEF IInv
<1>1. left' \in [plugs : Drives, loads : Nat, sorts : Nat, fails : Nat]
  BY FailCount
<1>2. StorageType'
  BY <1>1 DEF StorageType, storageVars
<1>3. LoadType'
  BY DEF LoadType
<1>4. GateInv'
  BY GateKept
<1>5. FlightInv' /\ res.pc = "idle"
  BY DEF FlightInv
<1> QED
  BY <1>2, <1>3, <1>4, <1>5 DEF storageVars

\* A step of the worker that decides, and changes nothing but its place.
LEMMA WorkerMoves ==
  ASSUME IInv, UNCHANGED <<plug, drv, drvpc, lib, gate, res, ui, shown, eng, store>>,
         UNCHANGED storageVars,
         wk.pc # "idle", wk'.pc # "idle", wk' \in Load(WorkerPcs),
         wk'.d = wk.d, wk'.gen = wk.gen, wk'.sess = wk.sess, wk'.reset = wk.reset,
         wk'.pc \in {"send", "reset"}, wk'.pc = "reset" => wk.pc = "resolve",
         wk.pc = "check" => wk.gen = lib.gen,
         wk'.pc = "send" /\ wk'.rc = "OK" => wk.reset,
         left' = left \/ (left.fails > 0 /\ left' = [left EXCEPT !.fails = @ - 1])
  PROVE  IInv'
<1> USE DEF IInv
<1>1. /\ StorageType' /\ LoadType' /\ GateInv' /\ FlightInv' /\ res.pc = "idle"
      /\ st' = st /\ announced' = announced /\ mount' = mount /\ ses' = ses
  BY WorkerFrame
<1>2. EngineType' /\ ViewType'
  BY TypesKept
<1>3. Wedged' <=> Wedged
  BY WedgedKept
<1>4. LoadsInv'
  <2>1. wk.pc = "resolve" => wk.sess = 0
    BY DEF LoadsInv
  <2> QED
    BY <1>1, <1>3, <2>1 DEF LoadsInv
<1>5. ASSUME NEW d \in Decks
      PROVE  (OwnSession(d)' <=> OwnSession(d)) /\ (BeingReset(d)' <=> BeingReset(d))
             /\ ~Retiring(d)
  BY <1>1 DEF OwnSession, BeingReset, Retiring
<1>6. ViewInv'
  BY <1>1, <1>5 DEF ViewInv
<1>7. EngineInv'
  BY <1>1, <1>3, <1>5 DEF EngineInv
<1>8. ASSUME ~Bounce PROVE SourceInv'
  BY <1>1, <1>3, <1>5, <1>8 DEF SourceInv
<1> QED
  BY <1>1, <1>2, <1>4, <1>6, <1>7, <1>8

\* A LOAD is asked for, of the catalog that is listed.
LEMMA LoadRequestKeeps ==
  ASSUME IInv, NEW k \in Decks, LoadRequest(k)
  PROVE  IInv'
<1> USE DEF IInv
<1>1. /\ ~gate.busy /\ lib.media # 0 /\ res' = IdleWorker
      /\ UNCHANGED <<plug, drv, drvpc, lib, eng, ui, shown, store>> /\ UNCHANGED storageVars
  BY DEF LoadRequest
<1>2. /\ gate' \in [busy : BOOLEAN, cancelled : BOOLEAN] /\ gate'.busy /\ ~gate'.cancelled
  BY DEF LoadRequest
<1>3. wk.pc = "idle" /\ res.pc = "idle"
  BY <1>1 DEF FlightInv
<1>4. /\ wk'.pc = "resolve" /\ wk'.d = k /\ wk'.gen = lib.gen /\ wk'.sess = 0 /\ ~wk'.reset
      /\ wk' \in Load(WorkerPcs)
  <2>1. PICK n \in Nat : n = lib.gen
    BY DEF StorageType
  <2>2. wk' = [pc |-> "resolve", d |-> k, gen |-> n, sess |-> 0, rc |-> "OK", reset |-> FALSE]
    BY <2>1 DEF LoadRequest, IdleWorker
  <2> QED
    BY <2>1, <2>2 DEF Load, WorkerPcs, Codes
<1>5. res'.pc = "idle" /\ res' \in Load({"idle", "queued"})
  BY <1>1 DEF IdleWorker, Load, Codes
<1>6. left' \in [plugs : Drives, loads : Nat, sorts : Nat, fails : Nat]
  <2>1. PICK n \in Nat : n = left.loads - 1
    BY DEF LoadRequest, StorageType
  <2>2. left' = [left EXCEPT !.loads = n]
    BY <2>1 DEF LoadRequest
  <2> QED
    BY <2>2 DEF StorageType
<1>7. st' = st /\ announced' = announced /\ mount' = mount /\ ses' = ses
  BY <1>1 DEF storageVars
<1>8. StorageType'
  BY <1>1, <1>6 DEF StorageType, storageVars
<1>9. EngineType' /\ ViewType'
  BY <1>1, TypesKept
<1>10. LoadType'
  BY <1>1, <1>2, <1>4, <1>5 DEF LoadType
<1>11. GateInv'
  BY <1>1, GateKept
<1>12. FlightInv'
  BY <1>1, <1>2, <1>3, <1>4, <1>5 DEF FlightInv
<1>13. Wedged' <=> Wedged
  BY <1>1, WedgedKept
<1>14. LoadsInv'
  <2>1. lib.gen \in Nat /\ store.floor \in Nat /\ \A d \in Decks : store.mg[d] \in Nat
    BY DEF StorageType, ViewType
  <2> QED
    BY <1>1, <1>4, <1>5, <2>1 DEF LoadsInv, ViewInv
<1>15. ASSUME NEW d \in Decks
       PROVE  ~OwnSession(d)' /\ ~OwnSession(d) /\ ~BeingReset(d)' /\ ~BeingReset(d)
              /\ ~Retiring(d) /\ ~Retiring(d)'
  BY <1>3, <1>4, <1>5 DEF OwnSession, BeingReset, Retiring
<1>16. ViewInv'
  BY <1>1, <1>2, <1>7, <1>15 DEF ViewInv
<1>17. EngineInv'
  BY <1>1, <1>7, <1>13, <1>15 DEF EngineInv
<1>18. ASSUME ~Bounce PROVE SourceInv'
  BY <1>1, <1>7, <1>13, <1>15, <1>18 DEF SourceInv
<1> QED
  BY <1>8, <1>9, <1>10, <1>11, <1>12, <1>14, <1>16, <1>17, <1>18

\* The track is looked up, and the load found to be wanted or not.
LEMMA ResolveKeeps ==
  ASSUME IInv, Resolve
  PROVE  IInv'
<1> USE DEF IInv
<1>1. /\ wk.pc = "resolve" /\ UNCHANGED storageVars
      /\ UNCHANGED <<plug, drv, drvpc, lib, eng, gate, res, ui, shown, store>>
      /\ left' = left \/ (left.fails > 0 /\ left' = [left EXCEPT !.fails = @ - 1])
  BY DEF Resolve
<1>2. PICK p \in {"send", "reset"}, c \in Codes :
        \/ wk' = [wk EXCEPT !.pc = p, !.rc = c] /\ c # "OK"
        \/ wk' = [wk EXCEPT !.pc = p] /\ p = "reset"
  <2>1. "INVALID_STATE" \in Codes /\ "FAIL" \in Codes
    BY DEF Codes
  <2> QED
    BY <2>1 DEF Resolve
<1>3. /\ wk'.pc = p /\ wk' \in Load(WorkerPcs)
      /\ wk'.d = wk.d /\ wk'.gen = wk.gen /\ wk'.sess = wk.sess /\ wk'.reset = wk.reset
      /\ wk'.pc = "send" => wk'.rc # "OK"
  <2>1. p \in WorkerPcs
    BY DEF WorkerPcs
  <2> QED
    BY <1>2, <2>1 DEF LoadType, Load
<1> QED
  BY <1>1, <1>3, WorkerMoves

\* The deck is reset.  The store refuses only a load older than the removal that
\* cleared it, and then there is nothing left to clear.
LEMMA ResetDeckKeeps ==
  ASSUME IInv, ResetDeck
  PROVE  IInv'
<1> USE DEF IInv
<1>1. /\ wk.pc = "reset" /\ UNCHANGED storageVars
      /\ UNCHANGED <<plug, drv, drvpc, lib, eng, gate, res, ui, shown, left>>
  BY DEF ResetDeck
<1>2. wk.d \in Decks /\ wk.gen <= lib.gen /\ wk.sess = 0
  BY <1>1 DEF LoadsInv
<1>3. /\ wk.gen \in Nat /\ lib.gen \in Nat /\ store.floor \in Nat
      /\ \A d \in Decks : store.mg[d] \in Nat
  BY DEF StorageType, ViewType, LoadType, Load
<1>4. storeRefuses(wk.d, wk.gen) => \A d \in Decks : ~store.valid[d]
  BY <1>1, <1>2, <1>3 DEF storeRefuses, LoadsInv
<1>5. /\ wk' \in Load(WorkerPcs) /\ wk'.pc \in {"send", "load"}
      /\ wk'.d = wk.d /\ wk'.gen = wk.gen /\ wk'.sess = wk.sess /\ wk'.reset
  <2>1. PICK b \in BOOLEAN : b = TRUE
    OBVIOUS
  <2>2. PICK p \in {"send", "load"}, c \in Codes :
          wk' = [wk EXCEPT !.pc = p, !.reset = b, !.rc = c] \/ wk' = [wk EXCEPT !.pc = p, !.reset = b]
    <3>1. "INVALID_STATE" \in Codes
      BY DEF Codes
    <3> QED
      BY <2>1, <3>1 DEF ResetDeck
  <2>3. p \in WorkerPcs /\ wk \in Load(WorkerPcs)
    BY DEF WorkerPcs, LoadType
  <2>4. CASE wk' = [wk EXCEPT !.pc = p, !.reset = b, !.rc = c]
    BY <2>1, <2>3, <2>4 DEF Load
  <2>5. CASE wk' = [wk EXCEPT !.pc = p, !.reset = b]
    BY <2>1, <2>3, <2>5 DEF Load
  <2> QED
    BY <2>2, <2>4, <2>5
<1>6. /\ store' \in [floor : Nat, mg : [Decks -> Nat], valid : [Decks -> BOOLEAN]]
      /\ store'.floor = store.floor /\ ~store'.valid[wk.d]
      /\ \A d \in Decks : store'.mg[d] = store.mg[d] \/ store'.mg[d] = wk.gen
      /\ \A d \in Decks : store'.valid[d] => store.valid[d]
      /\ \A d \in Decks : d # wk.d => store'.valid[d] = store.valid[d]
  <2>1. CASE storeRefuses(wk.d, wk.gen)
    BY <1>2, <1>4, <2>1 DEF ResetDeck, ViewType
  <2>2. CASE ~storeRefuses(wk.d, wk.gen)
    <3>1. PICK m \in [Decks -> Nat] : m = [store.mg EXCEPT ![wk.d] = wk.gen]
      BY <1>3 DEF ViewType
    <3>2. PICK v \in [Decks -> BOOLEAN] : v = [store.valid EXCEPT ![wk.d] = FALSE]
      BY DEF ViewType
    <3>3. store' = [store EXCEPT !.mg = m, !.valid = v]
      BY <2>2, <3>1, <3>2 DEF ResetDeck
    <3>4. /\ store' \in [floor : Nat, mg : [Decks -> Nat], valid : [Decks -> BOOLEAN]]
          /\ store'.floor = store.floor /\ store'.mg = m /\ store'.valid = v
      BY <3>3 DEF ViewType
    <3>5. \A d \in Decks : m[d] = IF d = wk.d THEN wk.gen ELSE store.mg[d]
      BY <3>1 DEF ViewType
    <3>6. \A d \in Decks : v[d] = IF d = wk.d THEN FALSE ELSE store.valid[d]
      BY <3>2 DEF ViewType
    <3> QED
      BY <1>2, <3>4, <3>5, <3>6
  <2> QED
    BY <2>1, <2>2
<1>7. /\ StorageType' /\ LoadType' /\ GateInv' /\ FlightInv' /\ res.pc = "idle"
      /\ st' = st /\ announced' = announced /\ mount' = mount /\ ses' = ses
  BY <1>1, <1>5, WorkerFrame
<1>8. EngineType' /\ ViewType'
  BY <1>1, <1>6, TypesKept DEF ViewType
<1>9. Wedged' <=> Wedged
  BY <1>1, WedgedKept
<1>10. LoadsInv'
  BY <1>1, <1>2, <1>3, <1>5, <1>6, <1>7, <1>9 DEF LoadsInv
<1>11. ASSUME NEW d \in Decks
       PROVE  /\ OwnSession(d)' <=> OwnSession(d)
              /\ BeingReset(d) => d = wk.d
              /\ ~Retiring(d) /\ ~Retiring(d)'
  BY <1>1, <1>2, <1>5, <1>7 DEF OwnSession, BeingReset, Retiring
<1>12. ViewInv'
  <2>1. /\ store'.floor <= lib'.gen /\ \A d \in Decks : store'.mg[d] <= lib'.gen
    BY <1>1, <1>2, <1>6 DEF ViewInv
  <2>2. ASSUME NEW d \in Decks
        PROVE  store'.valid[d] = shown'[d] \/
                 (~store'.valid[d] /\ (st'.pc = "notify" \/ ui'.removed \/ BeingReset(d)'))
    <3>1. CASE d = wk.d
      <4>1. BeingReset(d)'
        BY <1>5, <3>1 DEF BeingReset
      <4> QED
        BY <1>6, <3>1, <4>1
    <3>2. CASE d # wk.d
      BY <1>1, <1>6, <1>7, <1>11, <3>2 DEF ViewInv
    <3> QED
      BY <3>1, <3>2
  <2> QED
    BY <1>1, <1>6, <1>7, <2>1, <2>2 DEF ViewInv
<1>13. EngineInv'
  BY <1>1, <1>7, <1>9, <1>11 DEF EngineInv
<1>14. ASSUME ~Bounce PROVE SourceInv'
  BY <1>1, <1>7, <1>9, <1>11, <1>14 DEF SourceInv
<1> QED
  BY <1>7, <1>8, <1>10, <1>12, <1>13, <1>14

\* A session is made, unless the barrier is closed or something fails.
LEMMA LoadSessionKeeps ==
  ASSUME IInv, LoadSession
  PROVE  IInv'
<1> USE DEF IInv
<1>1. /\ wk.pc = "load" /\ UNCHANGED storageVars
      /\ UNCHANGED <<plug, drv, drvpc, lib, gate, res, ui, shown, store>>
      /\ left' = left \/ (left.fails > 0 /\ left' = [left EXCEPT !.fails = @ - 1])
  BY DEF LoadSession
<1>2. PICK k \in Decks : k = wk.d
  BY <1>1 DEF LoadsInv
<1>3. wk.sess = 0 /\ wk.reset
  BY <1>1 DEF LoadsInv
<1>4. CASE UNCHANGED eng /\ wk' = [wk EXCEPT !.pc = "send", !.rc = "INVALID_STATE"]
  <2>1. PICK p \in WorkerPcs : p = "send"
    BY DEF WorkerPcs
  <2>2. PICK c \in Codes : c = "INVALID_STATE"
    BY DEF Codes
  <2>3. wk' = [wk EXCEPT !.pc = p, !.rc = c]
    BY <1>4, <2>1, <2>2
  <2>4. /\ wk'.pc = "send" /\ wk' \in Load(WorkerPcs)
        /\ wk'.d = wk.d /\ wk'.gen = wk.gen /\ wk'.sess = wk.sess /\ wk'.reset = wk.reset
    BY <2>1, <2>3 DEF LoadType, Load
  <2> QED
    BY <1>1, <1>4, <2>4, WorkerMoves
<1> DEFINE e == Stopped({k}, eng)
<1>5. /\ e \in Engines /\ e.blocked = eng.blocked /\ e.stuck = eng.stuck
      /\ e.gen[k] = eng.gen[k] + 1 /\ eng.gen[k] \in Nat
      /\ e.on[k] <=> eng.on[k] /\ eng.stuck[k]
      /\ e.src[k] = IF ~eng.stuck[k] THEN 0 ELSE eng.src[k]
      /\ \A d \in Decks : d # k =>
           e.gen[d] = eng.gen[d] /\ (e.on[d] <=> eng.on[d]) /\ e.src[d] = eng.src[d]
  <2>1. eng \in Engines
    BY DEF EngineType
  <2>2. eng.gen[k] \in Nat
    BY <2>1 DEF Engines
  <2> QED
    BY <2>1, <2>2, StoppedFacts
<1> HIDE DEF e
<1>6. PICK n \in Nat : n = e.gen[k] /\ n # 0
  BY <1>5
<1>7. ASSUME ~eng.blocked, NEW p \in {"check", "send"}, NEW c \in Codes,
             wk' = [wk EXCEPT !.pc = p, !.sess = n, !.rc = c],
             eng' \in Engines, eng'.blocked = eng.blocked, eng'.stuck = eng.stuck,
             eng'.gen = e.gen, eng'.src = e.src,
             \A d \in Decks : d # k => (eng'.on[d] <=> eng.on[d]),
             eng.stuck[k] => eng'.on[k] = e.on[k],
             p = "send" => (eng'.on[k] <=> eng.on[k] /\ eng.stuck[k])
      PROVE  IInv'
  <2>1. /\ wk'.pc = p /\ wk' \in Load(WorkerPcs) /\ wk'.d = k /\ wk'.gen = wk.gen
        /\ wk'.sess = n /\ wk'.reset
    <3>1. p \in WorkerPcs
      BY DEF WorkerPcs
    <3> QED
      BY <1>2, <1>3, <1>7, <3>1 DEF LoadType, Load
  <2>2. /\ StorageType' /\ LoadType' /\ GateInv' /\ FlightInv' /\ res.pc = "idle"
        /\ st' = st /\ announced' = announced /\ mount' = mount /\ ses' = ses
    BY <1>1, <2>1, WorkerFrame
  <2>3. EngineType' /\ ViewType'
    BY <1>1, <1>7, TypesKept DEF EngineType
  <2>4. Wedged' <=> Wedged
    BY <1>7, WedgedKept
  <2>5. LoadsInv'
    BY <1>1, <1>2, <1>3, <1>6, <1>7, <2>1, <2>2 DEF LoadsInv
  <2>6. ASSUME NEW d \in Decks
        PROVE  /\ ~OwnSession(d) /\ (BeingReset(d)' <=> BeingReset(d)) /\ ~Retiring(d)
               /\ OwnSession(d)' <=> d = k
    BY <1>1, <1>2, <1>3, <1>6, <2>1, <2>2 DEF OwnSession, BeingReset, Retiring
  <2>7. ViewInv'
    BY <1>1, <2>2, <2>6 DEF ViewInv
  <2>8. ~Wedged => ~eng.stuck[k] /\ st.pc \notin {"clear", "tracks", "notify"}
    BY <1>7 DEF Wedged, EngineInv
  <2>9. EngineInv'
    <3>1. ASSUME NEW d \in Decks, eng'.src[d] # 0 PROVE eng'.on[d]
      <4>1. CASE d # k
        BY <1>5, <1>7, <3>1, <4>1 DEF EngineInv
      <4>2. CASE d = k
        BY <1>5, <1>7, <3>1, <4>2 DEF EngineInv
      <4> QED
        BY <4>1, <4>2
    <3>2. ASSUME ~Wedged, NEW d \in Decks, eng'.on[d]
          PROVE  (shown[d] /\ ~ui.removed) \/ d = k
      BY <1>7, <2>6, <3>2 DEF EngineInv
    <3> QED
      BY <1>1, <2>2, <2>4, <2>6, <2>8, <3>1, <3>2 DEF EngineInv
  <2>10. ASSUME ~Bounce PROVE SourceInv'
    <3>1. ASSUME ~Wedged, NEW d \in Decks, eng'.src[d] # 0 PROVE eng'.src[d] = mount
      <4>1. d # k
        BY <1>5, <1>7, <2>8, <3>1
      <4> QED
        BY <1>5, <1>7, <2>6, <2>10, <3>1, <4>1 DEF SourceInv
    <3>2. ASSUME ~Wedged, ~announced, st.pc # "suspend", NEW d \in Decks, eng'.on[d]
          PROVE  Retiring(d)'
      <4>1. d = k
        BY <1>7, <2>6, <2>10, <3>2 DEF SourceInv
      <4>2. p = "check"
        BY <1>7, <2>8, <3>2, <4>1
      <4>3. wk.gen # lib.gen
        BY <1>1, <2>8, <2>10, <3>2 DEF SourceInv, LoadsInv
      <4> QED
        BY <1>1, <2>1, <4>1, <4>2, <4>3 DEF Retiring
    <3> QED
      BY <1>1, <2>2, <2>4, <2>10, <3>1, <3>2 DEF SourceInv
  <2> QED
    BY <2>2, <2>3, <2>5, <2>7, <2>9, <2>10
<1>8. CASE /\ ~eng.blocked /\ ~eng.stuck[k] /\ eng' = [e EXCEPT !.on[k] = TRUE]
           /\ wk' = [wk EXCEPT !.pc = "check", !.sess = e.gen[k]]
  <2>1. PICK o \in [Decks -> BOOLEAN] : o = [e.on EXCEPT ![k] = TRUE]
    BY <1>5 DEF Engines
  <2>2. eng' = [e EXCEPT !.on = o]
    BY <1>8, <2>1
  <2>3. /\ eng' \in Engines /\ eng'.blocked = e.blocked /\ eng'.stuck = e.stuck
        /\ eng'.gen = e.gen /\ eng'.src = e.src /\ eng'.on = o
    BY <1>5, <2>2 DEF Engines
  <2>4. \A d \in Decks : d # k => o[d] = e.on[d]
    BY <1>5, <2>1 DEF Engines
  <2>5. PICK c \in Codes : c = wk.rc
    BY DEF LoadType, Load
  <2>6. PICK p \in {"check", "send"} : p = "check"
    OBVIOUS
  <2>7. wk' = [wk EXCEPT !.pc = p, !.sess = n, !.rc = c]
    BY <1>6, <1>8, <2>5, <2>6 DEF LoadType, Load
  <2> QED
    BY <1>5, <1>7, <1>8, <2>3, <2>4, <2>6, <2>7
<1>9. CASE /\ ~eng.blocked /\ eng' = e
           /\ wk' = [wk EXCEPT !.pc = "send", !.sess = e.gen[k], !.rc = "FAIL"]
  <2>1. PICK c \in Codes : c = "FAIL"
    BY DEF Codes
  <2>2. PICK p \in {"check", "send"} : p = "send"
    OBVIOUS
  <2>3. wk' = [wk EXCEPT !.pc = p, !.sess = n, !.rc = c]
    BY <1>6, <1>9, <2>1, <2>2
  <2> QED
    BY <1>5, <1>7, <1>9, <2>3
<1> QED
  BY <1>2, <1>4, <1>8, <1>9 DEF LoadSession, e

\* Stopping the session with the number n, if it is still that one.
LEMMA StopSessionFacts ==
  ASSUME EngineType, EngineInv, NEW k \in Decks, NEW n \in Nat, StopSession(k, n) \/ DeckStop(k)
  PROVE  /\ eng' \in Engines /\ eng'.stuck = eng.stuck /\ eng'.blocked = eng.blocked
         /\ \A d \in Decks : /\ eng'.on[d] => eng.on[d]
                             /\ eng'.src[d] # 0 => eng'.on[d] /\ eng'.src[d] = eng.src[d]
                             /\ d # k => eng'.gen[d] = eng.gen[d]
         /\ StopSession(k, n) /\ n # 0 /\ eng.gen[k] = n /\ ~Wedged => ~eng'.on[k]
         /\ DeckStop(k) /\ ~Wedged => ~eng'.on[k]
<1>1. eng \in Engines
  BY DEF EngineType
<1> DEFINE e == Stopped({k}, eng)
<1>2. /\ e \in Engines /\ e.stuck = eng.stuck /\ e.blocked = eng.blocked
      /\ \A d \in Decks : /\ e.on[d] => eng.on[d]
                          /\ e.src[d] # 0 => e.on[d] /\ e.src[d] = eng.src[d]
                          /\ d # k => e.gen[d] = eng.gen[d]
      /\ ~eng.stuck[k] => ~e.on[k]
  <2>1. /\ e \in Engines /\ e.blocked = eng.blocked /\ e.stuck = eng.stuck
        /\ \A d \in Decks :
             /\ e.gen[d] = IF d \in {k} THEN eng.gen[d] + 1 ELSE eng.gen[d]
             /\ e.on[d] <=> eng.on[d] /\ ~(d \in {k} /\ ~eng.stuck[d])
             /\ e.src[d] = IF d \in {k} /\ ~eng.stuck[d] THEN 0 ELSE eng.src[d]
    BY <1>1, StoppedFacts
  <2> HIDE DEF e
  <2>2. \A d \in Decks : eng.src[d] # 0 => eng.on[d]
    BY DEF EngineInv
  <2> QED
    BY <2>1, <2>2
<1>3. \A d \in Decks : eng.src[d] # 0 => eng.on[d]
  BY DEF EngineInv
<1>4. eng' = e \/ eng' = eng
  BY DEF StopSession, DeckStop
<1>5. StopSession(k, n) /\ n # 0 /\ eng.gen[k] = n => eng' = e
  BY DEF StopSession
<1>6. DeckStop(k) => eng' = e
  BY DEF DeckStop
<1>7. ~Wedged => ~eng.stuck[k]
  BY DEF Wedged
<1> HIDE DEF e
<1> QED
  BY <1>1, <1>2, <1>3, <1>4, <1>5, <1>6, <1>7

\* The session is kept, or retired because its catalog is gone.
LEMMA RecheckKeeps ==
  ASSUME IInv, Recheck
  PROVE  IInv'
<1> USE DEF IInv
<1>1. /\ wk.pc = "check" /\ UNCHANGED storageVars
      /\ UNCHANGED <<plug, drv, drvpc, lib, gate, res, ui, shown, store, left>>
  BY DEF Recheck
<1>2. PICK k \in Decks : k = wk.d
  BY <1>1 DEF LoadsInv
<1>3. PICK n \in Nat : n = wk.sess /\ n # 0
  BY <1>1 DEF LoadsInv, LoadType, Load
<1>4. PICK p \in WorkerPcs : p = "send"
  BY DEF WorkerPcs
<1>5. CASE wk.gen = lib.gen /\ wk' = [wk EXCEPT !.pc = "send"] /\ UNCHANGED eng
  <2>1. wk' = [wk EXCEPT !.pc = p]
    BY <1>4, <1>5
  <2>2. /\ wk'.pc = "send" /\ wk' \in Load(WorkerPcs)
        /\ wk'.d = wk.d /\ wk'.gen = wk.gen /\ wk'.sess = wk.sess /\ wk'.reset = wk.reset
    BY <1>4, <2>1 DEF LoadType, Load
  <2> QED
    BY <1>1, <1>5, <2>2, WorkerMoves DEF LoadsInv
<1>6. CASE StopSession(k, n) /\ wk' = [wk EXCEPT !.pc = "send", !.rc = "INVALID_STATE"]
  <2>1. PICK c \in Codes : c = "INVALID_STATE"
    BY DEF Codes
  <2>2. wk' = [wk EXCEPT !.pc = p, !.rc = c]
    BY <1>4, <1>6, <2>1
  <2>3. /\ wk'.pc = "send" /\ wk' \in Load(WorkerPcs)
        /\ wk'.d = wk.d /\ wk'.gen = wk.gen /\ wk'.sess = wk.sess /\ wk'.reset = wk.reset
    BY <1>4, <2>2 DEF LoadType, Load
  <2>4. /\ eng' \in Engines /\ eng'.stuck = eng.stuck /\ eng'.blocked = eng.blocked
        /\ \A d \in Decks : /\ eng'.on[d] => eng.on[d]
                            /\ eng'.src[d] # 0 => eng'.on[d] /\ eng'.src[d] = eng.src[d]
                            /\ d # k => eng'.gen[d] = eng.gen[d]
        /\ n # 0 /\ eng.gen[k] = n /\ ~Wedged => ~eng'.on[k]
    BY <1>6, StopSessionFacts
  <2>5. ~Wedged => ~eng'.on[k]
    BY <1>1, <1>2, <1>3, <2>4 DEF LoadsInv
  <2>6. /\ StorageType' /\ LoadType' /\ GateInv' /\ FlightInv' /\ res.pc = "idle"
        /\ st' = st /\ announced' = announced /\ mount' = mount /\ ses' = ses
    BY <1>1, <2>3, WorkerFrame
  <2>7. EngineType' /\ ViewType'
    BY <1>1, <2>4, TypesKept DEF EngineType
  <2>8. Wedged' <=> Wedged
    BY <2>4, WedgedKept
  <2>9. LoadsInv'
    BY <1>1, <1>2, <2>3, <2>5, <2>6, <2>8 DEF LoadsInv
  <2>10. ASSUME NEW d \in Decks
         PROVE  /\ OwnSession(d)' <=> OwnSession(d)
                /\ BeingReset(d)' <=> BeingReset(d)
                /\ Retiring(d) => d = k
    BY <1>1, <1>2, <2>3, <2>6 DEF OwnSession, BeingReset, Retiring
  <2>11. ViewInv'
    BY <1>1, <2>6, <2>10 DEF ViewInv
  <2>12. EngineInv'
    BY <1>1, <2>4, <2>6, <2>8, <2>10 DEF EngineInv
  <2>13. ASSUME ~Bounce PROVE SourceInv'
    BY <1>1, <2>4, <2>5, <2>6, <2>8, <2>10, <2>13 DEF SourceInv
  <2> QED
    BY <2>6, <2>7, <2>9, <2>11, <2>12, <2>13
<1> QED
  BY <1>2, <1>3, <1>5, <1>6 DEF Recheck

\* The result takes the worker's place.
LEMMA SendKeeps ==
  ASSUME IInv, Send
  PROVE  IInv'
<1> USE DEF IInv
<1>1. /\ wk.pc = "send" /\ UNCHANGED storageVars /\ wk' = IdleWorker
      /\ UNCHANGED <<plug, drv, drvpc, lib, eng, gate, ui, shown, store, left>>
  BY DEF Send
<1>2. PICK p \in {"idle", "queued"} : p = "queued"
  OBVIOUS
<1>3. res' = [wk EXCEPT !.pc = p]
  BY <1>2 DEF Send
<1>4. /\ res'.pc = "queued" /\ res' \in Load({"idle", "queued"})
      /\ res'.d = wk.d /\ res'.gen = wk.gen /\ res'.sess = wk.sess /\ res'.reset = wk.reset
      /\ res'.rc = wk.rc
  BY <1>2, <1>3 DEF LoadType, Load
<1>5. wk'.pc = "idle" /\ wk' \in Load(WorkerPcs) /\ res.pc = "idle"
  BY <1>1 DEF IdleWorker, Load, Codes, WorkerPcs, FlightInv
<1>6. st' = st /\ announced' = announced /\ mount' = mount /\ ses' = ses
  BY <1>1 DEF storageVars
<1>7. StorageType' /\ EngineType' /\ ViewType' /\ GateInv'
  BY <1>1, TypesKept, GateKept
<1>8. LoadType'
  BY <1>1, <1>4, <1>5 DEF LoadType
<1>9. FlightInv'
  BY <1>1, <1>4, <1>5 DEF FlightInv
<1>10. Wedged' <=> Wedged
  BY <1>1, WedgedKept
<1>11. LoadsInv'
  BY <1>1, <1>4, <1>5, <1>10 DEF LoadsInv
<1>12. ASSUME NEW d \in Decks
       PROVE  /\ OwnSession(d)' <=> OwnSession(d)
              /\ BeingReset(d)' <=> BeingReset(d)
              /\ ~Retiring(d)
  BY <1>1, <1>4, <1>5 DEF OwnSession, BeingReset, Retiring
<1>13. ViewInv'
  BY <1>1, <1>6, <1>12 DEF ViewInv
<1>14. EngineInv'
  BY <1>1, <1>6, <1>10, <1>12 DEF EngineInv
<1>15. ASSUME ~Bounce PROVE SourceInv'
  BY <1>1, <1>6, <1>10, <1>12, <1>15 DEF SourceInv
<1> QED
  BY <1>7, <1>8, <1>9, <1>11, <1>13, <1>14, <1>15

-----------------------------------------------------------------------------
(* The LVGL task.                                                           *)

\* The screen learns of a removal.
LEMMA UiUpdateKeeps ==
  ASSUME IInv, UiUpdate
  PROVE  IInv'
<1> USE DEF IInv
<1>1. /\ ui.pc = "idle" /\ UNCHANGED storageVars
      /\ UNCHANGED <<plug, drv, drvpc, lib, eng, wk, res, store, left>>
      /\ ui' = [pc |-> "poll", removed |-> FALSE]
  BY DEF UiUpdate
<1>2. ui'.pc = "poll" /\ ~ui'.removed /\ ui' \in [pc : {"idle", "poll", "publish"}, removed : BOOLEAN]
  BY <1>1
<1>3. /\ gate' \in [busy : BOOLEAN, cancelled : BOOLEAN] /\ gate'.busy = gate.busy
      /\ gate'.cancelled => gate.busy
      /\ shown' \in [Decks -> BOOLEAN]
      /\ ui.removed => \A d \in Decks : ~shown'[d]
      /\ ~ui.removed => gate' = gate /\ shown' = shown
  <2>1. CASE ui.removed
    <3>1. PICK b \in BOOLEAN : b = gate.busy
      BY DEF LoadType
    <3>2. gate' = [gate EXCEPT !.cancelled = b] /\ shown' = [d \in Decks |-> FALSE]
      BY <2>1, <3>1 DEF UiUpdate, Invalidate
    <3> QED
      BY <2>1, <3>1, <3>2 DEF LoadType
  <2>2. CASE ~ui.removed
    BY <2>2 DEF UiUpdate, LoadType, ViewType, FlightInv
  <2> QED
    BY <2>1, <2>2
<1>4. st' = st /\ announced' = announced /\ mount' = mount /\ ses' = ses
  BY <1>1 DEF storageVars
<1>5. StorageType' /\ EngineType' /\ GateInv'
  BY <1>1, TypesKept, GateKept
<1>6. LoadType'
  BY <1>1, <1>2, <1>3 DEF LoadType
<1>7. ViewType'
  BY <1>1, <1>3 DEF ViewType
<1>8. FlightInv'
  BY <1>1, <1>2, <1>3 DEF FlightInv
<1>9. Wedged' <=> Wedged
  BY <1>1, WedgedKept
<1>10. LoadsInv'
  BY <1>1, LoadsKept
<1>11. ASSUME NEW d \in Decks
       PROVE  /\ OwnSession(d)' <=> OwnSession(d)
              /\ BeingReset(d)' <=> BeingReset(d)
  BY <1>1 DEF OwnSession, BeingReset
<1>12. ViewInv'
  <2>1. CASE ui.removed
    <3>1. \A d \in Decks : store.valid[d] \in BOOLEAN /\ ~store.valid[d] /\ shown'[d] \in BOOLEAN
      BY <1>3, <2>1 DEF ViewInv, ViewType
    <3> QED
      BY <1>1, <1>2, <1>3, <1>4, <2>1, <3>1 DEF ViewInv
  <2>2. CASE ~ui.removed
    BY <1>1, <1>2, <1>3, <1>4, <1>11, <2>2 DEF ViewInv
  <2> QED
    BY <2>1, <2>2
<1>13. EngineInv'
  BY <1>1, <1>2, <1>3, <1>4, <1>9, <1>11 DEF EngineInv
<1>14. ASSUME ~Bounce PROVE SourceInv'
  BY <1>1, <1>14, SourceKept
<1> QED
  BY <1>5, <1>6, <1>7, <1>8, <1>10, <1>12, <1>13, <1>14

\* A result is disposed of: what is left on the screen, in the store and in the
\* engine agrees, but for a removal that the screen has not been told of.
LEMMA FinishKeeps ==
  ASSUME IInv, res.pc = "queued", Finish("poll"),
         UNCHANGED <<plug, drv, drvpc, lib, wk>>, UNCHANGED storageVars,
         left' \in [plugs : Drives, loads : Nat, sorts : Nat, fails : Nat],
         EngineType', ViewType', eng'.stuck = eng.stuck, eng'.blocked = eng.blocked,
         \A d \in Decks : /\ eng'.on[d] => eng.on[d]
                          /\ eng'.src[d] # 0 => eng'.on[d] /\ eng'.src[d] = eng.src[d],
         ~Wedged => \A d \in Decks : eng'.on[d] => shown'[d] /\ ~ui.removed,
         store'.floor = store.floor, \A d \in Decks : store'.mg[d] <= lib.gen,
         st.pc = "notify" \/ ui.removed => \A d \in Decks : ~store'.valid[d],
         \A d \in Decks : store'.valid[d] = shown'[d] \/
           (~store'.valid[d] /\ (st.pc = "notify" \/ ui.removed))
  PROVE  IInv'
<1> USE DEF IInv
<1>1. /\ gate' \in [busy : BOOLEAN, cancelled : BOOLEAN] /\ ~gate'.busy /\ ~gate'.cancelled
  BY DEF Finish
<1>2. res'.pc = "idle" /\ res' \in Load({"idle", "queued"}) /\ wk.pc = "idle"
  BY DEF Finish, IdleWorker, Load, Codes, FlightInv
<1>3. /\ ui'.pc = "poll" /\ ui'.removed = ui.removed
      /\ ui' \in [pc : {"idle", "poll", "publish"}, removed : BOOLEAN]
  <2>1. PICK p \in {"idle", "poll", "publish"} : p = "poll"
    OBVIOUS
  <2>2. ui' = [ui EXCEPT !.pc = p]
    BY <2>1 DEF Finish
  <2> QED
    BY <2>1, <2>2 DEF LoadType
<1>4. st' = st /\ announced' = announced /\ mount' = mount /\ ses' = ses
  BY DEF storageVars
<1>5. StorageType' /\ GateInv'
  BY GateKept DEF StorageType, storageVars
<1>6. LoadType'
  BY <1>1, <1>2, <1>3 DEF LoadType
<1>7. FlightInv'
  BY <1>1, <1>2, <1>3 DEF FlightInv
<1>8. Wedged' <=> Wedged
  BY WedgedKept
<1>9. LoadsInv'
  BY <1>2 DEF LoadsInv
<1>10. ASSUME NEW d \in Decks PROVE ~OwnSession(d)' /\ ~BeingReset(d)' /\ ~Retiring(d)
  BY <1>2 DEF OwnSession, BeingReset, Retiring
<1>11. ViewInv'
  BY <1>1, <1>3, <1>4, <1>10 DEF ViewInv
<1>12. EngineInv'
  BY <1>3, <1>4, <1>8, <1>10 DEF EngineInv
<1>13. ASSUME ~Bounce PROVE SourceInv'
  BY <1>4, <1>8, <1>10, <1>13 DEF SourceInv
<1> QED
  BY <1>5, <1>6, <1>7, <1>9, <1>11, <1>12, <1>13

\* The LVGL task only moves on.
LEMMA UiMoves ==
  ASSUME IInv, UNCHANGED <<plug, drv, drvpc, lib, eng, gate, wk, res, shown, store, left>>,
         UNCHANGED storageVars, NEW p \in {"idle", "publish"}, ui' = [ui EXCEPT !.pc = p],
         p = "publish" => res.pc = "queued" /\ res.rc = "OK"
  PROVE  IInv'
<1> USE DEF IInv
<1>1. /\ ui'.pc = p /\ ui'.removed = ui.removed
      /\ ui' \in [pc : {"idle", "poll", "publish"}, removed : BOOLEAN]
  BY DEF LoadType
<1>2. st' = st /\ announced' = announced
  BY DEF storageVars
<1>3. StorageType' /\ EngineType' /\ ViewType' /\ GateInv' /\ LoadsInv'
  BY TypesKept, GateKept, LoadsKept
<1>4. LoadType'
  BY <1>1 DEF LoadType
<1>5. FlightInv'
  BY <1>1 DEF FlightInv
<1>6. ASSUME NEW d \in Decks
      PROVE  (OwnSession(d)' <=> OwnSession(d)) /\ (BeingReset(d)' <=> BeingReset(d))
  BY DEF OwnSession, BeingReset
<1>7. ViewInv'
  BY <1>1, <1>2, <1>6 DEF ViewInv
<1>8. Wedged' <=> Wedged
  BY WedgedKept
<1>9. EngineInv'
  BY <1>1, <1>2, <1>6, <1>8 DEF EngineInv
<1>10. ~Bounce => SourceInv'
  BY SourceKept
<1> QED
  BY <1>3, <1>4, <1>5, <1>7, <1>9, <1>10

\* What is known of the LOAD whose result is queued.
LEMMA QueuedFacts ==
  ASSUME IInv, res.pc = "queued"
  PROVE  /\ res.d \in Decks /\ res.gen \in Nat /\ res.sess \in Nat /\ res.reset \in BOOLEAN
         /\ res.gen <= lib.gen /\ (res.gen = lib.gen => lib.media # 0)
         /\ gate.busy /\ wk.pc = "idle"
         /\ res.sess # 0 => res.reset
         /\ res.sess # 0 /\ ~Wedged /\ eng.on[res.d] => eng.gen[res.d] = res.sess
         /\ res.reset => ~store.valid[res.d]
         /\ \A d \in Decks : OwnSession(d) => d = res.d /\ res.sess # 0
         /\ \A d \in Decks : BeingReset(d) => d = res.d /\ res.reset
<1> USE DEF IInv
<1>1. gate.busy /\ wk.pc = "idle"
  BY DEF FlightInv
<1>2. res.gen \in Nat /\ res.sess \in Nat /\ res.reset \in BOOLEAN
  BY DEF LoadType, Load
<1>3. /\ res.d \in Decks /\ res.gen <= lib.gen /\ (res.gen = lib.gen => lib.media # 0)
      /\ res.sess # 0 => res.reset
      /\ res.sess # 0 /\ ~Wedged /\ eng.on[res.d] => eng.gen[res.d] = res.sess
      /\ res.reset => ~store.valid[res.d]
  BY DEF LoadsInv
<1>4. ASSUME NEW d \in Decks
      PROVE  /\ OwnSession(d) => d = res.d /\ res.sess # 0
             /\ BeingReset(d) => d = res.d /\ res.reset
  BY <1>1 DEF OwnSession, BeingReset
<1> QED
  BY <1>1, <1>2, <1>3, <1>4

\* Results of loads that are not to be published.
LEMMA UiPollKeeps ==
  ASSUME IInv, UiPoll
  PROVE  IInv'
<1> USE DEF IInv
<1>1. /\ UNCHANGED <<plug, drv, drvpc, lib, wk, store, left>> /\ UNCHANGED storageVars
      /\ left' \in [plugs : Drives, loads : Nat, sorts : Nat, fails : Nat]
  BY DEF UiPoll, StorageType
<1>2. CASE /\ UNCHANGED <<eng, gate, res, shown>>
           /\ \/ ui' = [ui EXCEPT !.pc = "idle"]
              \/ res.pc = "queued" /\ res.rc = "OK" /\ ui' = [ui EXCEPT !.pc = "publish"]
  BY <1>1, <1>2, UiMoves
<1>3. ASSUME res.pc = "queued"
      PROVE  /\ \A d \in Decks : store.mg[d] <= lib.gen
             /\ \A d \in Decks : store.valid[d] \in BOOLEAN /\ shown[d] \in BOOLEAN
             /\ st.pc = "notify" \/ ui.removed => \A d \in Decks : ~store.valid[d]
             /\ \A d \in Decks : ~BeingReset(d) =>
                  \/ store.valid[d] = shown[d]
                  \/ ~store.valid[d] /\ (st.pc = "notify" \/ ui.removed)
             /\ ~Wedged => \A d \in Decks : eng.on[d] => (shown[d] /\ ~ui.removed) \/ OwnSession(d)
  BY DEF ViewInv, ViewType, EngineInv
<1>4. CASE res.pc = "queued" /\ ~IsCurrent /\ StopSession(res.d, res.sess) /\ Finish("poll")
           /\ UNCHANGED shown
  <2>1. PICK k \in Decks, n \in Nat : k = res.d /\ n = res.sess
    BY <1>4, QueuedFacts
  <2>2. StopSession(k, n)
    BY <1>4, <2>1
  <2>3. /\ eng' \in Engines /\ eng'.stuck = eng.stuck /\ eng'.blocked = eng.blocked
        /\ \A d \in Decks : /\ eng'.on[d] => eng.on[d]
                            /\ eng'.src[d] # 0 => eng'.on[d] /\ eng'.src[d] = eng.src[d]
        /\ n # 0 /\ eng.gen[k] = n /\ ~Wedged => ~eng'.on[k]
    BY <2>2, StopSessionFacts
  <2>4. EngineType' /\ ViewType'
    BY <1>1, <1>4, <2>3, TypesKept DEF EngineType
  <2>5. \A d \in Decks : ~shown[d]
    BY <1>4, QueuedFacts DEF IsCurrent, ViewInv
  <2>6. ASSUME ~Wedged, NEW d \in Decks, eng'.on[d] PROVE shown'[d] /\ ~ui.removed
    BY <1>3, <1>4, <2>1, <2>3, <2>6, QueuedFacts
  <2>7. ASSUME NEW d \in Decks
        PROVE  store'.valid[d] = shown'[d] \/
                 (~store'.valid[d] /\ (st.pc = "notify" \/ ui.removed))
    <3>1. CASE BeingReset(d)
      <4>1. ~store.valid[d]
        BY <1>4, <3>1, QueuedFacts
      <4> QED
        BY <1>1, <1>3, <1>4, <2>5, <4>1
    <3>2. CASE ~BeingReset(d)
      BY <1>1, <1>3, <1>4, <3>2
    <3> QED
      BY <3>1, <3>2
  <2> QED
    BY <1>1, <1>3, <1>4, <2>3, <2>4, <2>6, <2>7, FinishKeeps
<1>5. CASE /\ res.pc = "queued" /\ Finish("poll") /\ ~res.reset /\ UNCHANGED <<eng, shown>>
  <2>1. \A d \in Decks : ~OwnSession(d) /\ ~BeingReset(d)
    BY <1>5, QueuedFacts
  <2>2. \A d \in Decks : eng.src[d] # 0 => eng.on[d]
    BY DEF EngineInv
  <2>3. EngineType' /\ ViewType'
    BY <1>1, <1>5, TypesKept
  <2> QED
    BY <1>1, <1>3, <1>5, <2>1, <2>2, <2>3, FinishKeeps
<1>6. CASE /\ res.pc = "queued" /\ Finish("poll") /\ res.reset
           /\ shown' = [shown EXCEPT ![res.d] = FALSE]
           /\ (res.sess # 0 /\ StopSession(res.d, res.sess)) \/ DeckStop(res.d)
  <2>1. PICK k \in Decks, n \in Nat : k = res.d /\ n = res.sess
    BY <1>6, QueuedFacts
  <2>2. (n # 0 /\ StopSession(k, n)) \/ DeckStop(k)
    BY <1>6, <2>1
  <2>3. /\ eng' \in Engines /\ eng'.stuck = eng.stuck /\ eng'.blocked = eng.blocked
        /\ \A d \in Decks : /\ eng'.on[d] => eng.on[d]
                            /\ eng'.src[d] # 0 => eng'.on[d] /\ eng'.src[d] = eng.src[d]
        /\ StopSession(k, n) /\ n # 0 /\ eng.gen[k] = n /\ ~Wedged => ~eng'.on[k]
        /\ DeckStop(k) /\ ~Wedged => ~eng'.on[k]
    BY <2>2, StopSessionFacts
  <2>4. ~Wedged => ~eng'.on[k]
    BY <1>6, <2>1, <2>2, <2>3, QueuedFacts
  <2>5. /\ shown' \in [Decks -> BOOLEAN]
        /\ \A d \in Decks : shown'[d] = IF d = k THEN FALSE ELSE shown[d]
    BY <1>6, <2>1 DEF ViewType
  <2>6. EngineType'
    BY <2>3 DEF EngineType
  <2>7. ViewType'
    BY <1>1, <2>5 DEF ViewType
  <2>8. ASSUME NEW d \in Decks, d # k PROVE ~OwnSession(d) /\ ~BeingReset(d)
    BY <1>6, <2>1, <2>8, QueuedFacts
  <2>9. ASSUME ~Wedged, NEW d \in Decks, eng'.on[d] PROVE shown'[d] /\ ~ui.removed
    BY <1>3, <1>6, <2>3, <2>4, <2>5, <2>8, <2>9
  <2>10. ~store.valid[k] /\ store.valid[k] \in BOOLEAN
    BY <1>3, <1>6, <2>1, QueuedFacts
  <2>11. ASSUME NEW d \in Decks
         PROVE  store'.valid[d] = shown'[d] \/
                  (~store'.valid[d] /\ (st.pc = "notify" \/ ui.removed))
    BY <1>1, <1>3, <1>6, <2>5, <2>8, <2>10
  <2> QED
    BY <1>1, <1>3, <1>6, <2>3, <2>6, <2>7, <2>9, <2>11, FinishKeeps
<1>7. CASE res.pc = "queued" /\ StaleResult /\ Finish("poll")
  BY <1>5, <1>6, <1>7, QueuedFacts DEF StaleResult
<1>8. CASE /\ res.pc = "queued" /\ Finish("poll")
           /\ IF res.reset
              THEN DeckStop(res.d) /\ shown' = [shown EXCEPT ![res.d] = FALSE]
              ELSE UNCHANGED <<eng, shown>>
  BY <1>5, <1>6, <1>8, QueuedFacts
<1> QED
  BY <1>2, <1>4, <1>7, <1>8 DEF UiPoll

\* The track is published, unless the store knows of a later removal.
LEMMA UiPublishKeeps ==
  ASSUME IInv, UiPublish
  PROVE  IInv'
<1> USE DEF IInv
<1>1. /\ UNCHANGED <<plug, drv, drvpc, lib, wk>> /\ UNCHANGED storageVars /\ Finish("poll")
      /\ res.pc = "queued" /\ res.rc = "OK"
      /\ left' \in [plugs : Drives, loads : Nat, sorts : Nat, fails : Nat]
  BY DEF UiPublish, FlightInv, StorageType
<1>2. PICK k \in Decks, n \in Nat : k = res.d /\ n = res.gen
  BY <1>1, QueuedFacts
<1>3. /\ \A d \in Decks : store.mg[d] <= lib.gen /\ store.mg[d] \in Nat
      /\ \A d \in Decks : store.valid[d] \in BOOLEAN /\ shown[d] \in BOOLEAN
      /\ st.pc = "notify" \/ ui.removed =>
           lib.media = 0 /\ store.floor = lib.gen /\ \A d \in Decks : ~store.valid[d]
      /\ \A d \in Decks : ~BeingReset(d) =>
           \/ store.valid[d] = shown[d]
           \/ ~store.valid[d] /\ (st.pc = "notify" \/ ui.removed)
      /\ ~Wedged => \A d \in Decks : eng.on[d] => (shown[d] /\ ~ui.removed) \/ OwnSession(d)
      /\ store.floor \in Nat /\ lib.gen \in Nat
  BY DEF ViewInv, ViewType, EngineInv, StorageType
<1>4. ASSUME NEW d \in Decks, d # k PROVE ~OwnSession(d) /\ ~BeingReset(d)
  BY <1>1, <1>2, <1>4, QueuedFacts
<1>5. CASE DeckStop(k) /\ shown' = [shown EXCEPT ![k] = FALSE] /\ store' = store
  <2>1. DeckStop(k) /\ shown' = [shown EXCEPT ![k] = FALSE] /\ store' = store
    BY <1>5
  <2>2. 0 \in Nat
    OBVIOUS
  <2>3. /\ eng' \in Engines /\ eng'.stuck = eng.stuck /\ eng'.blocked = eng.blocked
        /\ \A d \in Decks : /\ eng'.on[d] => eng.on[d]
                            /\ eng'.src[d] # 0 => eng'.on[d] /\ eng'.src[d] = eng.src[d]
        /\ ~Wedged => ~eng'.on[k]
    BY <2>1, <2>2, StopSessionFacts
  <2>4. /\ shown' \in [Decks -> BOOLEAN]
        /\ \A d \in Decks : shown'[d] = IF d = k THEN FALSE ELSE shown[d]
    BY <2>1 DEF ViewType
  <2>5. EngineType'
    BY <2>3 DEF EngineType
  <2>6. ViewType'
    BY <2>1, <2>4 DEF ViewType
  <2>7. ASSUME ~Wedged, NEW d \in Decks, eng'.on[d] PROVE shown'[d] /\ ~ui.removed
    BY <1>3, <1>4, <2>3, <2>4, <2>7
  <2>8. ~store.valid[k]
    BY <1>1, <1>2 DEF LoadsInv
  <2>9. ASSUME NEW d \in Decks
        PROVE  store'.valid[d] = shown'[d] \/
                 (~store'.valid[d] /\ (st.pc = "notify" \/ ui.removed))
    BY <1>3, <1>4, <2>1, <2>4, <2>8
  <2> QED
    BY <1>1, <1>3, <2>1, <2>3, <2>5, <2>6, <2>7, <2>9, FinishKeeps
<1>6. CASE /\ ~storeRefuses(k, n)
           /\ store' = [store EXCEPT !.mg[k] = n, !.valid[k] = TRUE]
           /\ shown' = [shown EXCEPT ![k] = TRUE] /\ UNCHANGED <<eng, left>>
  <2>1. /\ store' = [store EXCEPT !.mg[k] = n, !.valid[k] = TRUE]
        /\ shown' = [shown EXCEPT ![k] = TRUE] /\ eng' = eng
    BY <1>6
  <2>2. PICK m \in [Decks -> Nat] : m = [store.mg EXCEPT ![k] = n]
    BY DEF ViewType
  <2>3. PICK v \in [Decks -> BOOLEAN] : v = [store.valid EXCEPT ![k] = TRUE]
    BY DEF ViewType
  <2>4. store' = [store EXCEPT !.mg = m, !.valid = v]
    BY <2>1, <2>2, <2>3
  <2>5. /\ store' \in [floor : Nat, mg : [Decks -> Nat], valid : [Decks -> BOOLEAN]]
        /\ store'.floor = store.floor /\ store'.mg = m /\ store'.valid = v
    BY <2>4 DEF ViewType
  <2>6. /\ \A d \in Decks : m[d] = IF d = k THEN n ELSE store.mg[d]
        /\ \A d \in Decks : v[d] = IF d = k THEN TRUE ELSE store.valid[d]
    BY <2>2, <2>3 DEF ViewType
  <2>7. /\ shown' \in [Decks -> BOOLEAN]
        /\ \A d \in Decks : shown'[d] = IF d = k THEN TRUE ELSE shown[d]
    BY <2>1 DEF ViewType
  <2>8. EngineType' /\ ViewType'
    BY <2>1, <2>5, <2>7, TypesKept DEF ViewType
  <2>9. n <= lib.gen /\ (n = lib.gen => lib.media # 0)
    BY <1>1, <1>2, QueuedFacts
  <2>10. ~ui.removed /\ st.pc # "notify"
    BY <1>3, <1>6, <2>9 DEF storeRefuses
  <2>11. \A d \in Decks : store'.mg[d] <= lib.gen
    BY <1>3, <2>5, <2>6, <2>9
  <2>12. ASSUME ~Wedged, NEW d \in Decks, eng'.on[d] PROVE shown'[d] /\ ~ui.removed
    BY <1>3, <1>4, <2>1, <2>7, <2>10, <2>12
  <2>13. ASSUME NEW d \in Decks PROVE store'.valid[d] = shown'[d]
    <3>1. CASE d = k
      BY <2>5, <2>6, <2>7, <3>1
    <3>2. CASE d # k
      BY <1>3, <1>4, <2>5, <2>6, <2>7, <2>10, <3>2
    <3> QED
      BY <3>1, <3>2
  <2>14. \A d \in Decks : eng.src[d] # 0 => eng.on[d]
    BY DEF EngineInv
  <2> QED
    BY <1>1, <2>1, <2>5, <2>8, <2>10, <2>11, <2>12, <2>13, <2>14, FinishKeeps
<1> QED
  BY <1>2, <1>5, <1>6 DEF UiPublish

-----------------------------------------------------------------------------
(* The theorems.                                                            *)

\* Every step keeps the invariant.
LEMMA NextInv ==
  ASSUME IInv, [Next]_vars
  PROVE  IInv'
<1>1. CASE UNCHANGED vars
  <2>1. /\ UNCHANGED <<plug, drv, drvpc, lib, eng, store, left>> /\ UNCHANGED storageVars
        /\ UNCHANGED loadVars /\ st' = st /\ announced' = announced
    BY <1>1 DEF vars, storageVars, loadVars
  <2>2. StorageType' /\ EngineType' /\ LoadType' /\ ViewType'
    BY <2>1, TypesKept DEF IInv, loadVars
  <2>3. GateInv' /\ FlightInv' /\ LoadsInv'
    BY <2>1, GateKept, FlightKept, LoadsKept DEF IInv, loadVars
  <2>4. ViewInv'
    BY <2>1, ViewKept DEF IInv, loadVars, ViewInv
  <2>5. EngineInv' /\ (~Bounce => SourceInv')
    BY <2>1, EngineKept, SourceKept DEF IInv, loadVars
  <2> QED
    BY <2>2, <2>3, <2>4, <2>5 DEF IInv
<1>2. CASE PlugIn \/ Unplug \/ Sort \/ Driver
  BY <1>2, PortKeeps, SortKeeps, ReportConnectKeeps, ReportDisconnectKeeps,
     ReportDisconnectGateKeeps DEF Driver
<1>3. CASE Storage
  BY <1>3, LookKeeps, ReleaseKeeps, InstallKeeps, MountKeeps, CommitOpenKeeps, CommitKeeps,
     LibraryOpenKeeps, LibraryPublishKeeps, SuspendLoadsKeeps, LibraryClearKeeps,
     ClearLoadedTracksKeeps, NotifyAndResumeKeeps DEF Storage
<1>4. CASE Worker
  BY <1>4, ResolveKeeps, ResetDeckKeeps, LoadSessionKeeps, RecheckKeeps, SendKeeps DEF Worker
<1>5. CASE Ui
  BY <1>5, UiUpdateKeeps, UiPollKeeps, UiPublishKeeps DEF Ui
<1>6. ASSUME NEW d \in Decks, LoadRequest(d) \/ LoaderOpen(d) PROVE IInv'
  BY <1>6, LoadRequestKeeps, LoaderOpenKeeps
<1> QED
  BY <1>1, <1>2, <1>3, <1>4, <1>5, <1>6 DEF Next

\* The invariant holds in every state, whatever is pulled when.
THEOREM Invariance == Spec => []IInv
<1>1. IInv /\ [Next]_vars => IInv'
  BY NextInv
<1> QED
  BY <1>1, InitInv, PTL DEF Spec

\* Every variable keeps its type, and the single-flight slot of ui_load_gate has
\* exactly one holder while it is busy.
THEOREM TypeCorrect == Spec => []TypeOK
<1>1. IInv => TypeOK
  BY DEF IInv, TypeOK, StorageType, EngineType, Engines, LoadType, ViewType, FlightInv, Drives
<1> QED
  BY <1>1, Invariance, PTL

\* The gate is open only for the volume of the drive that the session believes
\* in, although commit_mounted opens it before its last test and the driver's
\* callback closes it after its own.
THEOREM GateIsTrue == Spec => []GateTruth
<1>1. IInv => GateTruth
  BY DEF IInv, GateInv
<1> QED
  BY <1>1, Invariance, PTL

\* Between loads and removals the screen, the store and the engine agree about
\* which decks are empty, also if drives bounce.
THEOREM ViewsAgree == Spec => []AgreeEmpty
<1>1. IInv => AgreeEmpty
  <2> SUFFICES ASSUME IInv, Quiet, NEW d \in Decks
               PROVE  store.valid[d] = shown[d] /\ (eng.on[d] => shown[d] \/ Wedged)
    BY DEF AgreeEmpty
  <2>1. ~OwnSession(d) /\ ~BeingReset(d)
    BY DEF Quiet, OwnSession, BeingReset
  <2>2. ~ui.removed /\ st.pc # "notify"
    BY DEF Quiet
  <2> QED
    BY <2>1, <2>2 DEF IInv, ViewInv, EngineInv
<1> QED
  BY <1>1, Invariance, PTL

\* Unless drives bounce, no deck holds a file of a volume that is gone: the decks
\* are stopped behind the barrier before release_device unmounts, and a session
\* that a late worker makes is retired by it.
THEOREM FilesOfMount ==
  ASSUME ~Bounce
  PROVE  Spec => []SourceOfMount
<1>1. IInv => SourceOfMount
  BY DEF IInv, SourceInv, SourceOfMount, Retiring
<1> QED
  BY <1>1, Invariance, PTL

\* Unless drives bounce, the application is told of every removal before the
\* volume is unmounted.
THEOREM UnmountsAnnounced ==
  ASSUME ~Bounce
  PROVE  Spec => UnmountAnnounced
<1> DEFINE Step == mount # 0 /\ mount' # mount => ~announced
<1>1. IInv /\ [Next]_vars => [Step]_vars
  <2> SUFFICES ASSUME IInv, Next, mount # 0, mount' # mount PROVE ~announced
    OBVIOUS
  <2>1. st.pc \in {"release", "mount", "volume", "commit"}
    BY DEF Next, PlugIn, Unplug, Sort, Driver, ReportConnect, ReportDisconnect,
       ReportDisconnectGate, Storage, Look, Release, Install, Mount, CommitOpen, Commit,
       LibraryOpen, LibraryPublish, SuspendLoads, LibraryClear, ClearLoadedTracks,
       NotifyAndResume, Worker, Resolve, ResetDeck, LoadSession, Recheck, Send, Ui, UiUpdate,
       UiPoll, UiPublish, LoadRequest, LoaderOpen, storageVars
  <2> QED
    BY <2>1 DEF IInv, SourceInv
<1> HIDE DEF Step
<1>2. Spec => [][Step]_vars
  BY <1>1, Invariance, PTL DEF Spec
<1> QED
  BY <1>2 DEF UnmountAnnounced, Step
=============================================================================
