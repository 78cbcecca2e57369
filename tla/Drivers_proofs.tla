---------------------------- MODULE Drivers_proofs --------------------------
(***************************************************************************)
(* Theorems about two parts of the service.  The table of drivers: no loop *)
(* over it meets a registration, for any set of sensors, any order of the  *)
(* configuration and any number of workers.  The storage driver: what its  *)
(* callers read belongs together, for any disks, threshold and faults.     *)
(***************************************************************************)
EXTENDS DriverRegistry, StorageMonitor, TLAPS

-----------------------------------------------------------------------------
(* The table of drivers.                                                   *)

\* load is over when _is_init_ref is set, and whoever goes through the table has seen it.
LoopsAfterLoad ==
  /\ workerPc \in [Workers -> {"idle", "next", "position", "poll", "count"}]
  /\ DOMAIN workerLen = Workers
  /\ _is_init_ref => mainPc \notin {"start", "register"}
  /\ renderPc \in {"loop", "points"} => _is_init_ref
  /\ \A w \in Workers : workerPc[w] # "idle" => _is_init_ref

RInv == LoopsAfterLoad /\ TableStandsStill

LEMMA InitRInv == RegistryInit => RInv
  BY DEF RegistryInit, RInv, LoopsAfterLoad, TableStandsStill

\* While a loop runs main registers nothing.
LEMMA MainStep ==
  ASSUME RInv, Main \/ DriverStopped
  PROVE  RInv'
<1> USE DEF RInv, LoopsAfterLoad, TableStandsStill, renderVars, workerVars
<1>1. CASE StartDriver
  BY <1>1 DEF StartDriver
<1>2. CASE StartFails
  BY <1>2 DEF StartFails
<1>3. CASE Register
  BY <1>3 DEF Register
<1>4. CASE Loaded
  BY <1>4 DEF Loaded
<1>5. CASE StopDriver
  BY <1>5 DEF StopDriver
<1>6. CASE StopRenderer
  BY <1>6 DEF StopRenderer
<1>7. CASE JoinRenderer
  BY <1>7 DEF JoinRenderer
<1>8. CASE StoppedAll
  BY <1>8 DEF StoppedAll
<1>9. CASE DriverStopped
  BY <1>9 DEF DriverStopped
<1> QED
  BY <1>1, <1>2, <1>3, <1>4, <1>5, <1>6, <1>7, <1>8, <1>9 DEF Main

LEMMA RenderStep ==
  ASSUME RInv, Render
  PROVE  RInv'
<1> USE DEF RInv, LoopsAfterLoad, TableStandsStill, mainVars, workerVars
<1>1. CASE RenderWaits
  BY <1>1 DEF RenderWaits
<1>2. CASE RenderStops
  BY <1>2 DEF RenderStops
<1>3. CASE RenderBegins
  BY <1>3 DEF RenderBegins
<1>4. CASE RenderAsks
  BY <1>4 DEF RenderAsks
<1>5. CASE RenderImage
  BY <1>5 DEF RenderImage
<1> QED
  BY <1>1, <1>2, <1>3, <1>4, <1>5 DEF Render

LEMMA WorkerStep ==
  ASSUME RInv, NEW w \in Workers, CallSnapshots(w) \/ Worker(w)
  PROVE  RInv'
<1> USE DEF RInv, LoopsAfterLoad, TableStandsStill, mainVars, renderVars
<1>1. CASE CallSnapshots(w)
  BY <1>1 DEF CallSnapshots
<1>2. CASE NextSnapshot(w)
  BY <1>2 DEF NextSnapshot
<1>3. CASE PollSnapshot(w)
  BY <1>3 DEF PollSnapshot
<1>4. CASE CountPoll(w)
  BY <1>4 DEF CountPoll
<1>5. CASE GetLocation(w)
  BY <1>5 DEF GetLocation
<1> QED
  BY <1>1, <1>2, <1>3, <1>4, <1>5 DEF Worker

LEMMA PositionStep ==
  ASSUME RInv, PositionComes
  PROVE  RInv'
BY DEF PositionComes, RInv, LoopsAfterLoad, TableStandsStill, mainVars, renderVars

\* For any sensors, in any order, and any number of workers, the table has the size it had
\* when a loop over it began, in the renderer's thread and in every get_snapshots: the loops
\* take no lock and need none (Drivers.py:120-140, renderer.py:51 and 170).
THEOREM TableIsStable == RegistrySpec => []TableStandsStill
<1>1. RegistryInit => RInv
  BY InitRInv
<1>2. RInv /\ [RegistryNext]_registryVars => RInv'
  <2> SUFFICES ASSUME RInv, [RegistryNext]_registryVars
               PROVE  RInv'
    OBVIOUS
  <2>1. CASE UNCHANGED registryVars
    BY <2>1 DEF RInv, LoopsAfterLoad, TableStandsStill, registryVars, mainVars, renderVars, workerVars
  <2> QED
    BY <2>1, MainStep, RenderStep, WorkerStep, PositionStep DEF RegistryNext
<1>3. RInv => TableStandsStill
  BY DEF RInv
<1> QED
  BY <1>1, <1>2, <1>3, PTL DEF RegistrySpec

-----------------------------------------------------------------------------
(* The storage driver.                                                     *)

USE DEF StorageAssumption

-----------------------------------------------------------------------------
(* What a recommendation is.                                               *)

LEMMA RecommendationIsADisk ==
  ASSUME NEW u
  PROVE  Recommendations(u) \subseteq DOMAIN u \cup {NoDisk}
  BY DEF Recommendations, MostFree

LEMMA NothingToRecommend ==
  ASSUME NEW u, DOMAIN u = {}
  PROVE  Recommendations(u) = {NoDisk}
  BY DEF Recommendations, MostFree

LEMMA UsagesAreMeasurements ==
  ASSUME NEW u \in Usages
  PROVE  DOMAIN u \subseteq Disks
  BY DEF Usages

LEMMA EmptyIsUsages == Empty \in Usages /\ DOMAIN Empty = {}
<1>1. Empty \in [{} -> 0..MaxFree]
  BY DEF Empty
<1> QED
  BY <1>1 DEF Usages, Empty

-----------------------------------------------------------------------------
(* Type correctness.                                                       *)

LEMMA InitSType == SInit => STypeOK
  BY EmptyIsUsages DEF SInit, STypeOK, MonitorLabels

LEMMA MonitorType ==
  ASSUME STypeOK, MonitorStep
  PROVE  STypeOK'
<1> USE DEF STypeOK, MonitorLabels, At, envVars, published, driverVars
<1>1. CASE ListDisks
  BY <1>1 DEF ListDisks
<1>2. CASE ListRaises
  BY <1>2 DEF ListRaises
<1>3. CASE LostSnapshot
  BY <1>3 DEF LostSnapshot
<1>4. CASE LostRecommend
  BY <1>4 DEF LostRecommend
<1>5. CASE CheckConnection
  BY <1>5 DEF CheckConnection
<1>6. CASE Measure
  <2>1. usages' \in [disks -> 0..MaxFree]
    BY <1>6 DEF Measure, Absent
  <2>2. usages' \in Usages
    BY <2>1 DEF Usages
  <2> QED
    BY <1>6, <2>2 DEF Measure
<1>7. CASE MeasureRaises
  BY <1>7 DEF MeasureRaises
<1>8. CASE GenerateSnapshot
  BY <1>8 DEF GenerateSnapshot
<1>9. CASE RecommendStorage
  <2>1. recommend' \in Disks \cup {NoDisk}
    BY <1>9, RecommendationIsADisk, UsagesAreMeasurements DEF RecommendStorage
  <2> QED
    BY <1>9, <2>1 DEF RecommendStorage
<1>10. CASE Publish
  BY <1>10, EmptyIsUsages DEF Publish
<1>11. CASE LoopEnds
  BY <1>11 DEF LoopEnds
<1> QED
  BY <1>1, <1>2, <1>3, <1>4, <1>5, <1>6, <1>7, <1>8, <1>9, <1>10, <1>11 DEF MonitorStep

LEMMA OtherType ==
  ASSUME STypeOK, StopStorage \/ DropBuffer \/ DiskStep
  PROVE  STypeOK'
<1> USE DEF STypeOK, published, driverVars, envVars
<1>1. CASE StopStorage
  BY <1>1 DEF StopStorage
<1>2. CASE DropBuffer
  BY <1>2 DEF DropBuffer
<1>3. CASE SpaceChanges
  BY <1>3 DEF SpaceChanges
<1>4. CASE DiskAppears
  BY <1>4 DEF DiskAppears
<1>5. CASE DiskVanishes
  BY <1>5 DEF DiskVanishes
<1>6. CASE MountChanges
  BY <1>6 DEF MountChanges
<1> QED
  BY <1>1, <1>2, <1>3, <1>4, <1>5, <1>6 DEF DiskStep

\* Every variable of the storage driver keeps its type: the recommendation is
\* a disk or the empty path, and what is published was measured on disks
\* (ReqBufferStorage.run, recommend_storage).
THEOREM StorageTypeCorrect == SSpec => []STypeOK
<1>1. STypeOK /\ [SNext]_svars => STypeOK'
  <2> SUFFICES ASSUME STypeOK, [SNext]_svars PROVE STypeOK'
    OBVIOUS
  <2>1. CASE MonitorStep
    BY <2>1, MonitorType
  <2>2. CASE StopStorage \/ DropBuffer \/ DiskStep
    BY <2>2, OtherType
  <2>3. CASE UNCHANGED svars
    BY <2>3 DEF STypeOK, svars
  <2> QED
    BY <2>1, <2>2, <2>3 DEF SNext
<1> QED
  BY InitSType, <1>1, PTL DEF SSpec

-----------------------------------------------------------------------------
(* The published fields.  Between two writes the thread's local variables   *)
(* and its place in the loop tell which scan each field is from.            *)

\* The connection published by this iteration says whether it found disks.
ConnectionInv ==
  /\ monitor \in {"lostSnapshot", "lostRecommend"} => connection = "DISCONNECTED"
  /\ monitor = "measure" => connection = IF disks = {} THEN "DISCONNECTED" ELSE "CONNECTED"
  /\ monitor \in {"report", "recommend", "publish"} =>
       connection = IF DOMAIN usages = {} THEN "DISCONNECTED" ELSE "CONNECTED"

ScanInv ==
  /\ monitor \in {"recommend", "publish"} => snapshot = "usage"
  /\ monitor = "publish" => recommend \in Recommendations(usages)

FieldsInv == FieldsAgree /\ AnswersAgree /\ ConnectionInv /\ ScanInv

LEMMA InitFieldsInv == SInit => FieldsInv
  BY DEF SInit, FieldsInv, FieldsAgree, AnswersAgree, ConnectionInv, ScanInv

LEMMA MonitorFieldsInv ==
  ASSUME STypeOK, FieldsInv, MonitorStep
  PROVE  FieldsInv'
<1> USE DEF FieldsInv, FieldsAgree, AnswersAgree, ConnectionInv, ScanInv, At,
            envVars, published, driverVars
<1>1. CASE ListDisks
  BY <1>1 DEF ListDisks
<1>2. CASE ListRaises
  BY <1>2 DEF ListRaises
<1>3. CASE LostSnapshot
  BY <1>3 DEF LostSnapshot
<1>4. CASE LostRecommend
  BY <1>4 DEF LostRecommend
<1>5. CASE CheckConnection
  BY <1>5 DEF CheckConnection
<1>6. CASE Measure
  <2>1. DOMAIN usages' = disks
    BY <1>6 DEF Measure
  <2> QED
    BY <1>6, <2>1 DEF Measure
<1>7. CASE MeasureRaises
  BY <1>7 DEF MeasureRaises
<1>8. CASE GenerateSnapshot
  BY <1>8 DEF GenerateSnapshot
<1>9. CASE RecommendStorage
  BY <1>9 DEF RecommendStorage
<1>10. CASE Publish
  <2>1. recommend \in Recommendations(usages) /\ diskUsages' = usages
        /\ monitor = "publish" /\ monitor' = "list"
        /\ UNCHANGED <<connection, snapshot, recommend>>
    BY <1>10 DEF Publish
  <2>2. recommend' \in Recommendations(diskUsages')
    BY <2>1
  <2>3. connection = "DISCONNECTED" => recommend = NoDisk
    BY <2>1, NothingToRecommend
  <2> QED
    BY <2>1, <2>2, <2>3
<1>11. CASE LoopEnds
  BY <1>11 DEF LoopEnds
<1> QED
  BY <1>1, <1>2, <1>3, <1>4, <1>5, <1>6, <1>7, <1>8, <1>9, <1>10, <1>11 DEF MonitorStep

\* Nothing else writes the fields or moves the thread.
LEMMA OtherFieldsInv ==
  ASSUME FieldsInv, UNCHANGED <<monitor, disks, usages, published>>
  PROVE  FieldsInv'
  BY DEF FieldsInv, FieldsAgree, AnswersAgree, ConnectionInv, ScanInv, published

LEMMA FieldsInvariant == SSpec => []FieldsInv
<1>1. STypeOK /\ FieldsInv /\ [SNext]_svars => FieldsInv'
  <2> SUFFICES ASSUME STypeOK, FieldsInv, [SNext]_svars PROVE FieldsInv'
    OBVIOUS
  <2>1. CASE MonitorStep
    BY <2>1, MonitorFieldsInv
  <2>2. CASE StopStorage \/ DropBuffer \/ DiskStep
    BY <2>2, OtherFieldsInv
    DEF StopStorage, DropBuffer, DiskStep, SpaceChanges, DiskAppears, DiskVanishes,
        MountChanges, published
  <2>3. CASE UNCHANGED svars
    BY <2>3, OtherFieldsInv DEF svars, published
  <2> QED
    BY <2>1, <2>2, <2>3 DEF SNext
<1> QED
  BY InitFieldsInv, StorageTypeCorrect, <1>1, PTL DEF SSpec

\* But for the moment between the two writes, and but for a lost mount point,
\* the recommendation is the one the published usages call for
\* (ReqBufferStorage.run against Storage.recommend_storage).
THEOREM FieldsBelongTogether == SSpec => []FieldsAgree
<1>1. FieldsInv => FieldsAgree
  BY DEF FieldsInv
<1> QED
  BY <1>1, FieldsInvariant, PTL

\* Between two scans connection, snapshot and recommendation do not contradict
\* each other (ReqBufferStorage.run).
THEOREM AnswersAreConsistent == SSpec => []AnswersAgree
<1>1. FieldsInv => AnswersAgree
  BY DEF FieldsInv
<1> QED
  BY <1>1, FieldsInvariant, PTL
=============================================================================
