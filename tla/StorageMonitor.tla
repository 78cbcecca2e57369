--------------------------- MODULE StorageMonitor ---------------------------
(***************************************************************************)
(* The storage driver of a service (drivers/Storage/driver.py): the thread *)
(* ReqBufferStorage, which lists the disks under the mount point once a    *)
(* second, measures them and recommends one, and Storage, whose            *)
(* recommend_storage every TcpDump thread calls.  The thread publishes its *)
(* findings in four fields, each under a lock of its own, so a caller can  *)
(* read two of them on either side of a scan.                              *)
(*                                                                         *)
(* Outside the program are the mount point, which may stop being a         *)
(* directory, and the disks, which fill up, are emptied and disappear.     *)
(***************************************************************************)
EXTENDS Integers

CONSTANTS
  Disks,        \* the sub-directories the mount point may have
  NoDisk,       \* the empty path, '' in the code
  MaxFree,      \* bound on the free space of a disk, in units
  Threshold,    \* free_space_threshold, in the same units
  Faults        \* what may go wrong outside the program

MonitorFaults ==
  { "mount",    \* the mount point is not a directory for a while
    "vanish" }  \* a disk is removed

ASSUME StorageAssumption ==
  /\ NoDisk \notin Disks
  /\ MaxFree \in Nat
  /\ Threshold \in 0..MaxFree

Absent == -1   \* in free: the disk has no directory under the mount point

VARIABLES
  mounted,     \* the mount point is a directory
  free,        \* free[k]: the free space of disk k, or Absent
  monitor,     \* where the thread is in ReqBufferStorage.run
  disks,       \* its local variable: the disks listed by this iteration
  usages,      \* its local variable: their free space, by disk
  stopping,    \* _loop_stop is set
  reqBuffer,   \* Storage._req_buffer is not None
  connection,  \* _connection
  snapshot,    \* _snapshot: what it tells
  recommend,   \* _recommend
  diskUsages   \* _disk_usages

envVars == <<mounted, free>>
published == <<connection, snapshot, recommend, diskUsages>>
driverVars == <<stopping, reqBuffer>>
svars == <<mounted, free, monitor, disks, usages, stopping, reqBuffer,
           connection, snapshot, recommend, diskUsages>>

MonitorLabels == {"list", "lostSnapshot", "lostRecommend", "connect", "measure",
                  "report", "recommend", "publish", "ended"}

Usages == UNION { [K -> 0..MaxFree] : K \in SUBSET Disks }
Empty == [k \in {} |-> 0]

SInit ==
  /\ mounted = TRUE
  /\ free \in [Disks -> {Absent} \cup 0..MaxFree]
  /\ monitor = "list"
  /\ disks = {}
  /\ usages = Empty
  /\ stopping = FALSE
  /\ reqBuffer = TRUE
  /\ connection = "UNKNOWN"
  /\ snapshot = "uninitialized"
  /\ recommend = NoDisk
  /\ diskUsages = Empty

-----------------------------------------------------------------------------
(* ReqBufferStorage.run.  A local variable is emptied after its last use in *)
(* an iteration.                                                           *)

At(from, to) == monitor = from /\ monitor' = to

\* _get_mounted_disks; it raises DriverError when the mount point is no directory.
ListDisks ==
  /\ ~stopping
  /\ mounted
  /\ At("list", "connect")
  /\ disks' = {k \in Disks : free[k] # Absent}
  /\ UNCHANGED <<envVars, usages, driverVars, published>>

ListRaises ==
  /\ ~stopping
  /\ ~mounted
  /\ At("list", "lostSnapshot")
  /\ connection' = "DISCONNECTED"
  /\ UNCHANGED <<envVars, disks, usages, driverVars, snapshot, recommend, diskUsages>>

LostSnapshot ==
  /\ At("lostSnapshot", "lostRecommend")
  /\ snapshot' = "error"
  /\ UNCHANGED <<envVars, disks, usages, driverVars, connection, recommend, diskUsages>>

\* Mutant: a lost mount point leaves the recommendation standing.
LostKeepsRecommend ==
  /\ At("lostRecommend", "list")
  /\ UNCHANGED <<envVars, disks, usages, driverVars, published>>

\* continue: _disk_usages keeps what the last good scan found.
LostRecommend ==
  /\ At("lostRecommend", "list")
  /\ recommend' = NoDisk
  /\ UNCHANGED <<envVars, disks, usages, driverVars, connection, snapshot, diskUsages>>

CheckConnection ==
  /\ At("connect", "measure")
  /\ connection' = IF disks = {} THEN "DISCONNECTED" ELSE "CONNECTED"
  /\ UNCHANGED <<envVars, disks, usages, driverVars, snapshot, recommend, diskUsages>>

Measure ==
  /\ At("measure", "report")
  /\ \A k \in disks : free[k] # Absent
  /\ usages' = [k \in disks |-> free[k]]
  /\ disks' = {}
  /\ UNCHANGED <<envVars, driverVars, published>>

\* shutil.disk_usage raises OSError for a disk removed since the listing.  Only
\* DriverError is caught: the thread ends, and what it published stays.
MeasureRaises ==
  /\ At("measure", "ended")
  /\ \E k \in disks : free[k] = Absent
  /\ UNCHANGED <<envVars, disks, usages, driverVars, published>>

GenerateSnapshot ==
  /\ At("report", "recommend")
  /\ snapshot' = "usage"
  /\ UNCHANGED <<envVars, disks, usages, driverVars, connection, recommend, diskUsages>>

\* The disks with the most free space; max() takes the first of them in the
\* order of the listing, which os.walk does not define.
MostFree(u) == {k \in DOMAIN u : \A j \in DOMAIN u : u[j] <= u[k]}

\* Mutant: just enough space is not enough.
RecommendationsAbove(u) ==
  LET best == {k \in MostFree(u) : u[k] > Threshold}
  IN  IF best = {} THEN {NoDisk} ELSE best

Recommendations(u) ==
  LET best == {k \in MostFree(u) : u[k] >= Threshold}
  IN  IF best = {} THEN {NoDisk} ELSE best

\* Mutant: the recommendation is computed from the published usages.
RecommendFromPublished ==
  /\ At("recommend", "publish")
  /\ recommend' \in Recommendations(diskUsages)
  /\ UNCHANGED <<envVars, disks, usages, driverVars, connection, snapshot, diskUsages>>

RecommendStorage ==
  /\ At("recommend", "publish")
  /\ recommend' \in Recommendations(usages)
  /\ UNCHANGED <<envVars, disks, usages, driverVars, connection, snapshot, diskUsages>>

\* Mutant: a scan that recommends nothing is not published.
PublishOnlyGood ==
  /\ At("publish", "list")
  /\ diskUsages' = IF recommend = NoDisk THEN diskUsages ELSE usages
  /\ usages' = Empty
  /\ UNCHANGED <<envVars, disks, driverVars, connection, snapshot, recommend>>

Publish ==
  /\ At("publish", "list")
  /\ diskUsages' = usages
  /\ usages' = Empty
  /\ UNCHANGED <<envVars, disks, driverVars, connection, snapshot, recommend>>

\* Mutant: the event is looked at only when the mount point can be listed.
LoopEndsIfMounted ==
  /\ stopping /\ mounted
  /\ At("list", "ended")
  /\ UNCHANGED <<envVars, disks, usages, driverVars, published>>

LoopEnds ==
  /\ stopping
  /\ At("list", "ended")
  /\ UNCHANGED <<envVars, disks, usages, driverVars, published>>

MonitorStep ==
  \/ ListDisks \/ ListRaises \/ LostSnapshot \/ LostRecommend \/ CheckConnection
  \/ Measure \/ MeasureRaises \/ GenerateSnapshot \/ RecommendStorage \/ Publish
  \/ LoopEnds

-----------------------------------------------------------------------------
(* Storage.on_stop: set the event, join the thread, drop the buffer.       *)

StopStorage ==
  /\ reqBuffer /\ ~stopping
  /\ stopping' = TRUE
  /\ UNCHANGED <<envVars, monitor, disks, usages, reqBuffer, published>>

DropBuffer ==
  /\ stopping /\ reqBuffer
  /\ monitor = "ended"
  /\ reqBuffer' = FALSE
  /\ UNCHANGED <<envVars, monitor, disks, usages, stopping, published>>

-----------------------------------------------------------------------------
(* recommend_storage reads _disk_usages under one lock and, if the         *)
(* preferred disk is not good enough, _recommend under another.  prefer    *)
(* has been through normpath, which makes '.' of '': no disk.              *)

GoodEnough(prefer) == prefer \in DOMAIN diskUsages /\ diskUsages[prefer] >= Threshold

-----------------------------------------------------------------------------
(* The disks.                                                              *)

SpaceChanges ==
  /\ \E k \in Disks, f \in 0..MaxFree :
       free[k] # Absent /\ f # free[k] /\ free' = [free EXCEPT ![k] = f]
  /\ UNCHANGED <<mounted, monitor, disks, usages, driverVars, published>>

DiskAppears ==
  /\ \E k \in Disks, f \in 0..MaxFree :
       free[k] = Absent /\ free' = [free EXCEPT ![k] = f]
  /\ UNCHANGED <<mounted, monitor, disks, usages, driverVars, published>>

DiskVanishes ==
  /\ "vanish" \in Faults
  /\ \E k \in Disks : free[k] # Absent /\ free' = [free EXCEPT ![k] = Absent]
  /\ UNCHANGED <<mounted, monitor, disks, usages, driverVars, published>>

MountChanges ==
  /\ "mount" \in Faults
  /\ mounted' = ~mounted
  /\ UNCHANGED <<free, monitor, disks, usages, driverVars, published>>

DiskStep == SpaceChanges \/ DiskAppears \/ DiskVanishes \/ MountChanges

-----------------------------------------------------------------------------
SNext == MonitorStep \/ StopStorage \/ DropBuffer \/ DiskStep

SSpec == SInit /\ [][SNext]_svars

\* The thread is scheduled, and on_stop, once begun, goes on.
SFairness == WF_svars(MonitorStep) /\ WF_svars(DropBuffer)

SFairSpec == SSpec /\ SFairness

-----------------------------------------------------------------------------
(* Properties.                                                             *)

STypeOK ==
  /\ mounted \in BOOLEAN
  /\ free \in [Disks -> {Absent} \cup 0..MaxFree]
  /\ monitor \in MonitorLabels
  /\ disks \in SUBSET Disks
  /\ usages \in Usages
  /\ stopping \in BOOLEAN
  /\ reqBuffer \in BOOLEAN
  /\ connection \in {"UNKNOWN", "CONNECTED", "DISCONNECTED"}
  /\ snapshot \in {"uninitialized", "error", "usage"}
  /\ recommend \in Disks \cup {NoDisk}
  /\ diskUsages \in Usages

\* The two fields recommend_storage reads belong to the same scan, but for the
\* moment in which the new recommendation is out and the new usages are not,
\* and but for a mount point that was lost, which only clears the one.  So a
\* dump whose disk is full by the usages is not sent back to it as the best one.
FieldsAgree ==
  monitor # "publish" => recommend = NoDisk \/ recommend \in Recommendations(diskUsages)

\* Between two scans the driver's answers do not contradict each other:
\* DISCONNECTED recommends no disk, and CONNECTED comes with measurements and
\* with what they recommend.
AnswersAgree ==
  monitor = "list" =>
    /\ connection = "DISCONNECTED" => recommend = NoDisk
    /\ connection = "CONNECTED" =>
         snapshot = "usage" /\ recommend \in Recommendations(diskUsages)

\* A disk that stays too full stops being kept by the dump that prefers it,
\* and is not recommended to anyone, once the mount point stays readable; only
\* the end of the scanning thread, by on_stop or by an OSError, excuses it.
FullDiskIsDropped ==
  \A k \in Disks :
    <>[](mounted /\ free[k] < Threshold /\ monitor # "ended")
      => <>[](~GoodEnough(k) /\ recommend # k)

\* Storage.on_stop returns: the join of the scanning thread ends, also when that
\* thread has died of an error nobody caught.
StorageStops == stopping ~> ~reqBuffer
=============================================================================
