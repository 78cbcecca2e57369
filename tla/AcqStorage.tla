----------------------------- MODULE AcqStorage -----------------------------
(***************************************************************************)
(* Acquisition composed with the storage driver its dumps ask for a path:  *)
(* the choice Acquisition leaves open is made by recommend_storage, from   *)
(* what the monitoring thread has published so far.                        *)
(***************************************************************************)
EXTENDS Acquisition, Integers

CONSTANTS MaxFree, Threshold, StorageFaults

VARIABLES
  mounted, free, monitor, disks, usages, stopping, reqBuffer,
  connection, snapshot, recommend, diskUsages,
  missed   \* the dumps inside recommend_storage whose disk was not good enough

M == INSTANCE StorageMonitor WITH
       Disks <- Storages, NoDisk <- NoStorage, Faults <- StorageFaults

storageVars == <<mounted, free, monitor, disks, usages, stopping, reqBuffer,
                 connection, snapshot, recommend, diskUsages>>
allVars == <<vars, storageVars, missed>>

CInit == Init /\ M!SInit /\ missed = {}

\* Mutant: the preferred disk is kept without looking at its space.
SelectKeepsFull(d) ==
  /\ reqBuffer /\ d \notin missed
  /\ current[d] \in DOMAIN diskUsages
  /\ Select(d, current[d])
  /\ UNCHANGED <<storageVars, missed>>

\* The preferred disk is in _disk_usages with enough space.
SelectKeeps(d) ==
  /\ reqBuffer /\ d \notin missed
  /\ M!GoodEnough(current[d])
  /\ Select(d, current[d])
  /\ UNCHANGED <<storageVars, missed>>

SelectMisses(d) ==
  /\ thread[d] = "select"
  /\ reqBuffer /\ d \notin missed
  /\ ~M!GoodEnough(current[d])
  /\ missed' = missed \cup {d}
  /\ UNCHANGED <<vars, storageVars>>

\* Then _recommend is taken as it is, the empty path included.
SelectRecommended(d) ==
  /\ d \in missed
  /\ Select(d, recommend)
  /\ missed' = missed \ {d}
  /\ UNCHANGED storageVars

\* Mutant: the error is logged and the loop goes on.
SelectRetries(d) ==
  /\ ~reqBuffer /\ d \notin missed
  /\ Run(d, "select", "loop")
  /\ SetState(d, "NOT_ACQUIRING")
  /\ UNCHANGED <<tcpdump, callVars, event, process, current, target, storageVars, missed>>

\* The storage driver was stopped: None has no recommend_storage.
SelectFindsNoDriver(d) ==
  /\ ~reqBuffer /\ d \notin missed
  /\ SelectRaises(d)
  /\ UNCHANGED <<storageVars, missed>>

Choose(d) ==
  SelectKeeps(d) \/ SelectMisses(d) \/ SelectRecommended(d) \/ SelectFindsNoDriver(d)

\* Drivers.stop_all stops the storage driver while other drivers still run.
Shutdown == "select" \in Faults /\ (M!StopStorage \/ M!DropBuffer)

StorageStep == M!MonitorStep \/ M!DiskStep \/ Shutdown

Uses(A) == A /\ UNCHANGED <<storageVars, missed>>

CNext ==
  \/ \E w \in Workers : Uses(Call(w) \/ Handler(w))
  \/ \E d \in Dumps : Uses(DumpStep(d) \/ Terminate(d) \/ Crash(d)) \/ Choose(d)
  \/ StorageStep /\ UNCHANGED <<vars, missed>>

CSpec == CInit /\ [][CNext]_allVars

CFairness ==
  /\ \A w \in Workers : WF_allVars(Uses(Handler(w)))
  /\ \A d \in Dumps :
       /\ WF_allVars(Uses(DumpStep(d)) \/ Choose(d))
       /\ WF_allVars(Uses(Terminate(d)))
  /\ WF_allVars(M!MonitorStep /\ UNCHANGED <<vars, missed>>)
  /\ WF_allVars(M!DropBuffer /\ UNCHANGED <<vars, missed>>)

CFairSpec == CSpec /\ CFairness

-----------------------------------------------------------------------------
(* Properties.                                                             *)

\* Whatever recommend_storage answers, and however its two lock sections fall
\* between the monitor's, the composed system is an Acquisition.
ImplementsAcquisition == Spec

HasRoom(k) == mounted /\ free[k] >= Threshold

\* A recording leaves a disk that stays too full while another one has room,
\* and does not come back to it: the choice passes from the monitor's scan
\* through its two fields, the dump's loop and the change of process.
RecordingLeavesFullDisk ==
  \A a \in Storages :
    <>[](~HasRoom(a) /\ \E b \in Storages : HasRoom(b))
      => <>[](\A d \in Dumps : acqState[d] = "ACQUIRING" => current[d] # a)

\* A start call waits for a state that a dump whose thread has died of os.makedirs never gets.
WaitsForTheDead(w) ==
  pc[w] = "spin" /\ tcpdump # None /\ thread[tcpdump] = "dead" /\ acqState[tcpdump] = "UNKNOWN"

\* A start call returns once some disk always has room and tcpdump can be launched, although
\* nothing was recommended when the call arrived (the monitor had not finished a scan, or
\* the disks were full), and also when the storage driver is stopped; or it spins for ever
\* on a dump that os.makedirs has killed before its first process.
StartGetsStorage ==
  <>[](\E b \in Storages : HasRoom(b)) /\ <>[][\A d \in Dumps : ~SpawnRaises(d)]_allVars
    => \A w \in Workers : pc[w] \in StartLabels ~> (pc[w] = "idle" \/ []WaitsForTheDead(w))

\* TcpDump.py:33 treats a missing storage as an error, 'No storage available',
\* that ends the acquisition: a dump that says ACQUIRING records on a disk.
RecordsOnADisk ==
  \A d \in Dumps : acqState[d] = "ACQUIRING" => current[d] # NoStorage
=============================================================================
