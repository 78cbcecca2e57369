----------------------------- MODULE MCDrivers -----------------------------
(* The service's drivers, one part at a time, the others at rest in one of  *)
(* their initial states: the table with two other sensors, in any order     *)
(* with the renderer, and two workers; the threads of one driver and its    *)
(* on_stop; a camera with two overlapping calls; the storage driver with    *)
(* two disks and three amounts of free space.                               *)
EXTENDS DriverRegistry, DriverThreads, CameraPipe, StorageMonitor

VARIABLE part

vars == <<registryVars, threadsVars, cameraVars, svars, part>>

RegistryRests == RegistryInit /\ order = <<Renderer>> \o SetToSeq(Sensors)
ThreadsRest == ThreadsInit /\ driver = "lidar" /\ \A t \in Optional : threadPc[t] = "ended"
StorageRests == SInit /\ \A k \in Disks : free[k] = Absent

Init ==
  \/ part = "registry" /\ RegistryInit /\ ThreadsRest /\ CameraInit /\ StorageRests
  \/ part = "threads" /\ RegistryRests /\ ThreadsInit /\ CameraInit /\ StorageRests
  \/ part = "camera" /\ RegistryRests /\ ThreadsRest /\ CameraInit /\ StorageRests
  \/ part = "storage" /\ RegistryRests /\ ThreadsRest /\ CameraInit /\ SInit

Next ==
  /\ UNCHANGED part
  /\ \/ part = "registry" /\ RegistryNext /\ UNCHANGED <<threadsVars, cameraVars, svars>>
     \/ part = "threads" /\ ThreadsNext /\ UNCHANGED <<registryVars, cameraVars, svars>>
     \/ part = "camera" /\ CameraNext /\ UNCHANGED <<registryVars, threadsVars, svars>>
     \/ part = "storage" /\ SNext /\ UNCHANGED <<registryVars, threadsVars, cameraVars>>

\* Every thread gets its turns; what only a peer can end is not in these actions.
Fairness ==
  /\ WF_registryVars(part = "registry" /\ Main)
  /\ WF_registryVars(part = "registry" /\ Render)
  /\ \A w \in Workers : WF_registryVars(part = "registry" /\ Worker(w))
  /\ WF_threadsVars(part = "threads" /\ FakeRecv)
  /\ WF_threadsVars(part = "threads" /\ Bridge)
  /\ WF_threadsVars(part = "threads" /\ ReqBuffer)
  /\ WF_threadsVars(part = "threads" /\ Proxy)
  /\ WF_threadsVars(part = "threads" /\ Count)
  /\ WF_threadsVars(part = "threads" /\ CanRecv)
  /\ WF_threadsVars(part = "threads" /\ Conv)
  /\ WF_threadsVars(part = "threads" /\ OnStop)
  /\ \A h \in Handlers : WF_cameraVars(part = "camera" /\ Handler(h))
  /\ \A p \in Pipes : WF_cameraVars(part = "camera" /\ PipeThread(p))
  /\ WF_svars(part = "storage" /\ MonitorStep)
  /\ WF_svars(part = "storage" /\ DropBuffer)

Spec == Init /\ [][Next]_vars /\ Fairness
=============================================================================
