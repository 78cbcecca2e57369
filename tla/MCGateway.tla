----------------------------- MODULE MCGateway -----------------------------
(***************************************************************************)
(* Gateway on two devices, one with a sensor, in two parts that bound what *)
(* the clients do:                                                         *)
(*   "one"   `first` starts and stops the sensor while the others stop it; *)
(*   "all"   `first` starts and stops all sensors, starts the sensor on    *)
(*           its own and asks for snapshots.                               *)
(* A call that timed out overlaps with those its client makes after it.    *)
(* Nothing new is begun after a race that may lose a recorder, until the   *)
(* service restarts.                                                       *)
(***************************************************************************)
EXTENDS Gateway

CONSTANT first   \* one of Clients

VARIABLE part

mcvars == <<gvars, part>>

MCInit == GInit /\ part \in {"one", "all"}

Allowed(c) ==
  LET single == left'[c] = {} IN
    /\ raced = {}
    /\ part = "one" => single /\ (c = first \/ op'[c] = "stop")
    /\ part = "all" => c = first /\ op'[c] # "check" /\ (single => op'[c] = "start")

MCNext ==
  /\ GNext
  /\ \A c \in Clients : op[c] = "idle" /\ op'[c] # "idle" => Allowed(c)
  /\ UNCHANGED part

MCSpec == MCInit /\ [][MCNext]_mcvars /\ GFairness
=============================================================================
