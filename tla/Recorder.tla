------------------------------ MODULE Recorder ------------------------------
(***************************************************************************)
(* What one sensor's acquisition service promises to callers that talk to  *)
(* it one call at a time, whatever happens to storage and to the recording *)
(* process.  The service is "armed" while something may begin to record    *)
(* without a further call, and "recording" while a capture process runs.   *)
(*                                                                         *)
(* The promise: recording begins only when armed, only a start call arms   *)
(* the service, ACQUIRING is answered only by an armed service, and a stop *)
(* call returns only when the service neither records nor can begin to.    *)
(***************************************************************************)

CONSTANT Clients

VARIABLES
  request,    \* request[c]: the operation c waits for, or "idle"
  reply,      \* reply[c]: the state the last call of c was answered with, or "none"
  armed,      \* TRUE while a recorder exists
  recording   \* TRUE while a capture process runs

vars == <<request, reply, armed, recording>>

Operations == {"start", "stop", "check"}
AcqState == {"UNKNOWN", "ACQUIRING", "NOT_ACQUIRING"}

Init ==
  /\ request = [c \in Clients |-> "idle"]
  /\ reply = [c \in Clients |-> "none"]
  /\ armed = FALSE
  /\ recording = FALSE

Call(c, op) ==
  /\ request[c] = "idle"
  /\ request' = [request EXCEPT ![c] = op]
  /\ reply' = [reply EXCEPT ![c] = "none"]
  /\ UNCHANGED <<armed, recording>>

Arm(c) ==
  /\ request[c] = "start"
  /\ ~armed
  /\ armed' = TRUE
  /\ UNCHANGED <<request, reply, recording>>

\* A recorder may give up by itself, but not with its process still running.
Disarm ==
  /\ armed /\ ~recording
  /\ armed' = FALSE
  /\ UNCHANGED <<request, reply, recording>>

Record ==
  /\ armed /\ ~recording
  /\ recording' = TRUE
  /\ UNCHANGED <<request, reply, armed>>

Halt ==
  /\ recording
  /\ recording' = FALSE
  /\ UNCHANGED <<request, reply, armed>>

Return(c, state) ==
  /\ request[c] # "idle"
  /\ state = "ACQUIRING" => armed /\ request[c] # "stop"
  /\ request[c] = "stop" => ~armed /\ ~recording
  /\ request' = [request EXCEPT ![c] = "idle"]
  /\ reply' = [reply EXCEPT ![c] = state]
  /\ UNCHANGED <<armed, recording>>

Next ==
  \/ \E c \in Clients :
       \/ \E op \in Operations : Call(c, op)
       \/ Arm(c)
       \/ \E state \in AcqState : Return(c, state)
  \/ Disarm
  \/ Record
  \/ Halt

Spec == Init /\ [][Next]_vars
=============================================================================
