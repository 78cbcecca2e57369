----------------------------- MODULE CameraPipe -----------------------------
(***************************************************************************)
(* A camera's GStreamer pipe (SWM100FHD/gst_pipe.py, a thread with a GLib  *)
(* loop) and the USBCamera's start and stop calls, which share the         *)
(* attribute _gst_pipe without a lock.  A pipe that does not run and that  *)
(* nothing refers to is reused for the next one.  (The SWM100FHD makes one *)
(* pipe in on_start and stops it in on_stop.)                              *)
(***************************************************************************)
EXTENDS Integers, FiniteSets

CONSTANTS Handlers,           \* workers with a call for this camera
          Pipes, NoPipe

ASSUME CameraPipeConstants == NoPipe \notin Pipes

VARIABLES _gst_pipe,
          pipePc,             \* a pipe's thread
          early,              \* (history) pipes whose quit came before their loop ran
          handlerPc,
          held                \* the pipe a handler has read and joins

cameraVars == <<_gst_pipe, pipePc, early, handlerPc, held>>

CameraInit ==
  /\ _gst_pipe = NoPipe
  /\ pipePc = [p \in Pipes |-> "none"]
  /\ early = {}
  /\ handlerPc = [h \in Handlers |-> "idle"]
  /\ held = [h \in Handlers |-> NoPipe]

isAlive(p) == pipePc[p] \in {"build", "loop", "running", "cleanup"}
PipeGoes(p, place) == pipePc' = [pipePc EXCEPT ![p] = place]
HandlerGoes(h, place) == handlerPc' = [handlerPc EXCEPT ![h] = place]

Forgotten == {p \in Pipes : pipePc[p] \in {"none", "made", "failed", "ended"} /\ p # _gst_pipe
                            /\ \A h \in Handlers : held[h] # p}

-----------------------------------------------------------------------------
\* start_acquisition

\* (Bound: the pipes that are lost and run for ever leave one to make.)
StartCamera(h) ==
  /\ handlerPc[h] = "idle"
  /\ Cardinality(Forgotten) > Cardinality({g \in Handlers : handlerPc[g] \in {"alive", "create"}})
  /\ HandlerGoes(h, IF _gst_pipe = NoPipe THEN "create" ELSE "alive")
  /\ UNCHANGED <<_gst_pipe, pipePc, early, held>>

\* The attribute is read again; None has no is_alive, and the call is over.
StartAlive(h) ==
  /\ handlerPc[h] = "alive"
  /\ HandlerGoes(h, IF _gst_pipe = NoPipe \/ isAlive(_gst_pipe) THEN "idle" ELSE "create")
  /\ UNCHANGED <<_gst_pipe, pipePc, early, held>>

CreatePipe(h) ==
  /\ handlerPc[h] = "create"
  /\ \E p \in Forgotten :
       _gst_pipe' = p /\ PipeGoes(p, "made") /\ early' = early \ {p}
  /\ HandlerGoes(h, "start")
  /\ UNCHANGED held

\* Whatever the attribute holds now is started; a thread starts once, and None not at all.
StartPipe(h) ==
  /\ handlerPc[h] = "start"
  /\ IF _gst_pipe # NoPipe /\ pipePc[_gst_pipe] = "made"
     THEN PipeGoes(_gst_pipe, "build")
     ELSE UNCHANGED pipePc
  /\ HandlerGoes(h, "idle")
  /\ UNCHANGED <<_gst_pipe, early, held>>

-----------------------------------------------------------------------------
\* stop_acquisition and on_stop

StopCamera(h) ==
  /\ handlerPc[h] = "idle" /\ _gst_pipe # NoPipe
  /\ HandlerGoes(h, "stop")
  /\ UNCHANGED <<_gst_pipe, pipePc, early, held>>

\* The attribute is read again; None has no stop.
ReadPipe(h) ==
  /\ handlerPc[h] = "stop"
  /\ IF _gst_pipe = NoPipe
     THEN HandlerGoes(h, "idle") /\ UNCHANGED held
     ELSE HandlerGoes(h, "quit") /\ held' = [held EXCEPT ![h] = _gst_pipe]
  /\ UNCHANGED <<_gst_pipe, pipePc, early>>

\* Mutant: the join comes before the quit.
JoinBeforeQuit(h) ==
  /\ handlerPc[h] = "quit" /\ HandlerGoes(h, "join")
  /\ UNCHANGED <<_gst_pipe, pipePc, early, held>>

\* abGstPipe.stop without a loop raises; GLib forgets a quit that comes before its run.
QuitLoop(h) ==
  LET p == held[h] IN
  /\ handlerPc[h] = "quit"
  /\ IF pipePc[p] \in {"made", "build", "failed"}
     THEN HandlerGoes(h, "idle") /\ held' = [held EXCEPT ![h] = NoPipe] /\ UNCHANGED <<pipePc, early>>
     ELSE /\ HandlerGoes(h, "join") /\ UNCHANGED held
          /\ pipePc' = [pipePc EXCEPT ![p] = IF @ = "running" THEN "cleanup" ELSE @]
          /\ early' = IF pipePc[p] = "loop" THEN early \cup {p} ELSE early
  /\ UNCHANGED _gst_pipe

JoinPipe(h) ==
  /\ handlerPc[h] = "join" /\ pipePc[held[h]] = "ended"
  /\ HandlerGoes(h, "clear") /\ held' = [held EXCEPT ![h] = NoPipe]
  /\ UNCHANGED <<_gst_pipe, pipePc, early>>

ClearPipe(h) ==
  /\ handlerPc[h] = "clear"
  /\ _gst_pipe' = NoPipe /\ HandlerGoes(h, "idle")
  /\ UNCHANGED <<pipePc, early, held>>

Handler(h) ==
  StartAlive(h) \/ CreatePipe(h) \/ StartPipe(h) \/ ReadPipe(h) \/ QuitLoop(h) \/ JoinPipe(h) \/ ClearPipe(h)

-----------------------------------------------------------------------------
\* abGstPipe.run

\* The elements are made, then the loop; or one of them is missing, which ends the thread.
BuildPipe(p) ==
  /\ pipePc[p] = "build"
  /\ \E place \in {"loop", "failed"} : PipeGoes(p, place)
  /\ UNCHANGED <<_gst_pipe, early, handlerPc, held>>

RunLoop(p) ==
  /\ pipePc[p] = "loop"
  /\ PipeGoes(p, "running")
  /\ UNCHANGED <<_gst_pipe, early, handlerPc, held>>

\* bus_callback on an error or the end of the stream: stop quits the loop, and its join of
\* the thread it runs in raises, which GLib prints.
BusStops(p) ==
  /\ pipePc[p] = "running"
  /\ PipeGoes(p, "cleanup")
  /\ UNCHANGED <<_gst_pipe, early, handlerPc, held>>

CleanUp(p) ==
  /\ pipePc[p] = "cleanup"
  /\ PipeGoes(p, "ended")
  /\ UNCHANGED <<_gst_pipe, early, handlerPc, held>>

PipeThread(p) == BuildPipe(p) \/ RunLoop(p) \/ CleanUp(p)

CameraNext ==
  \/ \E h \in Handlers : StartCamera(h) \/ StopCamera(h) \/ Handler(h)
  \/ \E p \in Pipes : PipeThread(p) \/ BusStops(p)

\* A call comes to its end, however calls overlap and the pipe fails, or it joins for ever a
\* pipe whose quit came between the making of its loop and its run (gst_pipe.py:47-73,
\* USBCamera/driver.py:44-59).
CameraCallsReturn ==
  \A h \in Handlers :
    handlerPc[h] # "idle" ~> (handlerPc[h] = "idle" \/ [](handlerPc[h] = "join" /\ held[h] \in early))
=============================================================================
