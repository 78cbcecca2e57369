--------------------------- MODULE DriverRegistry ---------------------------
(***************************************************************************)
(* The recording service's table of drivers (core/Drivers.py): load, which *)
(* starts the configured drivers one by one; stop_all, which stops them in *)
(* the same order; and those who go through the table without a lock, the  *)
(* thread of the PseudoLidar's renderer and the workers that answer        *)
(* get_snapshots.  A dictionary that grows under a loop makes it raise.    *)
(*                                                                         *)
(* A driver is what the table sees of it: on_start and on_stop, either of  *)
(* which may raise, the threads it leaves, and a snapshot.  The BynavX1's  *)
(* polls without limit for a first position.  (When an on_stop does not    *)
(* return is what DriverThreads, HesaiLidar and RsDriver are about; the    *)
(* acquisitions and the storage driver have modules of their own too.)     *)
(*                                                                         *)
(* main calls stop_all when run raises before the server is there, for     *)
(* instance on a port in use; a served service ends with its process.      *)
(***************************************************************************)
EXTENDS Integers, Sequences, FiniteSets, SequencesExt

CONSTANTS Sensors,       \* the sensors of the configuration, without the renderer
          Polling,       \* of these, whose snapshot polls for a position: the BynavX1
          Renderer,      \* the PseudoLidar
          Workers,       \* of the server's pool
          Polls          \* 100 in PseudoLidarRenderer.snapshot

ASSUME DriverRegistryConstants ==
  /\ IsFiniteSet(Sensors) /\ Polling \subseteq Sensors /\ Renderer \notin Sensors /\ Polls \in Nat

VARIABLES mainPc, order,      \* order: the configuration, a sequence
          _drivers,           \* the table: the names, in their order
          _is_init_ref,
          alive,              \* drivers whose threads run
          stopped,            \* the drivers stop_all has stopped
          renderPc, renderAt, renderLen,   \* the renderer's loop: its place, and the table's size
          event,              \* its stop event
          image,              \* a first image is there
          workerPc, workerAt, workerLen, polled,   \* get_snapshots; polled: the counter as read
          snapshot_counter,   \* one for all workers
          positions           \* the drivers that have a position

mainVars == <<mainPc, order, _drivers, _is_init_ref, alive, stopped>>
renderVars == <<renderPc, renderAt, renderLen>>
workerVars == <<workerPc, workerAt, workerLen, polled, snapshot_counter, positions>>
registryVars == <<mainVars, renderVars, event, image, workerVars>>

RegistryInit ==
  /\ mainPc = "start" /\ order \in SetToSeqs(Sensors \cup {Renderer})
  /\ _drivers = <<>> /\ _is_init_ref = FALSE /\ alive = {} /\ stopped = 0
  /\ renderPc = "none" /\ renderAt = 0 /\ renderLen = 0 /\ event = FALSE /\ image = FALSE
  /\ workerPc = [w \in Workers |-> "idle"]
  /\ workerAt = [w \in Workers |-> 0] /\ workerLen = [w \in Workers |-> 0]
  /\ polled = [w \in Workers |-> 0] /\ snapshot_counter = 0 /\ positions = {}

-----------------------------------------------------------------------------
\* Drivers.load

Loading == order[Len(_drivers) + 1]

\* on_start; it may have started some of its threads when it raises.
StartDriver ==
  /\ mainPc = "start" /\ Len(_drivers) < Len(order)
  /\ alive' = alive \cup {Loading}
  /\ renderPc' = IF Loading = Renderer THEN "wait" ELSE renderPc
  /\ mainPc' = "register"
  /\ UNCHANGED <<order, _drivers, _is_init_ref, stopped, renderAt, renderLen, event, image, workerVars>>

\* Mutant: a failed load stops what it has started.
FailStopsAll ==
  /\ mainPc = "start" /\ Len(_drivers) < Len(order) /\ Loading # Renderer
  /\ mainPc' = "stopAll"
  /\ UNCHANGED <<order, _drivers, _is_init_ref, alive, stopped, renderVars, event, image, workerVars>>

\* It raises: so does load, __init__ ends without the table, and main with a message.
StartFails ==
  /\ mainPc = "start" /\ Len(_drivers) < Len(order) /\ Loading # Renderer
  /\ mainPc' = "failed"
  /\ alive' \in {alive, alive \cup {Loading}}
  /\ UNCHANGED <<order, _drivers, _is_init_ref, stopped, renderVars, event, image, workerVars>>

Register ==
  /\ mainPc = "register"
  /\ _drivers' = Append(_drivers, Loading)
  /\ mainPc' = "start"
  /\ UNCHANGED <<order, _is_init_ref, alive, stopped, renderVars, event, image, workerVars>>

\* All are registered; run serves, or raises, and the table's owner is deleted.
Loaded ==
  /\ mainPc = "start" /\ Len(_drivers) = Len(order)
  /\ _is_init_ref' = TRUE
  /\ mainPc' \in {"serve", "stopAll"}
  /\ UNCHANGED <<order, _drivers, alive, stopped, renderVars, event, image, workerVars>>

-----------------------------------------------------------------------------
\* Drivers.stop_all

\* on_stop of another driver, which joins its threads.
StopDriver ==
  /\ mainPc = "stopAll" /\ stopped < Len(_drivers) /\ _drivers[stopped + 1] # Renderer
  /\ mainPc' = "onStop"
  /\ UNCHANGED <<order, _drivers, _is_init_ref, alive, stopped, renderVars, event, image, workerVars>>

\* It returns, or raises, which ends stop_all; or it never does either.
DriverStopped ==
  /\ mainPc = "onStop"
  /\ \/ alive' = alive \ {_drivers[stopped + 1]} /\ stopped' = stopped + 1 /\ mainPc' = "stopAll"
     \/ mainPc' = "ended" /\ UNCHANGED <<alive, stopped>>
  /\ UNCHANGED <<order, _drivers, _is_init_ref, renderVars, event, image, workerVars>>

\* PseudoLidarRenderer.stop: the event, then the join.
StopRenderer ==
  /\ mainPc = "stopAll" /\ stopped < Len(_drivers) /\ _drivers[stopped + 1] = Renderer
  /\ event' = TRUE /\ mainPc' = "joinRenderer"
  /\ UNCHANGED <<order, _drivers, _is_init_ref, alive, stopped, renderVars, image, workerVars>>

JoinRenderer ==
  /\ mainPc = "joinRenderer" /\ renderPc = "exited"
  /\ alive' = alive \ {Renderer} /\ stopped' = stopped + 1 /\ mainPc' = "stopAll"
  /\ UNCHANGED <<order, _drivers, _is_init_ref, renderVars, event, image, workerVars>>

StoppedAll ==
  /\ mainPc = "stopAll" /\ stopped = Len(_drivers)
  /\ mainPc' = "ended"
  /\ UNCHANGED <<order, _drivers, _is_init_ref, alive, stopped, renderVars, event, image, workerVars>>

\* What main does by itself.
Main == \/ StartDriver \/ StartFails \/ Register \/ Loaded
        \/ StopDriver \/ StopRenderer \/ JoinRenderer \/ StoppedAll

-----------------------------------------------------------------------------
\* PseudoLidarRenderer.run

\* Mutant: it does not wait for the table.
WaitsForNothing ==
  /\ renderPc = "wait"
  /\ renderPc' = "loop"
  /\ UNCHANGED <<mainVars, renderAt, renderLen, event, image, workerVars>>

\* (Each time in vain is a stuttering step; the event is not looked at.)
RenderWaits ==
  /\ renderPc = "wait" /\ _is_init_ref
  /\ renderPc' = "loop"
  /\ UNCHANGED <<mainVars, renderAt, renderLen, event, image, workerVars>>

RenderStops ==
  /\ renderPc = "loop" /\ event
  /\ renderPc' = "exited"
  /\ UNCHANGED <<mainVars, renderAt, renderLen, event, image, workerVars>>

\* render: OpenGL may raise, which ends the thread; then points begins its loop.
RenderBegins ==
  /\ renderPc = "loop" /\ ~event
  /\ renderPc' \in {"points", "exited"}
  /\ renderAt' = 0 /\ renderLen' = Len(_drivers)
  /\ UNCHANGED <<mainVars, event, image, workerVars>>

\* The next driver of the table: pcd, and whatever it raises is passed over; not so what the
\* loop raises when the table has grown.
RenderAsks ==
  /\ renderPc = "points" /\ (Len(_drivers) = renderLen => renderAt < renderLen)
  /\ IF Len(_drivers) = renderLen
     THEN renderAt' = renderAt + 1 /\ UNCHANGED renderPc
     ELSE renderPc' = "exited" /\ UNCHANGED renderAt
  /\ UNCHANGED <<mainVars, renderLen, event, image, workerVars>>

\* Without a point there is no new image.
RenderImage ==
  /\ renderPc = "points" /\ Len(_drivers) = renderLen /\ renderAt = renderLen
  /\ renderPc' = "loop"
  /\ image' \in {image, TRUE}
  /\ UNCHANGED <<mainVars, renderAt, renderLen, event, workerVars>>

Render == \/ RenderWaits \/ RenderStops \/ RenderBegins
          \/ RenderAsks \/ RenderImage

-----------------------------------------------------------------------------
\* get_snapshots, in a worker of the server

CallSnapshots(w) ==
  /\ mainPc = "serve" /\ workerPc[w] = "idle" /\ _is_init_ref
  /\ workerPc' = [workerPc EXCEPT ![w] = "next"]
  /\ workerAt' = [workerAt EXCEPT ![w] = 0]
  /\ workerLen' = [workerLen EXCEPT ![w] = Len(_drivers)]
  /\ UNCHANGED <<mainVars, renderVars, event, image, polled, snapshot_counter, positions>>

\* The next driver answers, those that poll later; after the last one, or when the table
\* has grown, the call is over.
NextSnapshot(w) ==
  /\ workerPc[w] = "next"
  /\ IF Len(_drivers) = workerLen[w] /\ workerAt[w] < workerLen[w]
     THEN LET next == _drivers[workerAt[w] + 1]
          IN  /\ workerAt' = [workerAt EXCEPT ![w] = @ + 1]
              /\ workerPc' = [workerPc EXCEPT ![w] = CASE next = Renderer -> "poll"
                                                       [] next \in Polling -> "position"
                                                       [] OTHER -> "next"]
     ELSE UNCHANGED workerAt /\ workerPc' = [workerPc EXCEPT ![w] = "idle"]
  /\ UNCHANGED <<mainVars, renderVars, event, image, workerLen, polled, snapshot_counter, positions>>

\* BynavX1Proxy.get_location.  A position stays; without one this is polled for ever.
GetLocation(w) ==
  /\ workerPc[w] = "position" /\ _drivers[workerAt[w]] \in positions
  /\ workerPc' = [workerPc EXCEPT ![w] = "next"]
  /\ UNCHANGED <<mainVars, renderVars, event, image, workerAt, workerLen, polled, snapshot_counter,
                 positions>>

\* The device sends its first position.
PositionComes ==
  /\ \E s \in Polling \cap alive : positions' = positions \cup {s}
  /\ UNCHANGED <<mainVars, renderVars, event, image, workerPc, workerAt, workerLen, polled,
                 snapshot_counter>>

\* PseudoLidarRenderer.snapshot polls for the first image; the counter of the polls is the
\* object's.  It is read and written in two steps.
PollSnapshot(w) ==
  /\ workerPc[w] = "poll"
  /\ IF image \/ snapshot_counter > Polls
     THEN /\ snapshot_counter' = 0
          /\ workerPc' = [workerPc EXCEPT ![w] = "next"]
          /\ UNCHANGED polled
     ELSE /\ polled' = [polled EXCEPT ![w] = snapshot_counter]
          /\ workerPc' = [workerPc EXCEPT ![w] = "count"]
          /\ UNCHANGED snapshot_counter
  /\ UNCHANGED <<mainVars, renderVars, event, image, workerAt, workerLen, positions>>

CountPoll(w) ==
  /\ workerPc[w] = "count"
  /\ snapshot_counter' = polled[w] + 1
  /\ workerPc' = [workerPc EXCEPT ![w] = "poll"]
  /\ UNCHANGED <<mainVars, renderVars, event, image, workerAt, workerLen, polled, positions>>

Worker(w) == NextSnapshot(w) \/ GetLocation(w) \/ PollSnapshot(w) \/ CountPoll(w)

RegistryNext ==
  \/ Main \/ DriverStopped \/ PositionComes
  \/ Render
  \/ \E w \in Workers : CallSnapshots(w) \/ Worker(w)

\* Every thread gets its turns; that an on_stop returns and a position comes is not in them.
RegistrySpec ==
  /\ RegistryInit /\ [][RegistryNext]_registryVars
  /\ WF_registryVars(Main) /\ WF_registryVars(Render)
  /\ \A w \in Workers : WF_registryVars(Worker(w))

-----------------------------------------------------------------------------
\* Properties

\* No loop over the table meets a registration, although nobody takes a lock: load sets
\* _is_init_ref last, and whoever loops has waited for it.
TableStandsStill ==
  /\ renderPc = "points" => Len(_drivers) = renderLen
  /\ \A w \in Workers : workerPc[w] # "idle" => Len(_drivers) = workerLen[w]

\* stop_all comes to its end, although the renderer does not look at its stop event before
\* the table is complete, unless it stands for ever in another driver's on_stop.  And
\* get_snapshots returns, with or without an image, although the workers count their polls
\* in one counter that loses and resets counts: unless it polls for ever for a position, or
\* the calls of another worker, of which each resets the counter, do not end.
EveryoneReturns ==
  /\ mainPc \in {"stopAll", "onStop", "joinRenderer"} ~> (mainPc = "ended" \/ [](mainPc = "onStop"))
  /\ \A w \in Workers :
       workerPc[w] # "idle" ~>
         \/ workerPc[w] = "idle"
         \/ [](workerPc[w] = "position" /\ _drivers[workerAt[w]] \notin positions)
         \/ \E v \in Workers \ {w} : []<>(workerPc[v] = "poll") /\ []<>(workerPc[v] = "idle")
=============================================================================
