---------------------------- MODULE Acquisition ----------------------------
(***************************************************************************)
(* The acquisition of one sensor: core/Acquisitor.py, called by the worker *)
(* threads of the gRPC server, and the core/TcpDump.py threads it creates, *)
(* each of which owns one tcpdump process at a time.                       *)
(*                                                                         *)
(* Acquisitor has no lock: its only state is the attribute self.tcpdump,   *)
(* which the workers and the dump threads' on_stopped callback read and    *)
(* write.  The grain of this module is therefore one read or write of that *)
(* attribute, one lock section, one system call.  A local computation of a *)
(* thread between two of those belongs to the step before it.              *)
(***************************************************************************)

CONSTANTS
  Workers,        \* threads of the gRPC server's pool
  Dumps,          \* TcpDump objects; one that is dead and unreferenced is reused
  Storages,       \* mounted disks
  NoStorage,      \* the empty path
  None,           \* Python's None
  Recommendable,  \* what storage.recommend_storage may answer
  Faults          \* what may go wrong outside the program

FaultKinds ==
  { "create",   \* no storage driver is configured, or no thread can be started
    "select",   \* recommend_storage raises (the storage driver was stopped)
    "mkpath",   \* os.makedirs raises
    "popen",    \* subprocess.Popen raises
    "crash" }   \* tcpdump exits by itself

ASSUME ConstantsAssumption ==
  /\ None \notin Dumps
  /\ NoStorage \notin Storages
  /\ Recommendable \subseteq Storages \cup {NoStorage}
  /\ Faults \subseteq FaultKinds

VARIABLES
  tcpdump,    \* Acquisitor.tcpdump
  pc,         \* pc[w]: where worker w is in its handler
  own,        \* own[w]: the dump w created and has not stored yet, or joins
  reply,      \* reply[w]: the AcqState w answered last, "none" during a call
  thread,     \* thread[d]: where the thread of dump d is in TcpDump.run
  event,      \* event[d]: TcpDump._event is set
  acqState,   \* acqState[d]: TcpDump._acq_state
  process,    \* process[d]: the child TcpDump._process refers to
  current,    \* current[d]: TcpDump._current_storage
  target      \* target[d]: the path the running loop iteration has selected

callVars == <<pc, own, reply>>
dumpVars == <<thread, event, acqState, process, current, target>>
vars == <<tcpdump, pc, own, reply, thread, event, acqState, process, current, target>>

-----------------------------------------------------------------------------
AcqState == {"UNKNOWN", "ACQUIRING", "NOT_ACQUIRING"}

StartLabels == {"start", "already", "create", "assign", "spin", "report"}
StopLabels  == {"stop", "stopSet", "join", "stopClear"}
CheckLabels == {"check", "checkRead"}
Labels == {"idle"} \cup StartLabels \cup StopLabels \cup CheckLabels

\* "none" is an object not created yet, "dead" a thread that has ended.
RunLabels == {"loop", "select", "switch", "reapSwitch", "mkpath", "spawn", "settle",
              "final", "reapFinal", "notify", "clear"}
ThreadLabels == {"none", "dead"} \cup RunLabels

ProcessStates == {"none", "running", "exited"}

Live(d) == thread[d] \in RunLabels

\* The thread is where it may hold a process that has passed the 0.1 s check.
Watches(d) ==
  thread[d] \in {"loop", "select", "switch", "reapSwitch", "final", "reapFinal"}

\* Nothing in the program can reach d any more.
Free(d) ==
  \/ thread[d] = "none"
  \/ thread[d] = "dead" /\ tcpdump # d /\ \A w \in Workers : own[w] # d

Init ==
  /\ tcpdump = None
  /\ pc = [w \in Workers |-> "idle"]
  /\ own = [w \in Workers |-> None]
  /\ reply = [w \in Workers |-> "none"]
  /\ thread = [d \in Dumps |-> "none"]
  /\ event = [d \in Dumps |-> FALSE]
  /\ acqState = [d \in Dumps |-> "UNKNOWN"]
  /\ process = [d \in Dumps |-> "none"]
  /\ current = [d \in Dumps |-> NoStorage]
  /\ target = [d \in Dumps |-> NoStorage]

-----------------------------------------------------------------------------
(* The workers.                                                            *)

Goto(w, label) ==
  /\ pc' = [pc EXCEPT ![w] = label]
  /\ UNCHANGED <<own, reply>>

Answer(w, state) ==
  /\ pc' = [pc EXCEPT ![w] = "idle"]
  /\ own' = [own EXCEPT ![w] = None]
  /\ reply' = [reply EXCEPT ![w] = state]

\* self.tcpdump.state(): the attribute is read again, so it may be None by
\* now; `otherwise` is what the AttributeError this raises is answered with.
AnswerState(w, otherwise) ==
  Answer(w, IF tcpdump = None THEN otherwise ELSE acqState[tcpdump])

\* A request is taken by an idle worker of the pool.
Call(w) ==
  /\ pc[w] = "idle"
  /\ \E op \in {"start", "stop", "check"} : pc' = [pc EXCEPT ![w] = op]
  /\ reply' = [reply EXCEPT ![w] = "none"]
  /\ UNCHANGED <<tcpdump, own, dumpVars>>

StartTest(w) ==
  /\ pc[w] = "start"
  /\ Goto(w, IF tcpdump = None THEN "create" ELSE "already")
  /\ UNCHANGED <<tcpdump, dumpVars>>

StartAlready(w) ==
  /\ pc[w] = "already"
  /\ AnswerState(w, "UNKNOWN")
  /\ UNCHANGED <<tcpdump, dumpVars>>

\* TcpDump(...).start(): the thread runs before the attribute is assigned.
StartCreate(w) ==
  /\ pc[w] = "create"
  /\ \E d \in Dumps :
       /\ Free(d)
       /\ own' = [own EXCEPT ![w] = d]
       /\ thread' = [thread EXCEPT ![d] = "loop"]
       /\ event' = [event EXCEPT ![d] = FALSE]
       /\ acqState' = [acqState EXCEPT ![d] = "UNKNOWN"]
       /\ process' = [process EXCEPT ![d] = "none"]
       /\ current' = [current EXCEPT ![d] = NoStorage]
       /\ target' = [target EXCEPT ![d] = NoStorage]
  /\ pc' = [pc EXCEPT ![w] = "assign"]
  /\ UNCHANGED <<tcpdump, reply>>

\* TcpDump's constructor or start() raises.
StartCreateRaises(w) ==
  /\ "create" \in Faults
  /\ pc[w] = "create"
  /\ Answer(w, "NOT_ACQUIRING")
  /\ UNCHANGED <<tcpdump, dumpVars>>

StartAssign(w) ==
  /\ pc[w] = "assign"
  /\ tcpdump' = own[w]
  /\ own' = [own EXCEPT ![w] = None]
  /\ pc' = [pc EXCEPT ![w] = "spin"]
  /\ UNCHANGED <<reply, dumpVars>>

\* while self.tcpdump.state() == UNKNOWN: sleep
StartSpin(w) ==
  /\ pc[w] = "spin"
  /\ IF tcpdump = None
       THEN Answer(w, "NOT_ACQUIRING")
       ELSE Goto(w, IF acqState[tcpdump] = "UNKNOWN" THEN "spin" ELSE "report")
  /\ UNCHANGED <<tcpdump, dumpVars>>

StartReport(w) ==
  /\ pc[w] = "report"
  /\ AnswerState(w, "NOT_ACQUIRING")
  /\ UNCHANGED <<tcpdump, dumpVars>>

CheckTest(w) ==
  /\ pc[w] = "check"
  /\ IF tcpdump = None THEN Answer(w, "NOT_ACQUIRING") ELSE Goto(w, "checkRead")
  /\ UNCHANGED <<tcpdump, dumpVars>>

CheckRead(w) ==
  /\ pc[w] = "checkRead"
  /\ AnswerState(w, "UNKNOWN")
  /\ UNCHANGED <<tcpdump, dumpVars>>

StopTest(w) ==
  /\ pc[w] = "stop"
  /\ IF tcpdump = None THEN Answer(w, "NOT_ACQUIRING") ELSE Goto(w, "stopSet")
  /\ UNCHANGED <<tcpdump, dumpVars>>

\* TcpDump.stop(), its first half: _event.set()
StopSet(w) ==
  /\ pc[w] = "stopSet"
  /\ IF tcpdump = None
       THEN Answer(w, "UNKNOWN") /\ UNCHANGED event
       ELSE /\ event' = [event EXCEPT ![tcpdump] = TRUE]
            /\ own' = [own EXCEPT ![w] = tcpdump]
            /\ pc' = [pc EXCEPT ![w] = "join"]
            /\ UNCHANGED reply
  /\ UNCHANGED <<tcpdump, thread, acqState, process, current, target>>

\* Mutant: stop() does not join the thread.
StopWithoutJoin(w) ==
  /\ pc[w] = "join"
  /\ Goto(w, "stopClear")
  /\ UNCHANGED <<tcpdump, dumpVars>>

\* TcpDump.stop(), its second half: join()
StopJoin(w) ==
  /\ pc[w] = "join"
  /\ thread[own[w]] = "dead"
  /\ Goto(w, "stopClear")
  /\ UNCHANGED <<tcpdump, dumpVars>>

StopClear(w) ==
  /\ pc[w] = "stopClear"
  /\ tcpdump' = None
  /\ Answer(w, "NOT_ACQUIRING")
  /\ UNCHANGED dumpVars

Handler(w) ==
  \/ StartTest(w) \/ StartAlready(w) \/ StartCreate(w) \/ StartCreateRaises(w)
  \/ StartAssign(w) \/ StartSpin(w) \/ StartReport(w)
  \/ CheckTest(w) \/ CheckRead(w)
  \/ StopTest(w) \/ StopSet(w) \/ StopJoin(w) \/ StopClear(w)

-----------------------------------------------------------------------------
(* The thread of a dump.                                                   *)

Run(d, from, to) ==
  /\ thread[d] = from
  /\ thread' = [thread EXCEPT ![d] = to]

SetState(d, state) == acqState' = [acqState EXCEPT ![d] = state]

\* Mutant: the loop forgets the event.
LoopForever(d) ==
  /\ Run(d, "loop", "select")
  /\ target' = [target EXCEPT ![d] = NoStorage]
  /\ UNCHANGED <<tcpdump, callVars, event, acqState, process, current>>

LoopTest(d) ==
  /\ Run(d, "loop", IF event[d] THEN "final" ELSE "select")
  /\ target' = [target EXCEPT ![d] = NoStorage]
  /\ UNCHANGED <<tcpdump, callVars, event, acqState, process, current>>

\* Mutant: _start_dump is not preceded by _stop_dump.
SelectWithoutStop(d, s) ==
  /\ Run(d, "select", IF s = current[d] THEN "loop" ELSE "mkpath")
  /\ target' = [target EXCEPT ![d] = s]
  /\ UNCHANGED <<tcpdump, callVars, event, acqState, process, current>>

\* _select_storage answers s; a change of storage starts the switch.
Select(d, s) ==
  /\ Run(d, "select", IF s = current[d] THEN "loop" ELSE "switch")
  /\ target' = [target EXCEPT ![d] = s]
  /\ UNCHANGED <<tcpdump, callVars, event, acqState, process, current>>

\* _select_storage raises: 'No storage available', break.
SelectRaises(d) ==
  /\ Run(d, "select", "final")
  /\ SetState(d, "NOT_ACQUIRING")
  /\ UNCHANGED <<tcpdump, callVars, event, process, current, target>>

\* _stop_dump, up to terminate(); nothing to do before the first process.
StopDump(d, from, reap, next) ==
  /\ Run(d, from, IF process[d] = "none" THEN next ELSE reap)
  /\ UNCHANGED <<tcpdump, callVars, event, acqState, process, current, target>>

\* Mutant: _stop_dump leaves the state alone.
ReapKeepsState(d, reap, next) ==
  /\ Run(d, reap, next)
  /\ process[d] = "exited"
  /\ UNCHANGED <<tcpdump, callVars, event, acqState, process, current, target>>

\* _stop_dump, once poll() says the process is gone.
Reap(d, reap, next) ==
  /\ Run(d, reap, next)
  /\ process[d] = "exited"
  /\ SetState(d, "NOT_ACQUIRING")
  /\ UNCHANGED <<tcpdump, callVars, event, process, current, target>>

\* Mutant: the last _stop_dump is dropped.
StopLastDropped(d) ==
  /\ Run(d, "final", "notify")
  /\ UNCHANGED <<tcpdump, callVars, event, acqState, process, current, target>>

StopOld(d)   == StopDump(d, "switch", "reapSwitch", "mkpath")
ReapOld(d)   == Reap(d, "reapSwitch", "mkpath")
StopLast(d)  == StopDump(d, "final", "reapFinal", "notify")
ReapLast(d)  == Reap(d, "reapFinal", "notify")

MakePath(d) ==
  /\ Run(d, "mkpath", "spawn")
  /\ UNCHANGED <<tcpdump, callVars, event, acqState, process, current, target>>

\* os.makedirs is called outside the try block: the thread ends here, with
\* neither _stop_dump nor on_stopped.
MakePathRaises(d) ==
  /\ "mkpath" \in Faults
  /\ Run(d, "mkpath", "dead")
  /\ UNCHANGED <<tcpdump, callVars, event, acqState, process, current, target>>

Spawn(d) ==
  /\ Run(d, "spawn", "settle")
  /\ process' = [process EXCEPT ![d] = "running"]
  /\ UNCHANGED <<tcpdump, callVars, event, acqState, current, target>>

\* The error is logged; what run does next depends on the state left behind.
SpawnRaises(d) ==
  /\ "popen" \in Faults
  /\ Run(d, "spawn", IF acqState[d] = "NOT_ACQUIRING" THEN "final" ELSE "loop")
  /\ UNCHANGED <<tcpdump, callVars, event, acqState, process, current, target>>

\* poll() after 0.1 s: the process lives, the storage becomes the current one.
Settle(d) ==
  /\ process[d] = "running"
  /\ Run(d, "settle", "loop")
  /\ SetState(d, "ACQUIRING")
  /\ current' = [current EXCEPT ![d] = target[d]]
  /\ UNCHANGED <<tcpdump, callVars, event, process, target>>

\* poll() after 0.1 s: the process has ended already.
SettleFails(d) ==
  /\ process[d] = "exited"
  /\ Run(d, "settle", "final")
  /\ SetState(d, "NOT_ACQUIRING")
  /\ process' = [process EXCEPT ![d] = "none"]
  /\ UNCHANGED <<tcpdump, callVars, event, current, target>>

\* Acquisitor.on_stopped, called by the dump's thread as its last act.
Notify(d) ==
  /\ Run(d, "notify", IF tcpdump = None THEN "dead" ELSE "clear")
  /\ UNCHANGED <<tcpdump, callVars, event, acqState, process, current, target>>

Clear(d) ==
  /\ Run(d, "clear", "dead")
  /\ tcpdump' = None
  /\ UNCHANGED <<callVars, event, acqState, process, current, target>>

\* Every step of run but the choice of a storage.
DumpStep(d) ==
  \/ LoopTest(d)
  \/ StopOld(d) \/ ReapOld(d) \/ MakePath(d) \/ MakePathRaises(d)
  \/ Spawn(d) \/ SpawnRaises(d) \/ Settle(d) \/ SettleFails(d)
  \/ StopLast(d) \/ ReapLast(d) \/ Notify(d) \/ Clear(d)

SelectStep(d) ==
  \/ \E s \in Recommendable : Select(d, s)
  \/ "select" \in Faults /\ SelectRaises(d)

-----------------------------------------------------------------------------
(* The tcpdump process.                                                    *)

Signalled(d) == thread[d] \in {"reapSwitch", "reapFinal"}

Exit(d) ==
  /\ process[d] = "running"
  /\ process' = [process EXCEPT ![d] = "exited"]
  /\ UNCHANGED <<tcpdump, callVars, thread, event, acqState, current, target>>

\* tcpdump ends on SIGTERM.
Terminate(d) == Signalled(d) /\ Exit(d)

Crash(d) == "crash" \in Faults /\ ~Signalled(d) /\ Exit(d)

-----------------------------------------------------------------------------
Next ==
  \/ \E w \in Workers : Call(w) \/ Handler(w)
  \/ \E d \in Dumps : DumpStep(d) \/ SelectStep(d) \/ Terminate(d) \/ Crash(d)

Spec == Init /\ [][Next]_vars

\* Every thread of the process is scheduled again and again, and a signalled
\* tcpdump exits.  Nothing obliges a caller to call or a process to crash.
Fairness ==
  /\ \A w \in Workers : WF_vars(Handler(w))
  /\ \A d \in Dumps : WF_vars(DumpStep(d) \/ SelectStep(d)) /\ WF_vars(Terminate(d))

FairSpec == Spec /\ Fairness

-----------------------------------------------------------------------------
(* Properties.                                                             *)

TypeOK ==
  /\ tcpdump \in Dumps \cup {None}
  /\ pc \in [Workers -> Labels]
  /\ own \in [Workers -> Dumps \cup {None}]
  /\ reply \in [Workers -> AcqState \cup {"none"}]
  /\ thread \in [Dumps -> ThreadLabels]
  /\ event \in [Dumps -> BOOLEAN]
  /\ acqState \in [Dumps -> AcqState]
  /\ process \in [Dumps -> ProcessStates]
  /\ current \in [Dumps -> Storages \cup {NoStorage}]
  /\ target \in [Dumps -> Storages \cup {NoStorage}]
  /\ \A w \in Workers : own[w] # None <=> pc[w] \in {"assign", "join", "stopClear"}

\* A tcpdump process never outlives the thread that could terminate it, and
\* a dump never launches a second process over a running one: TcpDump.run
\* leaves its loop, and _start_dump is entered, only behind _stop_dump, on
\* every path out of a failure (Acquisitor may lose the dump, not the dump
\* its process).
ProcessOwned ==
  \A d \in Dumps :
    process[d] = "running" => Watches(d) \/ thread[d] = "settle"

\* What TcpDump.state answers agrees with the child process: a dump that says
\* ACQUIRING has launched a process that outlived the 0.1 s check and has a
\* thread that watches it, and a process that runs is reported, but for the
\* 0.1 s of the check and while a dump without a storage winds up.
StateAgrees ==
  \A d \in Dumps :
    /\ acqState[d] = "ACQUIRING" => Watches(d) /\ process[d] # "none"
    /\ process[d] = "running" =>
         acqState[d] = "ACQUIRING" \/ thread[d] \in {"settle", "final", "reapFinal"}

\* One call at a time: with a single worker Acquisitor never loses sight of a
\* dump.  A live dump is the one self.tcpdump refers to, or the one the
\* running start or stop call holds.
NoOrphan ==
  \A d \in Dumps : Live(d) => tcpdump = d \/ \E w \in Workers : own[w] = d

\* When check_acquisition would answer NOT_ACQUIRING for want of a dump and no
\* call is in progress, nothing records.
NotAcquiringIsQuiet ==
  tcpdump = None /\ (\A w \in Workers : pc[w] = "idle")
    => \A d \in Dumps : process[d] # "running"

\* A stop call returns: the join of a dump's thread is never waited for in
\* vain, wherever that thread was when the event was set.
StopReturns ==
  \A w \in Workers : pc[w] \in StopLabels ~> pc[w] = "idle"

\* A dump that was told to stop stops recording, also when the event is set in
\* the middle of a change of storage.
StopEndsRecording ==
  \A d \in Dumps : (Live(d) /\ event[d]) ~> process[d] # "running"

\* core/const/AcqState.py calls ACQUIRING "being collected": a dump whose
\* process is gone does not go on saying so.
ExitIsNoticed ==
  \A d \in Dumps :
    (acqState[d] = "ACQUIRING" /\ process[d] = "exited") ~> acqState[d] # "ACQUIRING"

-----------------------------------------------------------------------------
(* The service promises what Recorder says to a caller that waits for each *)
(* answer before its next call.                                            *)

Request(label) ==
  CASE label \in StartLabels -> "start"
    [] label \in StopLabels  -> "stop"
    [] label \in CheckLabels -> "check"
    [] OTHER                 -> "idle"

R == INSTANCE Recorder WITH
       Clients   <- Workers,
       request   <- [w \in Workers |-> Request(pc[w])],
       reply     <- reply,
       armed     <- \E d \in Dumps : Live(d),
       recording <- \E d \in Dumps : process[d] = "running"

\* Acquisitor with a single worker implements Recorder: recording starts only
\* on behalf of a start call, ACQUIRING is answered only while a dump lives,
\* and stop_acquisition returns only when nothing records or ever will.
ImplementsRecorder == R!Spec
=============================================================================
