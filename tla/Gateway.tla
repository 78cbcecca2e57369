------------------------------- MODULE Gateway -------------------------------
(***************************************************************************)
(* The gateway (core/Devices.py, core/Device.py) over the service that     *)
(* records for all devices (acq_ip) and its pool of workers.  An operation *)
(* on all sensors visits one device after another and calls the service    *)
(* once per sensor; one on a single sensor calls it at once.  Calls have a *)
(* deadline, snapshots have none; a handler whose caller gave up goes on   *)
(* in its worker.                                                          *)
(*                                                                         *)
(* The handlers of the service share Acquisitor's attribute `tcpdump` with *)
(* each other and with the recorders' threads, without a lock: every read  *)
(* and every assignment of it is a step of its own.  A recorder (TcpDump)  *)
(* is seen by its state and by the end of its thread; what it does with    *)
(* disks and processes is in Acquisition.                                  *)
(***************************************************************************)
EXTENDS Naturals, Sequences, FiniteSets, SequencesExt

CONSTANTS
  Sensors,   \* the sensors of the vehicle, <device>/<sensor>
  Devices,   \* the devices, each given as the set of its sensors
  Cpu,       \* the device whose service records
  Clients,   \* threads of the gateway that run an operation
  Workers,   \* threads of the service's pool
  Dumps,     \* the recorder threads the service's host can run
  None,      \* Python's None
  Faults     \* what may go wrong outside the program

GatewayFaults ==
  { "refuse",   \* a recorder gives up, before it has recorded or later
    "mkpath",   \* a recorder's thread dies in os.makedirs
    "crash",    \* the service restarts
    "down" }    \* another device's service does not answer

Kinds == {"start", "stop", "check", "list", "snapshot"}
CallSet == [from : Clients \cup {None}, kind : Kinds, target : Sensors \cup Devices]

ASSUME GatewayAssumption ==
  /\ Devices \subseteq SUBSET Sensors
  /\ Sensors = UNION Devices
  /\ Cpu \in Devices
  /\ None \notin Clients \cup Sensors \cup Devices \cup Dumps \cup CallSet
  /\ Faults \subseteq GatewayFaults

VARIABLES
  op,        \* op[c]: the operation c runs, or "idle"
  left,      \* left[c]: the devices it has not visited
  todo,      \* todo[c]: the sensors of the visited device it has not called
  sent,      \* sent[c]: the call c waits for, or None
  known,     \* the devices whose Device._sensors is filled
  queue,     \* the calls in the executor's queue
  job,       \* job[w]: the call worker w runs, or None
  at,        \* at[w]: how far it is
  own,       \* own[w]: the recorder it has created, or joins, or None
  tcpdump,   \* tcpdump[s]: the recorder Acquisitor knows of, or None
  of,        \* of[d]: the sensor recorder d is for
  thread,    \* thread[d]: "loop", in on_stopped ("notify", "clear") or "gone"
  acqState,  \* acqState[d]: TcpDump._acq_state
  halting,   \* the recorders whose _event is set, until their thread is gone
  located,   \* the drivers that report a position have one
  started,   \* history: the sensors a start call was sent for
  owed,      \* history: owed[c]: what c's stop for all sensors must still call
  raced,     \* history: the sensors whose start crossed another handler
  quiet      \* history: the sensors answered NOT_ACQUIRING with no start under way

clientVars == <<op, left, todo, sent, known>>
jobVars == <<job, at, own>>
dumpVars == <<of, thread, acqState, halting>>
historyVars == <<started, owed, raced, quiet>>
gvars == <<clientVars, queue, jobVars, tcpdump, dumpVars, located, historyVars>>

Operations == {"start", "stop", "check", "snapshot"}

\* Where a worker is in its handler.
Stages == {"idle", "test", "create", "assign", "poll", "set", "join", "clear"}

\* `from` is None once the caller has given up.
Call(c, kind, target) == [from |-> c, kind |-> kind, target |-> target]

GInit ==
  /\ op = [c \in Clients |-> "idle"]
  /\ left = [c \in Clients |-> {}]
  /\ todo = [c \in Clients |-> {}]
  /\ sent = [c \in Clients |-> None]
  /\ known = {}
  /\ queue = <<>>
  /\ job = [w \in Workers |-> None]
  /\ at = [w \in Workers |-> "idle"]
  /\ own = [w \in Workers |-> None]
  /\ tcpdump = [s \in Sensors |-> None]
  /\ of \in [Dumps -> Sensors]
  /\ thread = [d \in Dumps |-> "gone"]
  /\ acqState = [d \in Dumps |-> "NOT_ACQUIRING"]
  /\ halting = {}
  /\ located = FALSE
  /\ started = {} /\ raced = {} /\ quiet = {}
  /\ owed = [c \in Clients |-> {}]

-----------------------------------------------------------------------------
(* The gateway.                                                            *)

Listed(s) == \E dev \in known : s \in dev

\* An operation on all sensors.  A stop then owes a call to each started sensor
\* that is on a list fetched before.
BeginAll(c, o) ==
  /\ op[c] = "idle"
  /\ op' = [op EXCEPT ![c] = o]
  /\ left' = [left EXCEPT ![c] = Devices]
  /\ owed' = [owed EXCEPT ![c] = IF o = "stop" THEN {s \in started : Listed(s)} ELSE {}]
  /\ UNCHANGED <<todo, sent, known, queue, jobVars, tcpdump, dumpVars, located, started, raced, quiet>>

\* An operation on one sensor: the list of its device is not asked for.
BeginOne(c, o, s) ==
  /\ op[c] = "idle"
  /\ op' = [op EXCEPT ![c] = o]
  /\ todo' = [todo EXCEPT ![c] = {s}]
  /\ UNCHANGED <<left, sent, known, queue, jobVars, tcpdump, dumpVars, located, historyVars>>

\* Between two calls of its operation.
Loops(c) == op[c] # "idle" /\ sent[c] = None

\* Calls that are not for the recording service go to another device's.
Send(c, kind, target) ==
  /\ sent' = [sent EXCEPT ![c] = Call(c, kind, target)]
  /\ queue' = IF kind \in {"list", "snapshot"} /\ target # Cpu
                THEN queue
                ELSE Append(queue, Call(c, kind, target))
  /\ UNCHANGED <<op, known, jobVars, tcpdump, dumpVars, located>>

\* Mutant: Device.sensors asks the service every time.
NeverFilled(dev) == FALSE

\* Device.sensors: an empty list is asked for again.
Filled(dev) == dev \in known /\ dev # {}

Visit(c, dev) ==
  /\ Loops(c) /\ todo[c] = {}
  /\ dev \in left[c]
  /\ left' = [left EXCEPT ![c] = @ \ {dev}]
  /\ IF op[c] # "snapshot" /\ Filled(dev)
       THEN /\ todo' = [todo EXCEPT ![c] = dev]
            /\ UNCHANGED <<op, sent, known, queue, jobVars, tcpdump, dumpVars, located>>
       ELSE /\ Send(c, IF op[c] = "snapshot" THEN "snapshot" ELSE "list", dev)
            /\ UNCHANGED todo
  /\ UNCHANGED historyVars

\* One sensor is called.
Ask(c, s) ==
  /\ Loops(c)
  /\ s \in todo[c]
  /\ todo' = [todo EXCEPT ![c] = @ \ {s}]
  /\ Send(c, op[c], s)
  /\ started' = IF op[c] = "start" THEN started \cup {s} ELSE started
  /\ owed' = [owed EXCEPT ![c] = @ \ {s}]
  /\ quiet' = IF op[c] = "start" THEN quiet \ {s} ELSE quiet
  /\ UNCHANGED <<left, raced>>

Return(c) ==
  /\ Loops(c) /\ todo[c] = {} /\ left[c] = {}
  /\ op' = [op EXCEPT ![c] = "idle"]
  /\ owed' = [owed EXCEPT ![c] = {}]
  /\ UNCHANGED <<left, todo, sent, known, queue, jobVars, tcpdump, dumpVars, located, started, raced, quiet>>

HasDeadline(kind) == kind # "snapshot"

\* gRPC: a worker does not run the handler of a call that was given up.  A
\* client has one call in the queue at most.
Withdrawn(c) ==
  LET places == {i \in DOMAIN queue : queue[i].from = c}
  IN  IF places = {} THEN queue ELSE RemoveAt(queue, CHOOSE i \in places : TRUE)

\* The call ends with an RpcError: UNKNOWN, or no sensors.
Fails(c) ==
  /\ sent' = [sent EXCEPT ![c] = None]
  /\ UNCHANGED <<op, left, todo, known, tcpdump, dumpVars, located, historyVars>>

Expire(c) ==
  /\ sent[c] # None /\ HasDeadline(sent[c].kind)
  /\ Fails(c)
  /\ queue' = Withdrawn(c)
  /\ job' = [w \in Workers |->
               IF job[w] # None /\ job[w].from = c THEN [job[w] EXCEPT !.from = None] ELSE job[w]]
  /\ UNCHANGED <<at, own>>

\* A start call that has not stored its recorder yet.
StartUnderWay(s) ==
  \/ \E i \in DOMAIN queue : queue[i].kind = "start" /\ queue[i].target = s
  \/ \E w \in Workers : /\ job[w] # None /\ job[w].kind = "start" /\ job[w].target = s
                        /\ at[w] \in {"test", "create", "assign"}

\* What the caller does with the answer to `call`; `stopped` if that is the
\* NOT_ACQUIRING of a stop.
Receive(call, stopped) ==
  IF call.from = None
    THEN UNCHANGED <<clientVars, historyVars>>
    ELSE /\ sent' = [sent EXCEPT ![call.from] = None]
         /\ IF call.kind = "list"
              THEN /\ todo' = [todo EXCEPT ![call.from] = call.target]
                   /\ known' = known \cup {call.target}
              ELSE UNCHANGED <<todo, known>>
         /\ quiet' = IF stopped /\ ~StartUnderWay(call.target)
                       THEN quiet \cup {call.target} ELSE quiet
         /\ UNCHANGED <<op, left, started, owed, raced>>

\* Another device's service.
Elsewhere(c) == sent[c] # None /\ sent[c].kind \in {"list", "snapshot"} /\ sent[c].target # Cpu

\* (Its drivers may report positions too.)
OtherAnswers(c) ==
  /\ Elsewhere(c)
  /\ sent[c].kind = "snapshot" => located
  /\ Receive(sent[c], FALSE)
  /\ UNCHANGED <<queue, jobVars, tcpdump, dumpVars, located>>

OtherFails(c) ==
  /\ "down" \in Faults
  /\ Elsewhere(c)
  /\ Fails(c)
  /\ UNCHANGED <<queue, jobVars>>

-----------------------------------------------------------------------------
(* The service's workers.                                                  *)

\* The worker is in the given handler, at the given place.
Runs(w, kind, stage) == job[w] # None /\ job[w].kind = kind /\ at[w] = stage

\* The handler returns and the worker is free.
Answers(w, call, stopped) ==
  /\ Receive(call, stopped)
  /\ job' = [job EXCEPT ![w] = None]
  /\ at' = [at EXCEPT ![w] = "idle"]
  /\ own' = [own EXCEPT ![w] = None]

GoesTo(w, stage) ==
  /\ at' = [at EXCEPT ![w] = stage]
  /\ UNCHANGED <<clientVars, queue, job>>

\* Lists and states are answered at once.
Take(w) ==
  /\ job[w] = None /\ queue # <<>>
  /\ queue' = Tail(queue)
  /\ LET call == Head(queue) IN
       IF call.kind \in {"start", "stop", "snapshot"}
         THEN /\ job' = [job EXCEPT ![w] = call]
              /\ at' = [at EXCEPT ![w] = IF call.kind = "snapshot" THEN "poll" ELSE "test"]
              /\ UNCHANGED <<clientVars, own, historyVars>>
         ELSE Answers(w, call, FALSE)
  /\ UNCHANGED <<tcpdump, dumpVars, located>>

\* get_snapshots: some driver polls for a position without limit.
EndSnapshot(w) ==
  /\ Runs(w, "snapshot", "poll")
  /\ located
  /\ Answers(w, job[w], FALSE)
  /\ UNCHANGED <<queue, tcpdump, dumpVars, located>>

\* A start that found no recorder and has not stored its own yet, or a stop that
\* has set the event and not forgotten the recorder yet.
Crossed(s) ==
  \E w \in Workers : /\ job[w] # None /\ job[w].target = s
                     /\ at[w] \in {"create", "assign", "join", "clear"}

\* Acquisitor.start_acquisition: `if self.tcpdump`.
StartTest(w) ==
  /\ Runs(w, "start", "test")
  /\ LET s == job[w].target IN
       IF tcpdump[s] # None
         THEN Answers(w, job[w], FALSE) /\ UNCHANGED queue
         ELSE /\ GoesTo(w, "create")
              /\ raced' = IF Crossed(s) THEN raced \cup {s} ELSE raced
              /\ UNCHANGED <<own, started, owed, quiet>>
  /\ UNCHANGED <<tcpdump, dumpVars, located>>

\* A recorder that is gone and that nothing refers to.
FreeDumps ==
  {d \in Dumps : /\ thread[d] = "gone"
                 /\ \A s \in Sensors : tcpdump[s] # d
                 /\ \A w \in Workers : own[w] # d}

\* TcpDump(...).start(), or the RuntimeError of a host that has no thread left.
StartCreate(w) ==
  /\ Runs(w, "start", "create")
  /\ IF FreeDumps = {}
       THEN Answers(w, job[w], FALSE) /\ UNCHANGED <<queue, dumpVars>>
       ELSE LET d == CHOOSE d \in FreeDumps : TRUE IN
              /\ GoesTo(w, "assign")
              /\ own' = [own EXCEPT ![w] = d]
              /\ of' = [of EXCEPT ![d] = job[w].target]
              /\ thread' = [thread EXCEPT ![d] = "loop"]
              /\ acqState' = [acqState EXCEPT ![d] = "UNKNOWN"]
              /\ UNCHANGED <<halting, historyVars>>
  /\ UNCHANGED <<tcpdump, located>>

\* self.tcpdump = ...
StartAssign(w) ==
  /\ Runs(w, "start", "assign")
  /\ tcpdump' = [tcpdump EXCEPT ![job[w].target] = own[w]]
  /\ own' = [own EXCEPT ![w] = None]
  /\ GoesTo(w, "poll")
  /\ UNCHANGED <<dumpVars, located, historyVars>>

\* Mutant: the state is polled until the sensor is acquired.
PollsUntilOn(d) == acqState[d] = "ACQUIRING"

PollEnds(d) == acqState[d] # "UNKNOWN"

\* The poll reads the attribute anew; None raises an AttributeError it answers.
StartPoll(w) ==
  /\ Runs(w, "start", "poll")
  /\ LET d == tcpdump[job[w].target] IN d # None => PollEnds(d)
  /\ Answers(w, job[w], FALSE)
  /\ UNCHANGED <<queue, tcpdump, dumpVars, located>>

\* Acquisitor.stop_acquisition: `if self.tcpdump`.
StopTest(w) ==
  /\ Runs(w, "stop", "test")
  /\ IF tcpdump[job[w].target] = None
       THEN Answers(w, job[w], TRUE) /\ UNCHANGED queue
       ELSE GoesTo(w, "set") /\ UNCHANGED <<own, historyVars>>
  /\ UNCHANGED <<tcpdump, dumpVars, located>>

\* Mutant: TcpDump.stop without the join.
StopForgetsJoin == "clear"

AfterEvent == "join"

\* TcpDump.stop of the recorder the attribute names now; None raises an
\* AttributeError, which the caller gets as UNKNOWN.
StopSet(w) ==
  /\ Runs(w, "stop", "set")
  /\ LET d == tcpdump[job[w].target] IN
       IF d = None
         THEN Answers(w, job[w], FALSE) /\ UNCHANGED <<queue, halting>>
         ELSE /\ halting' = IF thread[d] = "gone" THEN halting ELSE halting \cup {d}
              /\ own' = [own EXCEPT ![w] = d]
              /\ GoesTo(w, AfterEvent)
              /\ UNCHANGED historyVars
  /\ UNCHANGED <<tcpdump, of, thread, acqState, located>>

StopJoin(w) ==
  /\ Runs(w, "stop", "join")
  /\ thread[own[w]] = "gone"
  /\ GoesTo(w, "clear")
  /\ UNCHANGED <<own, tcpdump, dumpVars, located, historyVars>>

\* self.tcpdump = None, whichever recorder it names by now.
StopClear(w) ==
  /\ Runs(w, "stop", "clear")
  /\ tcpdump' = [tcpdump EXCEPT ![job[w].target] = None]
  /\ Answers(w, job[w], TRUE)
  /\ UNCHANGED <<queue, dumpVars, located>>

Worker(w) ==
  \/ Take(w) \/ EndSnapshot(w)
  \/ StartTest(w) \/ StartCreate(w) \/ StartAssign(w) \/ StartPoll(w)
  \/ StopTest(w) \/ StopSet(w) \/ StopJoin(w) \/ StopClear(w)

-----------------------------------------------------------------------------
(* The recorders' threads, and what is outside the program.                *)

Apart == UNCHANGED <<clientVars, queue, jobVars, of, located, historyVars>>

\* It has found a disk, also when its event was set since it looked.
Records(d) ==
  /\ thread[d] = "loop" /\ acqState[d] = "UNKNOWN"
  /\ acqState' = [acqState EXCEPT ![d] = "ACQUIRING"]
  /\ UNCHANGED <<tcpdump, thread, halting>> /\ Apart

\* What is left of its state once it has no process.
Without(state) == IF state = "ACQUIRING" THEN "NOT_ACQUIRING" ELSE state

\* The loop ends: it was told to, or no storage can be chosen, or tcpdump exits.
Halts(d) ==
  /\ thread[d] = "loop" /\ d \in halting
  /\ acqState' = [acqState EXCEPT ![d] = Without(@)]
  /\ thread' = [thread EXCEPT ![d] = "notify"]
  /\ UNCHANGED <<tcpdump, halting>> /\ Apart

GivesUp(d) ==
  /\ "refuse" \in Faults
  /\ thread[d] = "loop"
  /\ acqState' = [acqState EXCEPT ![d] = "NOT_ACQUIRING"]
  /\ thread' = [thread EXCEPT ![d] = "notify"]
  /\ UNCHANGED <<tcpdump, halting>> /\ Apart

\* Its thread ends with the exception of os.makedirs and on_stopped is not called.
Dies(d) ==
  /\ "mkpath" \in Faults
  /\ thread[d] = "loop"
  /\ acqState' = [acqState EXCEPT ![d] = Without(@)]
  /\ thread' = [thread EXCEPT ![d] = "gone"]
  /\ halting' = halting \ {d}
  /\ UNCHANGED tcpdump /\ Apart

\* Acquisitor.on_stopped: the test and the assignment.
Notify(d) ==
  /\ thread[d] = "notify"
  /\ IF tcpdump[of[d]] = None
       THEN thread' = [thread EXCEPT ![d] = "gone"] /\ halting' = halting \ {d}
       ELSE thread' = [thread EXCEPT ![d] = "clear"] /\ UNCHANGED halting
  /\ UNCHANGED <<tcpdump, acqState>> /\ Apart

Forget(d) ==
  /\ thread[d] = "clear"
  /\ tcpdump' = [tcpdump EXCEPT ![of[d]] = None]
  /\ thread' = [thread EXCEPT ![d] = "gone"]
  /\ halting' = halting \ {d}
  /\ UNCHANGED acqState /\ Apart

Locates ==
  /\ ~located /\ located' = TRUE
  /\ UNCHANGED <<clientVars, queue, jobVars, tcpdump, dumpVars, historyVars>>

\* The service's container is restarted: its calls fail, its processes are gone.
Restart ==
  /\ "crash" \in Faults
  /\ sent' = [c \in Clients |-> IF Elsewhere(c) THEN sent[c] ELSE None]
  /\ queue' = <<>>
  /\ job' = [w \in Workers |-> None]
  /\ at' = [w \in Workers |-> "idle"]
  /\ own' = [w \in Workers |-> None]
  /\ tcpdump' = [s \in Sensors |-> None]
  /\ thread' = [d \in Dumps |-> "gone"]
  /\ halting' = {}
  /\ located' = FALSE
  /\ raced' = {}
  /\ UNCHANGED <<op, left, todo, known, of, acqState, started, owed, quiet>>

-----------------------------------------------------------------------------
ClientStep(c) ==
  \/ \E dev \in Devices : Visit(c, dev)
  \/ \E s \in Sensors : Ask(c, s)
  \/ Return(c)

Thread(d) == Halts(d) \/ Notify(d) \/ Forget(d)

GNext ==
  \/ \E c \in Clients :
       \/ \E o \in Operations : BeginAll(c, o)
       \/ \E o \in {"start", "stop"}, s \in Sensors : BeginOne(c, o, s)
       \/ ClientStep(c) \/ Expire(c) \/ OtherAnswers(c) \/ OtherFails(c)
  \/ \E w \in Workers : Worker(w)
  \/ \E d \in Dumps : Records(d) \/ Thread(d) \/ GivesUp(d) \/ Dies(d)
  \/ Locates
  \/ Restart

GSpec == GInit /\ [][GNext]_gvars

\* Threads are scheduled, deadlines pass, other devices answer or fail.  Nothing
\* says that a recorder finds a disk, or a driver a position.
GFairness ==
  /\ \A c \in Clients :
       /\ WF_gvars(ClientStep(c)) /\ WF_gvars(Expire(c))
       /\ WF_gvars(OtherAnswers(c) \/ OtherFails(c))
  /\ \A w \in Workers : WF_gvars(Worker(w))
  /\ \A d \in Dumps : WF_gvars(Thread(d))

GFairSpec == GSpec /\ GFairness

-----------------------------------------------------------------------------
(* Properties.                                                             *)

Queued == {queue[i] : i \in DOMAIN queue}

\* Types; a queued call has a caller that waits for it, and no caller is waited
\* for twice.
GTypeOK ==
  /\ op \in [Clients -> Operations \cup {"idle"}]
  /\ left \in [Clients -> SUBSET Devices]
  /\ todo \in [Clients -> SUBSET Sensors]
  /\ \A c \in Clients : sent[c] \in CallSet \cup {None}
  /\ known \subseteq Devices
  /\ \A w \in Workers : job[w] \in CallSet \cup {None}
  /\ at \in [Workers -> Stages]
  /\ own \in [Workers -> Dumps \cup {None}]
  /\ tcpdump \in [Sensors -> Dumps \cup {None}]
  /\ of \in [Dumps -> Sensors]
  /\ thread \in [Dumps -> {"loop", "notify", "clear", "gone"}]
  /\ acqState \in [Dumps -> {"UNKNOWN", "ACQUIRING", "NOT_ACQUIRING"}]
  /\ halting \subseteq Dumps
  /\ located \in BOOLEAN
  /\ started \subseteq Sensors /\ raced \subseteq Sensors /\ quiet \subseteq Sensors
  /\ owed \in [Clients -> SUBSET Sensors]
  /\ \A call \in Queued : call.from \in Clients /\ sent[call.from] = call
  /\ \A i, j \in DOMAIN queue : queue[i] = queue[j] => i = j

\* A stop for all sensors calls every sensor that the gateway has sent a start for
\* and whose device's list of sensors was fetched before, also when the device
\* does not answer now.  (A sensor started on its own, of a device whose list was
\* never fetched, is passed over in silence if the list cannot be fetched then.)
StopCoversStarted ==
  \A c \in Clients :
    op[c] = "stop" /\ sent[c] = None /\ todo[c] = {} /\ left[c] = {} => owed[c] = {}

\* Once a stop call was answered NOT_ACQUIRING, with no other start of the sensor
\* under way, no recorder of the sensor lives before the gateway sends another
\* start call for it: neither a start call that timed out earlier nor one whose
\* handler still polls revives it, and on_stopped forgets no other recorder.
\* Except for a sensor whose start found no recorder while another start was
\* about to store its own, or while a stop was about to forget the one it joined:
\* that loses a recorder, which then goes on for ever.
StopIsFinal ==
  \A d \in Dumps : thread[d] = "loop" => of[d] \notin quiet \ raced

\* The attribute names a recorder that died in os.makedirs before it recorded.
DiedUnknown(s) ==
  LET d == tcpdump[s] IN d # None /\ thread[d] = "gone" /\ acqState[d] = "UNKNOWN"

WaitsForDisk(d) == thread[d] = "loop" /\ acqState[d] = "UNKNOWN"

\* A snapshot has no deadline: it returns if no recorder waits for a disk for
\* ever, the drivers have a position and no more recordings are started, since
\* the workers that poll for a recorder's state get free.  Except if a recorder
\* died in os.makedirs before it had recorded: the worker that polls its state
\* is held until somebody stops it.
SnapshotsReturn ==
  /\ \A d \in Dumps : []<>~WaitsForDisk(d)
  /\ <>[](/\ located
          /\ \A c \in Clients : op[c] # "start"
          /\ \A s \in Sensors : ~DiedUnknown(s))
  => \A c \in Clients : op[c] = "snapshot" ~> op[c] # "snapshot"
=============================================================================
