------------------------- MODULE Acquisition_proofs -------------------------
(***************************************************************************)
(* Theorems about Acquisition, for any number of workers, dumps and disks  *)
(* and any combination of faults:                                          *)
(*                                                                         *)
(*   1. its invariants;                                                    *)
(*   2. with one caller at a time it implements Recorder: each step of a   *)
(*      handler, of a dump's thread or of a tcpdump process is a step of   *)
(*      Recorder or leaves its variables alone;                            *)
(*   3. the acquisition whose storage the monitor chooses (AcqStorage) is  *)
(*      an Acquisition.                                                    *)
(***************************************************************************)
EXTENDS AcqStorage, TLAPS

USE DEF ConstantsAssumption

-----------------------------------------------------------------------------
(* Type correctness.                                                       *)

LEMMA InitType == Init => TypeOK
  BY ConstantsAssumption
  DEF Init, TypeOK, Labels, ThreadLabels, RunLabels, AcqState, ProcessStates

\* The handlers' steps keep the types.
LEMMA HandlerType ==
  ASSUME TypeOK, NEW w \in Workers, Call(w) \/ Handler(w)
  PROVE  TypeOK'
<1> USE DEF TypeOK, Labels, StartLabels, StopLabels, CheckLabels, AcqState, callVars, dumpVars
<1>1. CASE Call(w)
  BY <1>1 DEF Call
<1>2. CASE StartTest(w)
  BY <1>2 DEF StartTest, Goto
<1>3. CASE StartAlready(w)
  BY <1>3 DEF StartAlready, AnswerState, Answer
<1>4. CASE StartCreate(w)
  BY <1>4, ConstantsAssumption DEF StartCreate, ThreadLabels, RunLabels, ProcessStates
<1>5. CASE StartAssign(w)
  BY <1>5 DEF StartAssign
<1>6. CASE StartSpin(w)
  BY <1>6 DEF StartSpin, Answer, Goto
<1>7. CASE StartReport(w)
  BY <1>7 DEF StartReport, AnswerState, Answer
<1>8. CASE CheckTest(w)
  BY <1>8 DEF CheckTest, Answer, Goto
<1>9. CASE CheckRead(w)
  BY <1>9 DEF CheckRead, AnswerState, Answer
<1>10. CASE StopTest(w)
  BY <1>10 DEF StopTest, Answer, Goto
<1>11. CASE StopSet(w)
  BY <1>11 DEF StopSet, Answer
<1>12. CASE StopJoin(w)
  BY <1>12 DEF StopJoin, Goto
<1>13. CASE StopClear(w)
  BY <1>13 DEF StopClear, Answer
<1>14. CASE StartCreateRaises(w)
  BY <1>14 DEF StartCreateRaises, Answer
<1> QED
  BY <1>1, <1>2, <1>3, <1>4, <1>5, <1>6, <1>7, <1>8, <1>9, <1>10, <1>11, <1>12, <1>13, <1>14
  DEF Handler

\* So do the steps of the dumps' threads and processes.
LEMMA DumpType ==
  ASSUME TypeOK, NEW d \in Dumps,
         DumpStep(d) \/ SelectStep(d) \/ Terminate(d) \/ Crash(d)
  PROVE  TypeOK'
<1> USE DEF TypeOK, ThreadLabels, RunLabels, AcqState, ProcessStates, callVars, Run, SetState
<1>1. CASE LoopTest(d)
  BY <1>1 DEF LoopTest
<1>2. CASE SelectStep(d)
  BY <1>2, ConstantsAssumption DEF SelectStep, Select, SelectRaises
<1>3. CASE StopOld(d) \/ StopLast(d)
  BY <1>3 DEF StopOld, StopLast, StopDump
<1>4. CASE ReapOld(d) \/ ReapLast(d)
  BY <1>4 DEF ReapOld, ReapLast, Reap
<1>5. CASE MakePath(d) \/ MakePathRaises(d)
  BY <1>5 DEF MakePath, MakePathRaises
<1>6. CASE Spawn(d) \/ SpawnRaises(d)
  BY <1>6 DEF Spawn, SpawnRaises
<1>7. CASE Settle(d) \/ SettleFails(d)
  BY <1>7 DEF Settle, SettleFails
<1>8. CASE Notify(d) \/ Clear(d)
  BY <1>8 DEF Notify, Clear
<1>9. CASE Terminate(d) \/ Crash(d)
  BY <1>9 DEF Terminate, Crash, Exit
<1> QED
  BY <1>1, <1>2, <1>3, <1>4, <1>5, <1>6, <1>7, <1>8, <1>9 DEF DumpStep

\* Every variable stays in its type, and a handler holds a dump of its own
\* exactly while it stores or joins one.
THEOREM TypeCorrect == Spec => []TypeOK
<1>1. TypeOK /\ [Next]_vars => TypeOK'
  <2> SUFFICES ASSUME TypeOK, [Next]_vars PROVE TypeOK'
    OBVIOUS
  <2>1. CASE Next
    BY <2>1, HandlerType, DumpType DEF Next
  <2>2. CASE UNCHANGED vars
    BY <2>2 DEF vars, TypeOK
  <2> QED
    BY <2>1, <2>2
<1> QED
  BY InitType, <1>1, PTL DEF Spec

-----------------------------------------------------------------------------
(* The child process, for any number of workers.  ProcessOwned and          *)
(* StateAgrees are inductive together: neither is alone, since a state of  *)
(* ACQUIRING is what rules out a running process at _mkpath.                *)

DumpInv == ProcessOwned /\ StateAgrees

LEMMA InitDumpInv == Init => DumpInv
  BY DEF Init, DumpInv, ProcessOwned, StateAgrees

\* A worker touches a dump's process and state only by creating the dump.
LEMMA HandlerDumpInv ==
  ASSUME TypeOK, DumpInv, NEW w \in Workers, Call(w) \/ Handler(w)
  PROVE  DumpInv'
<1> USE DEF DumpInv, ProcessOwned, StateAgrees, Watches
<1>1. CASE StartCreate(w)
  BY <1>1 DEF StartCreate, TypeOK
<1>2. CASE StopSet(w)
  BY <1>2 DEF StopSet
<1>3. CASE /\ Call(w) \/ Handler(w)
           /\ ~StartCreate(w) /\ ~StopSet(w)
  <2>1. UNCHANGED dumpVars
    BY <1>3 DEF Call, Handler, StartTest, StartAlready, StartCreateRaises, StartAssign, StartSpin,
      StartReport,
      CheckTest, CheckRead, StopTest, StopJoin, StopClear
  <2> QED
    BY <2>1 DEF dumpVars
<1> QED
  BY <1>1, <1>2, <1>3

\* The dump's own thread, one kind of step at a time.
LEMMA DumpDumpInv ==
  ASSUME TypeOK, DumpInv, NEW d \in Dumps,
         DumpStep(d) \/ SelectStep(d) \/ Terminate(d) \/ Crash(d)
  PROVE  DumpInv'
<1> USE DEF DumpInv, ProcessOwned, StateAgrees, Watches, TypeOK, Run, SetState
<1>1. CASE LoopTest(d)
  BY <1>1 DEF LoopTest
<1>2. CASE SelectStep(d)
  BY <1>2 DEF SelectStep, Select, SelectRaises
<1>3. CASE StopOld(d) \/ StopLast(d)
  BY <1>3 DEF StopOld, StopLast, StopDump, ProcessStates
<1>4. CASE ReapOld(d) \/ ReapLast(d)
  BY <1>4 DEF ReapOld, ReapLast, Reap
<1>5. CASE MakePath(d) \/ MakePathRaises(d)
  BY <1>5 DEF MakePath, MakePathRaises
<1>6. CASE Spawn(d) \/ SpawnRaises(d)
  BY <1>6 DEF Spawn, SpawnRaises
<1>7. CASE Settle(d) \/ SettleFails(d)
  BY <1>7 DEF Settle, SettleFails
<1>8. CASE Notify(d) \/ Clear(d)
  BY <1>8 DEF Notify, Clear
<1>9. CASE Terminate(d) \/ Crash(d)
  BY <1>9 DEF Terminate, Crash, Exit
<1> QED
  BY <1>1, <1>2, <1>3, <1>4, <1>5, <1>6, <1>7, <1>8, <1>9 DEF DumpStep

LEMMA DumpInvariant == Spec => [](TypeOK /\ DumpInv)
<1>1. DumpInv /\ TypeOK /\ [Next]_vars => DumpInv'
  <2> SUFFICES ASSUME DumpInv, TypeOK, [Next]_vars PROVE DumpInv'
    OBVIOUS
  <2>1. CASE Next
    BY <2>1, HandlerDumpInv, DumpDumpInv DEF Next
  <2>2. CASE UNCHANGED vars
    BY <2>2 DEF vars, DumpInv, ProcessOwned, StateAgrees, Watches
  <2> QED
    BY <2>1, <2>2
<1> QED
  BY InitDumpInv, TypeCorrect, <1>1, PTL DEF Spec

\* No tcpdump outlives the thread that can terminate it, and none is launched
\* over another, however many workers call and whatever fails outside.
THEOREM ProcessIsOwned == Spec => []ProcessOwned
  BY DumpInvariant, PTL DEF DumpInv

\* The reported state agrees with the child process.
THEOREM StateIsTruthful == Spec => []StateAgrees
  BY DumpInvariant, PTL DEF DumpInv

-----------------------------------------------------------------------------
(* One caller at a time.  Between the test of self.tcpdump and the          *)
(* assignment no other worker can store a dump, so the reference is None    *)
(* there; while a worker joins a dump the reference is that dump or, after  *)
(* its on_stopped, None; and it is set to None only when the dump it was is  *)
(* dead.  None of the three holds with two workers.                         *)

Sequential == \A v, w \in Workers : v = w

HandlerInv(w) ==
  /\ pc[w] \in {"create", "assign"} => tcpdump = None
  /\ pc[w] \in {"join", "stopClear"} => tcpdump \in {None, own[w]}
  /\ pc[w] = "stopClear" => thread[own[w]] = "dead"

SeqInv == NoOrphan /\ \A w \in Workers : HandlerInv(w)

LEMMA InitSeqInv == Init => SeqInv
  BY DEF Init, SeqInv, NoOrphan, HandlerInv, Live, RunLabels

LEMMA HandlerSeqInv ==
  ASSUME Sequential, TypeOK, SeqInv, NEW w \in Workers, Call(w) \/ Handler(w)
  PROVE  SeqInv'
<1> USE DEF Sequential, TypeOK, SeqInv, NoOrphan, HandlerInv, Live, dumpVars
<1>1. CASE Call(w)
  BY <1>1 DEF Call
<1>2. CASE StartTest(w)
  BY <1>2 DEF StartTest, Goto
<1>3. CASE StartAlready(w)
  BY <1>3 DEF StartAlready, AnswerState, Answer
<1>4. CASE StartCreate(w)
  BY <1>4 DEF StartCreate
<1>5. CASE StartAssign(w)
  BY <1>5 DEF StartAssign
<1>6. CASE StartSpin(w)
  BY <1>6 DEF StartSpin, Answer, Goto
<1>7. CASE StartReport(w)
  BY <1>7 DEF StartReport, AnswerState, Answer
<1>8. CASE CheckTest(w)
  BY <1>8 DEF CheckTest, Answer, Goto
<1>9. CASE CheckRead(w)
  BY <1>9 DEF CheckRead, AnswerState, Answer
<1>10. CASE StopTest(w)
  BY <1>10 DEF StopTest, Answer, Goto
<1>11. CASE StopSet(w)
  <2>1. own[w] = None /\ UNCHANGED <<tcpdump, thread>>
    BY <1>11 DEF StopSet
  <2>2. CASE tcpdump = None
    BY <1>11, <2>1, <2>2 DEF StopSet, Answer
  <2>3. CASE tcpdump # None
    <3>1. /\ own' = [own EXCEPT ![w] = tcpdump]
          /\ pc' = [pc EXCEPT ![w] = "join"]
      BY <1>11, <2>3 DEF StopSet
    <3>2. \A v \in Workers : own'[v] = tcpdump /\ pc'[v] = "join"
      BY <3>1
    <3>3. \A v \in Workers : HandlerInv(v)'
      BY <2>1, <3>2
    <3>4. ASSUME NEW d \in Dumps, Live(d)' PROVE tcpdump' = d
      BY <2>1, <3>4, ConstantsAssumption
    <3> QED
      BY <3>3, <3>4
  <2> QED
    BY <2>2, <2>3
<1>12. CASE StopJoin(w)
  BY <1>12 DEF StopJoin, Goto
<1>13. CASE StopClear(w)
  BY <1>13 DEF StopClear, Answer, RunLabels
<1>14. CASE StartCreateRaises(w)
  BY <1>14 DEF StartCreateRaises, Answer
<1> QED
  BY <1>1, <1>2, <1>3, <1>4, <1>5, <1>6, <1>7, <1>8, <1>9, <1>10, <1>11, <1>12, <1>13, <1>14
  DEF Handler

\* A dump's thread can only end itself and, by on_stopped, drop the reference.
LEMMA DumpSeqInv ==
  ASSUME Sequential, TypeOK, SeqInv, NEW d \in Dumps,
         DumpStep(d) \/ SelectStep(d) \/ Terminate(d) \/ Crash(d)
  PROVE  SeqInv'
<1>1. UNCHANGED <<pc, own>>
  BY DEF DumpStep, SelectStep, Terminate, Crash, LoopTest, Select, SelectRaises,
    StopOld, StopLast, StopDump, ReapOld, ReapLast, Reap, MakePath, MakePathRaises,
    Spawn, SpawnRaises, Settle, SettleFails, Notify, Clear, Exit, callVars
<1>2. /\ \A e \in Dumps : Live(e)' => Live(e)
      /\ \A e \in Dumps : thread[e] = "dead" => thread'[e] = "dead"
  BY DEF DumpStep, SelectStep, Terminate, Crash, LoopTest, Select, SelectRaises,
    StopOld, StopLast, StopDump, ReapOld, ReapLast, Reap, MakePath, MakePathRaises,
    Spawn, SpawnRaises, Settle, SettleFails, Notify, Clear, Exit, Run, Live, RunLabels, TypeOK
<1>3. CASE Clear(d)
  <2>1. /\ thread[d] = "clear" /\ tcpdump' = None
        /\ thread' = [thread EXCEPT ![d] = "dead"]
    BY <1>3 DEF Clear, Run
  <2>2. Live(d)
    BY <2>1 DEF Live, RunLabels
  <2>3. ASSUME NEW e \in Dumps, Live(e)' PROVE \E w \in Workers : own'[w] = e
    <3>1. e # d /\ Live(e)
      BY <1>2, <2>1, <2>3 DEF Live, RunLabels, TypeOK
    <3>2. CASE tcpdump = e
      <4>1. PICK w \in Workers : own[w] = d
        BY <2>2, <3>1, <3>2 DEF SeqInv, NoOrphan
      <4>2. pc[w] \in {"assign", "join", "stopClear"} /\ tcpdump \in {None, d}
        BY <4>1, ConstantsAssumption DEF TypeOK, SeqInv, HandlerInv
      <4> QED
        BY <3>1, <3>2, <4>2, ConstantsAssumption
    <3>3. CASE tcpdump # e
      BY <1>1, <3>1, <3>3 DEF SeqInv, NoOrphan
    <3> QED
      BY <3>2, <3>3
  <2>4. \A w \in Workers : HandlerInv(w)'
    BY <1>1, <1>2, <2>1, ConstantsAssumption DEF SeqInv, HandlerInv, TypeOK
  <2> QED
    BY <2>3, <2>4 DEF SeqInv, NoOrphan
<1>4. CASE ~Clear(d)
  <2>1. UNCHANGED tcpdump
    BY <1>4 DEF DumpStep, SelectStep, Terminate, Crash, LoopTest, Select, SelectRaises,
      StopOld, StopLast, StopDump, ReapOld, ReapLast, Reap, MakePath, MakePathRaises,
      Spawn, SpawnRaises, Settle, SettleFails, Notify, Exit
  <2> QED
    BY <1>1, <1>2, <2>1, ConstantsAssumption DEF SeqInv, NoOrphan, HandlerInv, TypeOK
<1> QED
  BY <1>3, <1>4

LEMMA SeqInvariant == Sequential => (Spec => []SeqInv)
<1>1. SUFFICES ASSUME Sequential PROVE Spec => []SeqInv
  OBVIOUS
<1>2. SeqInv /\ TypeOK /\ [Next]_vars => SeqInv'
  <2> SUFFICES ASSUME SeqInv, TypeOK, [Next]_vars PROVE SeqInv'
    OBVIOUS
  <2>1. CASE Next
    BY <1>1, <2>1, HandlerSeqInv, DumpSeqInv DEF Next
  <2>2. CASE UNCHANGED vars
    BY <2>2 DEF vars, SeqInv, NoOrphan, HandlerInv, Live
  <2> QED
    BY <2>1, <2>2
<1> QED
  BY InitSeqInv, TypeCorrect, <1>2, PTL DEF Spec

\* With one caller at a time Acquisitor never loses a dump that still runs.
THEOREM NoDumpIsOrphaned == Sequential => (Spec => []NoOrphan)
<1>1. SeqInv => NoOrphan
  BY DEF SeqInv
<1> QED
  BY SeqInvariant, <1>1, PTL

\* With one caller at a time, a sensor without a dump and without a call in
\* progress has no tcpdump process.
THEOREM NotAcquiringIsTruthful == Sequential => (Spec => []NotAcquiringIsQuiet)
<1>1. TypeOK /\ ProcessOwned /\ NoOrphan => NotAcquiringIsQuiet
  <2> SUFFICES ASSUME TypeOK, ProcessOwned, NoOrphan,
                      tcpdump = None, \A w \in Workers : pc[w] = "idle",
                      NEW d \in Dumps, process[d] = "running"
               PROVE  FALSE
    BY DEF NotAcquiringIsQuiet
  <2>1. Live(d)
    BY DEF ProcessOwned, Watches, Live, RunLabels
  <2>2. PICK w \in Workers : own[w] = d
    BY <2>1, ConstantsAssumption DEF NoOrphan
  <2> QED
    BY <2>2, ConstantsAssumption DEF TypeOK
<1> QED
  BY TypeCorrect, ProcessIsOwned, NoDumpIsOrphaned, <1>1, PTL
-----------------------------------------------------------------------------
(* Refinement of Recorder.                                                 *)

\* The refinement mapping.
Pending == [w \in Workers |-> Request(pc[w])]
Armed == \E d \in Dumps : Live(d)
Recording == \E d \in Dumps : process[d] = "running"

Inv == TypeOK /\ DumpInv /\ SeqInv

LEMMA RequestOfLabel ==
  /\ Request("idle") = "idle"
  /\ \A label \in StartLabels : Request(label) = "start"
  /\ \A label \in StopLabels : Request(label) = "stop"
  /\ \A label \in CheckLabels : Request(label) = "check"
  BY DEF Request, StartLabels, StopLabels, CheckLabels

LEMMA PendingUpdate ==
  ASSUME TypeOK, NEW w \in Workers, NEW label, pc' = [pc EXCEPT ![w] = label]
  PROVE  Pending' = [Pending EXCEPT ![w] = Request(label)]
  BY DEF Pending, TypeOK

\* Whoever records is alive, and at most one dump is.
LEMMA RecordingIsArmed ==
  ASSUME DumpInv, NEW d \in Dumps, process[d] = "running"
  PROVE  Live(d)
  BY DEF DumpInv, ProcessOwned, Watches, Live, RunLabels

LEMMA OneLive ==
  ASSUME Sequential, Inv, NEW d \in Dumps, NEW e \in Dumps, Live(d), Live(e)
  PROVE  d = e
<1>1. CASE tcpdump = None
  BY <1>1, ConstantsAssumption DEF Inv, SeqInv, NoOrphan, Sequential
<1>2. CASE tcpdump # None
  <2>1. ASSUME NEW w \in Workers, own[w] # None PROVE tcpdump = own[w]
    BY <1>2, <2>1 DEF Inv, TypeOK, SeqInv, HandlerInv
  <2> QED
    BY <1>2, <2>1, ConstantsAssumption DEF Inv, SeqInv, NoOrphan
<1> QED
  BY <1>1, <1>2

\* Nothing lives, or records, when the reference is None and the only worker
\* holds no live dump.
LEMMA Quiet ==
  ASSUME Sequential, Inv, NEW w \in Workers, tcpdump \in {None, own[w]},
         own[w] = None \/ ~Live(own[w])
  PROVE  ~Armed /\ ~Recording
<1>1. ~Armed
  BY ConstantsAssumption DEF Inv, SeqInv, NoOrphan, Sequential, Armed
<1> QED
  BY <1>1, RecordingIsArmed DEF Inv, Armed, Recording

\* The reply ACQUIRING is that of a live dump.
LEMMA AcquiringIsArmed ==
  ASSUME Inv, tcpdump # None, acqState[tcpdump] = "ACQUIRING"
  PROVE  Armed
  BY DEF Inv, TypeOK, DumpInv, StateAgrees, Watches, Armed, Live, RunLabels

LEMMA ReturnStep ==
  ASSUME Inv, NEW w \in Workers, NEW state \in AcqState, pc[w] # "idle",
         Answer(w, state), UNCHANGED dumpVars,
         state = "ACQUIRING" => Armed /\ pc[w] \notin StopLabels,
         pc[w] \in StopLabels => ~Armed /\ ~Recording
  PROVE  R!Return(w, state)
<1>1. Pending' = [Pending EXCEPT ![w] = "idle"]
  BY PendingUpdate, RequestOfLabel DEF Inv, Answer
<1>2. pc[w] \in StartLabels \cup StopLabels \cup CheckLabels
  BY DEF Inv, TypeOK, Labels
<1>3. /\ Request(pc[w]) # "idle"
      /\ Request(pc[w]) = "stop" <=> pc[w] \in StopLabels
  BY <1>2, RequestOfLabel DEF StartLabels, StopLabels, CheckLabels
<1>4. UNCHANGED <<Armed, Recording>>
  BY DEF dumpVars, Armed, Recording, Live
<1> QED
  BY <1>1, <1>3, <1>4 DEF R!Return, Answer, Pending, Armed, Recording

\* A step inside a handler that changes neither operation nor dumps.
LEMMA InnerStep ==
  ASSUME Inv, NEW w \in Workers, NEW label, pc' = [pc EXCEPT ![w] = label],
         Request(label) = Request(pc[w]),
         UNCHANGED <<reply, thread, process>>
  PROVE  UNCHANGED R!vars
<1>1. UNCHANGED Pending
  BY PendingUpdate DEF Inv, TypeOK, Pending
<1>2. UNCHANGED <<Armed, Recording>>
  BY DEF Armed, Recording, Live
<1> QED
  BY <1>1, <1>2 DEF R!vars, Pending, Armed, Recording

-----------------------------------------------------------------------------
(* The workers' steps.                                                     *)

LEMMA CallStep ==
  ASSUME Inv, NEW w \in Workers, Call(w)
  PROVE  R!Next
<1>1. PICK op \in {"start", "stop", "check"} : pc' = [pc EXCEPT ![w] = op]
  BY DEF Call
<1>2. Request(pc[w]) = "idle" /\ Request(op) = op
  BY RequestOfLabel DEF Call, StartLabels, StopLabels, CheckLabels
<1>3. Pending' = [Pending EXCEPT ![w] = op]
  BY <1>1, <1>2, PendingUpdate DEF Inv
<1>4. UNCHANGED <<Armed, Recording>>
  BY DEF Call, dumpVars, Armed, Recording, Live
<1>5. R!Call(w, op)
  BY <1>2, <1>3, <1>4 DEF Call, R!Call, Pending, Armed, Recording
<1> QED
  BY <1>1, <1>5 DEF R!Next, R!Operations

LEMMA CreateStep ==
  ASSUME Sequential, Inv, NEW w \in Workers, StartCreate(w)
  PROVE  R!Next
<1>1. pc[w] = "create" /\ tcpdump = None /\ own[w] = None
  BY DEF StartCreate, Inv, TypeOK, SeqInv, HandlerInv
<1>2. ~Armed /\ ~Recording
  BY <1>1, Quiet
<1>3. Armed'
  BY DEF StartCreate, Armed, Live, RunLabels, Inv, TypeOK
<1>4. UNCHANGED Recording
  BY <1>2 DEF StartCreate, Recording, Inv, TypeOK
<1>5. Request(pc[w]) = "start" /\ Request("assign") = "start"
  BY <1>1, RequestOfLabel DEF StartLabels
<1>6. UNCHANGED <<Pending, reply>>
  BY <1>5, PendingUpdate DEF StartCreate, Inv, TypeOK, Pending
<1>7. R!Arm(w)
  BY <1>2, <1>3, <1>4, <1>5, <1>6 DEF R!Arm, Pending, Armed, Recording
<1> QED
  BY <1>7 DEF R!Next

LEMMA HandlerStep ==
  ASSUME Sequential, Inv, NEW w \in Workers, Handler(w)
  PROVE  R!Next \/ UNCHANGED R!vars
<1>0. \A state \in AcqState : R!Return(w, state) => R!Next
  BY DEF R!Next, R!AcqState, AcqState
<1>a. /\ \A label \in StartLabels : label # "idle" /\ label \notin StopLabels
      /\ \A label \in CheckLabels : label # "idle" /\ label \notin StopLabels
      /\ \A label \in StopLabels : label # "idle"
  BY DEF StartLabels, CheckLabels, StopLabels
<1>b. tcpdump # None => acqState[tcpdump] \in AcqState
  BY DEF Inv, TypeOK
<1>1. CASE StartTest(w)
  BY <1>1, InnerStep, RequestOfLabel DEF StartTest, Goto, StartLabels, dumpVars
<1>2. CASE StartAlready(w) \/ StartReport(w) \/ CheckRead(w)
  <2>1. PICK other \in {"UNKNOWN", "NOT_ACQUIRING"} : AnswerState(w, other)
    BY <1>2 DEF StartAlready, StartReport, CheckRead
  <2>2. pc[w] \in StartLabels \cup CheckLabels /\ UNCHANGED dumpVars
    BY <1>2 DEF StartAlready, StartReport, CheckRead, StartLabels, CheckLabels
  <2>3. CASE tcpdump = None
    <3>1. Answer(w, other) /\ other \in AcqState /\ other # "ACQUIRING"
      BY <2>1, <2>3 DEF AnswerState, AcqState
    <3> QED
      BY <1>0, <1>a, <2>2, <3>1, ReturnStep
  <2>4. CASE tcpdump # None
    <3>1. Answer(w, acqState[tcpdump])
      BY <2>1, <2>4 DEF AnswerState
    <3> QED
      BY <1>0, <1>a, <1>b, <2>2, <2>4, <3>1, AcquiringIsArmed, ReturnStep
  <2> QED
    BY <2>3, <2>4
<1>3. CASE StartCreate(w)
  BY <1>3, CreateStep
<1>4. CASE StartAssign(w)
  BY <1>4, InnerStep, RequestOfLabel DEF StartAssign, StartLabels, dumpVars
<1>5. CASE StartSpin(w)
  <2>1. pc[w] \in StartLabels /\ UNCHANGED dumpVars
    BY <1>5 DEF StartSpin, StartLabels
  <2>2. CASE tcpdump = None
    BY <1>0, <1>5, <1>a, <2>1, <2>2, ReturnStep DEF StartSpin, AcqState
  <2>3. CASE tcpdump # None
    BY <1>5, <2>1, <2>3, InnerStep, RequestOfLabel DEF StartSpin, Goto, StartLabels, dumpVars
  <2> QED
    BY <2>2, <2>3
<1>6. CASE CheckTest(w)
  <2>1. pc[w] \in CheckLabels /\ UNCHANGED dumpVars
    BY <1>6 DEF CheckTest, CheckLabels
  <2>2. CASE tcpdump = None
    BY <1>0, <1>6, <1>a, <2>1, <2>2, ReturnStep DEF CheckTest, AcqState
  <2>3. CASE tcpdump # None
    BY <1>6, <2>1, <2>3, InnerStep, RequestOfLabel DEF CheckTest, Goto, CheckLabels, dumpVars
  <2> QED
    BY <2>2, <2>3
<1>7. CASE (StopTest(w) \/ StopSet(w)) /\ tcpdump = None
  <2>1. PICK state \in {"UNKNOWN", "NOT_ACQUIRING"} : Answer(w, state)
    BY <1>7 DEF StopTest, StopSet
  <2>2. pc[w] \in StopLabels /\ own[w] = None /\ UNCHANGED dumpVars
    BY <1>7 DEF StopTest, StopSet, StopLabels, Inv, TypeOK, dumpVars
  <2>3. ~Armed /\ ~Recording
    BY <1>7, <2>2, Quiet
  <2>4. state \in AcqState /\ state # "ACQUIRING"
    BY DEF AcqState
  <2> QED
    BY <1>0, <1>a, <2>1, <2>2, <2>3, <2>4, ReturnStep
<1>8. CASE StopTest(w) /\ tcpdump # None
  BY <1>8, InnerStep, RequestOfLabel DEF StopTest, Goto, StopLabels, dumpVars
<1>9. CASE StopSet(w) /\ tcpdump # None
  BY <1>9, InnerStep, RequestOfLabel DEF StopSet, StopLabels
<1>10. CASE StopJoin(w)
  BY <1>10, InnerStep, RequestOfLabel DEF StopJoin, Goto, StopLabels, dumpVars
<1>11. CASE StopClear(w)
  <2>1. pc[w] \in StopLabels /\ Answer(w, "NOT_ACQUIRING") /\ UNCHANGED dumpVars
    BY <1>11 DEF StopClear, StopLabels
  <2>2. tcpdump \in {None, own[w]} /\ ~Live(own[w])
    BY <1>11 DEF StopClear, Inv, SeqInv, HandlerInv, Live, RunLabels
  <2>3. ~Armed /\ ~Recording
    BY <2>2, Quiet
  <2> QED
    BY <1>0, <1>a, <2>1, <2>3, ReturnStep DEF AcqState
<1>12. CASE StartCreateRaises(w)
  <2>1. pc[w] \in StartLabels /\ Answer(w, "NOT_ACQUIRING") /\ UNCHANGED dumpVars
    BY <1>12 DEF StartCreateRaises, StartLabels
  <2> QED
    BY <1>0, <1>a, <2>1, ReturnStep DEF AcqState
<1> QED
  BY <1>1, <1>2, <1>3, <1>4, <1>5, <1>6, <1>7, <1>8, <1>9, <1>10, <1>11, <1>12 DEF Handler

-----------------------------------------------------------------------------
(* The steps of the one dump that lives, and of its process.               *)

\* A step that keeps the callers waiting, the dump alive and the process as it
\* is, or takes a process that has exited out of the books.
LEMMA WatchStep ==
  ASSUME Inv, NEW d \in Dumps, UNCHANGED <<pc, reply>>,
         Live(d), Live(d)', \A e \in Dumps \ {d} : thread'[e] = thread[e],
         \A e \in Dumps : process'[e] = "running" <=> process[e] = "running"
  PROVE  UNCHANGED R!vars
<1>1. UNCHANGED Pending
  BY DEF Pending
<1>2. UNCHANGED <<Armed, Recording>>
  BY DEF Armed, Recording, Live
<1> QED
  BY <1>1, <1>2 DEF R!vars, Pending, Armed, Recording

\* The end of the thread disarms the service: by then nothing records.
LEMMA DeathStep ==
  ASSUME Sequential, Inv, NEW d \in Dumps, UNCHANGED <<pc, reply, process>>,
         Live(d), process[d] # "running", thread' = [thread EXCEPT ![d] = "dead"]
  PROVE  R!Next
<1>1. \A e \in Dumps : Live(e) => e = d
  BY OneLive
<1>2. Armed /\ ~Recording
  BY <1>1, RecordingIsArmed DEF Inv, Armed, Recording
<1>3. ~Armed'
  BY <1>1 DEF Armed, Live, RunLabels, Inv, TypeOK
<1>4. UNCHANGED <<Pending, Recording>>
  BY DEF Pending, Recording
<1>5. R!Disarm
  BY <1>2, <1>3, <1>4 DEF R!Disarm, Pending, Armed, Recording
<1> QED
  BY <1>5 DEF R!Next

LEMMA SpawnStep ==
  ASSUME Sequential, Inv, NEW d \in Dumps, Spawn(d)
  PROVE  R!Next
<1>1. Live(d) /\ process[d] # "running"
  BY DEF Spawn, Run, Live, RunLabels, Inv, DumpInv, ProcessOwned, Watches
<1>2. Armed /\ ~Recording
  BY <1>1, OneLive, RecordingIsArmed DEF Inv, Armed, Recording
<1>3. Recording' /\ UNCHANGED <<Pending, Armed>>
  BY <1>1 DEF Spawn, Run, callVars, Recording, Pending, Armed, Live, RunLabels, Inv, TypeOK
<1>4. R!Record
  BY <1>2, <1>3 DEF R!Record, Spawn, callVars, Pending, Armed, Recording
<1> QED
  BY <1>4 DEF R!Next

LEMMA ExitStep ==
  ASSUME Sequential, Inv, NEW d \in Dumps, Exit(d)
  PROVE  R!Next
<1>1. \A e \in Dumps : process[e] = "running" => e = d
  BY OneLive, RecordingIsArmed DEF Exit, Inv
<1>2. Recording /\ ~Recording' /\ UNCHANGED <<Pending, Armed>>
  BY <1>1 DEF Exit, callVars, Recording, Pending, Armed, Live, Inv, TypeOK
<1>3. R!Halt
  BY <1>2 DEF R!Halt, Exit, callVars, Pending, Armed, Recording
<1> QED
  BY <1>3 DEF R!Next

LEMMA DumpRefines ==
  ASSUME Sequential, Inv, NEW d \in Dumps,
         DumpStep(d) \/ SelectStep(d) \/ Terminate(d) \/ Crash(d)
  PROVE  R!Next \/ UNCHANGED R!vars
<1> USE DEF Run, callVars
<1>1. CASE LoopTest(d) \/ SelectStep(d) \/ StopOld(d) \/ ReapOld(d) \/ MakePath(d)
           \/ SpawnRaises(d) \/ Settle(d) \/ SettleFails(d) \/ StopLast(d) \/ ReapLast(d)
  <2>1. /\ UNCHANGED <<pc, reply>>
        /\ \A e \in Dumps \ {d} : thread'[e] = thread[e]
    BY <1>1 DEF LoopTest, SelectStep, Select, SelectRaises, StopOld, StopLast, StopDump,
      ReapOld, ReapLast, Reap, MakePath, SpawnRaises, Settle, SettleFails, Inv, TypeOK
  <2>2. Live(d) /\ Live(d)'
    BY <1>1 DEF LoopTest, SelectStep, Select, SelectRaises, StopOld, StopLast, StopDump,
      ReapOld, ReapLast, Reap, MakePath, SpawnRaises, Settle, SettleFails, Inv, TypeOK,
      Live, RunLabels
  <2>3. \A e \in Dumps : process'[e] = "running" <=> process[e] = "running"
    BY <1>1 DEF LoopTest, SelectStep, Select, SelectRaises, StopOld, StopLast, StopDump,
      ReapOld, ReapLast, Reap, MakePath, SpawnRaises, Settle, SettleFails, Inv, TypeOK
  <2> QED
    BY <2>1, <2>2, <2>3, WatchStep
<1>2. CASE MakePathRaises(d) \/ (Notify(d) /\ tcpdump = None) \/ Clear(d)
  <2>1. Live(d) /\ process[d] # "running"
    BY <1>2 DEF MakePathRaises, Notify, Clear, Live, RunLabels, Inv, DumpInv, ProcessOwned,
      Watches
  <2>2. thread' = [thread EXCEPT ![d] = "dead"] /\ UNCHANGED <<pc, reply, process>>
    BY <1>2 DEF MakePathRaises, Notify, Clear
  <2> QED
    BY <2>1, <2>2, DeathStep
<1>3. CASE Notify(d) /\ tcpdump # None
  <2>1. Live(d) /\ Live(d)' /\ \A e \in Dumps \ {d} : thread'[e] = thread[e]
    BY <1>3 DEF Notify, Live, RunLabels, Inv, TypeOK
  <2>2. UNCHANGED <<pc, reply, process>>
    BY <1>3 DEF Notify
  <2> QED
    BY <2>1, <2>2, WatchStep
<1>4. CASE Spawn(d)
  BY <1>4, SpawnStep
<1>5. CASE Terminate(d) \/ Crash(d)
  BY <1>5, ExitStep DEF Terminate, Crash
<1>6. CASE Notify(d)
  BY <1>2, <1>3, <1>6
<1> QED
  BY <1>1, <1>2, <1>4, <1>5, <1>6 DEF DumpStep

-----------------------------------------------------------------------------
LEMMA InitRefines == Init => R!Init
  BY RequestOfLabel DEF Init, R!Init, Live, RunLabels

\* With one caller at a time, whatever recommend_storage answers and whatever
\* fails: only a start call lets recording begin, ACQUIRING is answered only
\* while a dump lives, and a stop call returns only when nothing records and
\* nothing can begin to.
THEOREM RecorderIsImplemented == Sequential => (Spec => ImplementsRecorder)
<1>1. SUFFICES ASSUME Sequential PROVE Spec => R!Spec
  BY DEF ImplementsRecorder
<1>2. Spec => []Inv
  BY <1>1, DumpInvariant, SeqInvariant, PTL DEF Inv
<1>3. Inv /\ [Next]_vars => [R!Next]_(R!vars)
  <2> SUFFICES ASSUME Inv, [Next]_vars PROVE R!Next \/ UNCHANGED R!vars
    OBVIOUS
  <2>1. ASSUME NEW w \in Workers, Call(w) \/ Handler(w) PROVE R!Next \/ UNCHANGED R!vars
    BY <1>1, <2>1, CallStep, HandlerStep
  <2>2. ASSUME NEW d \in Dumps, DumpStep(d) \/ SelectStep(d) \/ Terminate(d) \/ Crash(d)
        PROVE  R!Next \/ UNCHANGED R!vars
    BY <1>1, <2>2, DumpRefines
  <2>3. CASE UNCHANGED vars
    <3>1. UNCHANGED <<Pending, Armed, Recording, reply>>
      BY <2>3 DEF vars, Pending, Armed, Recording, Live
    <3> QED
      BY <3>1 DEF R!vars, Pending, Armed, Recording
  <2> QED
    BY <2>1, <2>2, <2>3 DEF Next
<1> QED
  BY <1>2, <1>3, InitRefines, PTL DEF Spec, R!Spec
-----------------------------------------------------------------------------
(* The composition with the storage monitor.                               *)

\* Acquisition leaves every answer of recommend_storage open.
AnyAnswer == Recommendable = Storages \cup {NoStorage}

-----------------------------------------------------------------------------
(* What the driver answers: a disk or the empty path, and an AttributeError *)
(* only where Acquisition expects one.                                     *)

Published ==
  /\ disks \subseteq Storages
  /\ DOMAIN usages \subseteq Storages
  /\ DOMAIN diskUsages \subseteq Storages
  /\ recommend \in Storages \cup {NoStorage}

DriverInv == Published /\ (reqBuffer \/ "select" \in Faults)

LEMMA InitDriverInv == CInit => DriverInv
  BY DEF CInit, M!SInit, M!Empty, DriverInv, Published

LEMMA RecommendationIsADisk ==
  ASSUME NEW u, DOMAIN u \subseteq Storages
  PROVE  M!Recommendations(u) \subseteq Storages \cup {NoStorage}
  BY DEF M!Recommendations, M!MostFree

LEMMA MonitorDriverInv ==
  ASSUME DriverInv, M!MonitorStep
  PROVE  DriverInv'
<1> USE DEF DriverInv, Published, M!At, M!envVars, M!published, M!driverVars
<1>1. CASE M!ListDisks
  BY <1>1 DEF M!ListDisks
<1>2. CASE M!ListRaises
  BY <1>2 DEF M!ListRaises
<1>3. CASE M!LostSnapshot
  BY <1>3 DEF M!LostSnapshot
<1>4. CASE M!LostRecommend
  BY <1>4 DEF M!LostRecommend
<1>5. CASE M!CheckConnection
  BY <1>5 DEF M!CheckConnection
<1>6. CASE M!Measure
  <2>1. DOMAIN usages' = disks
    BY <1>6 DEF M!Measure
  <2> QED
    BY <1>6, <2>1 DEF M!Measure
<1>7. CASE M!MeasureRaises
  BY <1>7 DEF M!MeasureRaises
<1>8. CASE M!GenerateSnapshot
  BY <1>8 DEF M!GenerateSnapshot
<1>9. CASE M!RecommendStorage
  BY <1>9, RecommendationIsADisk DEF M!RecommendStorage
<1>10. CASE M!Publish
  <2>1. DOMAIN usages' = {}
    BY <1>10 DEF M!Publish, M!Empty
  <2> QED
    BY <1>10, <2>1 DEF M!Publish
<1>11. CASE M!LoopEnds
  BY <1>11 DEF M!LoopEnds
<1> QED
  BY <1>1, <1>2, <1>3, <1>4, <1>5, <1>6, <1>7, <1>8, <1>9, <1>10, <1>11 DEF M!MonitorStep

LEMMA OtherDriverInv ==
  ASSUME DriverInv, M!DiskStep \/ Shutdown
  PROVE  DriverInv'
<1> USE DEF DriverInv, Published, M!envVars, M!published, M!driverVars
<1>1. CASE M!DiskStep
  BY <1>1 DEF M!DiskStep, M!SpaceChanges, M!DiskAppears, M!DiskVanishes, M!MountChanges
<1>2. CASE Shutdown
  BY <1>2 DEF Shutdown, M!StopStorage, M!DropBuffer
<1> QED
  BY <1>1, <1>2

\* Neither a handler nor a dump writes a variable of the driver.
LEMMA StorageUntouched ==
  ASSUME DriverInv, UNCHANGED storageVars
  PROVE  DriverInv'
  BY DEF DriverInv, Published, storageVars

LEMMA ChoiceUntouched ==
  ASSUME NEW d \in Dumps, Choose(d)
  PROVE  UNCHANGED storageVars
  BY DEF Choose, SelectKeeps, SelectMisses, SelectRecommended, SelectFindsNoDriver

LEMMA DriverInvariant == CSpec => []DriverInv
<1>1. DriverInv /\ [CNext]_allVars => DriverInv'
  <2> SUFFICES ASSUME DriverInv, [CNext]_allVars PROVE DriverInv'
    OBVIOUS
  <2>1. CASE StorageStep
    BY <2>1, MonitorDriverInv, OtherDriverInv DEF StorageStep
  <2>2. CASE UNCHANGED storageVars
    BY <2>2, StorageUntouched
  <2>3. CASE UNCHANGED allVars
    BY <2>3, StorageUntouched DEF allVars
  <2> QED
    BY <2>1, <2>2, <2>3, ChoiceUntouched DEF CNext, Uses
<1> QED
  BY InitDriverInv, <1>1, PTL DEF CSpec

-----------------------------------------------------------------------------
(* Each step is a step of Acquisition or leaves its variables alone.       *)

LEMMA ChoiceIsASelection ==
  ASSUME AnyAnswer, DriverInv, NEW d \in Dumps, Choose(d)
  PROVE  SelectStep(d) \/ UNCHANGED vars
<1> USE DEF AnyAnswer, DriverInv, Published, SelectStep
<1>1. CASE SelectKeeps(d)
  <2>1. current[d] \in Storages
    BY <1>1 DEF SelectKeeps, M!GoodEnough
  <2> QED
    BY <1>1, <2>1 DEF SelectKeeps
<1>2. CASE SelectMisses(d)
  BY <1>2 DEF SelectMisses
<1>3. CASE SelectRecommended(d)
  BY <1>3 DEF SelectRecommended
<1>4. CASE SelectFindsNoDriver(d)
  BY <1>4 DEF SelectFindsNoDriver
<1> QED
  BY <1>1, <1>2, <1>3, <1>4 DEF Choose

LEMMA StepSimulates ==
  ASSUME AnyAnswer, DriverInv, [CNext]_allVars
  PROVE  [Next]_vars
<1>1. ASSUME NEW w \in Workers, Uses(Call(w) \/ Handler(w))
      PROVE  Next
  BY <1>1 DEF Next, Uses
<1>2. ASSUME NEW d \in Dumps, Uses(DumpStep(d) \/ Terminate(d) \/ Crash(d))
      PROVE  Next
  BY <1>2 DEF Next, Uses
<1>3. ASSUME NEW d \in Dumps, Choose(d)
      PROVE  [Next]_vars
  BY <1>3, ChoiceIsASelection DEF Next
<1>4. CASE StorageStep /\ UNCHANGED <<vars, missed>>
  BY <1>4
<1>5. CASE UNCHANGED allVars
  BY <1>5 DEF allVars
<1> QED
  BY <1>1, <1>2, <1>3, <1>4, <1>5 DEF CNext

\* Whatever the storage driver publishes and whenever it is stopped, a dump
\* that calls recommend_storage behaves as Acquisition says
\* (TcpDump._select_storage, Storage.recommend_storage): every theorem about
\* Acquisition holds of the composed system.
THEOREM CompositionIsAnAcquisition == AnyAnswer => (CSpec => ImplementsAcquisition)
<1> SUFFICES ASSUME AnyAnswer PROVE CSpec => ImplementsAcquisition
  OBVIOUS
<1>1. CInit => Init
  BY DEF CInit
<1>2. DriverInv /\ [CNext]_allVars => [Next]_vars
  BY StepSimulates
<1> QED
  BY <1>1, <1>2, DriverInvariant, PTL DEF CSpec, Spec, ImplementsAcquisition
=============================================================================
