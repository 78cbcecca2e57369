--------------------------- MODULE Gateway_proofs ---------------------------
(***************************************************************************)
(* Theorems about Gateway, for any vehicle, any number of clients and      *)
(* workers and any combination of faults.                                  *)
(***************************************************************************)
EXTENDS Gateway, SequenceTheorems, TLAPS

-----------------------------------------------------------------------------
(* The invariants: of the calls (their clients and their places), and of   *)
(* the recorders (their handlers and their threads).                       *)

SensorCalls == [from : Clients \cup {None}, kind : {"start", "stop", "check"}, target : Sensors]
DeviceCalls == [from : Clients \cup {None}, kind : {"list", "snapshot"}, target : Devices]
Calls == SensorCalls \cup DeviceCalls

CallTypes ==
  /\ op \in [Clients -> Operations \cup {"idle"}]
  /\ left \in [Clients -> SUBSET Devices]
  /\ todo \in [Clients -> SUBSET Sensors]
  /\ sent \in [Clients -> Calls \cup {None}]
  /\ known \subseteq Devices
  /\ started \subseteq Sensors
  /\ owed \in [Clients -> SUBSET Sensors]
  /\ queue \in Seq(Calls)
  /\ job \in [Workers -> Calls \cup {None}]

\* A call names its caller; while a list is fetched nothing else is to do, and only the
\* operations that call sensors fetch lists.
SentInv ==
  \A c \in Clients :
    /\ todo[c] # {} => op[c] \in {"start", "stop", "check"}
    /\ op[c] = "idle" => sent[c] = None
    /\ sent[c] # None =>
         /\ sent[c].from = c
         /\ sent[c].kind = "list" => todo[c] = {} /\ op[c] \in {"start", "stop", "check"}

\* What a stop owes is still to do, or on a fetched list of a device to come.
OwedInv ==
  \A c \in Clients :
    /\ owed[c] # {} => op[c] = "stop"
    /\ \A s \in owed[c] : s \in todo[c] \/ \E dev \in left[c] \cap known : s \in dev

\* Each call that somebody waits for is in one place at most: queued once, run by one
\* worker, or at another device.
OnePerCaller(q) == \A i, j \in DOMAIN q : q[i].from = q[j].from => i = j

PlaceInv ==
  /\ OnePerCaller(queue)
  /\ \A call \in Queued :
       /\ call.from \in Clients /\ sent[call.from] = call
       /\ call.kind \in {"list", "snapshot"} => call.target = Cpu
  /\ \A w \in Workers : job[w] # None =>
       /\ job[w].kind \in {"start", "stop", "snapshot"}
       /\ job[w].kind = "snapshot" => job[w].target = Cpu
       /\ job[w].from # None =>
            /\ sent[job[w].from] = job[w]
            /\ \A call \in Queued : call.from # job[w].from
            /\ \A v \in Workers \ {w} : job[v] # None => job[v].from # job[w].from

CallInv == CallTypes /\ SentInv /\ OwedInv /\ PlaceInv

RecorderTypes ==
  /\ at \in [Workers -> Stages]
  /\ own \in [Workers -> Dumps \cup {None}]
  /\ tcpdump \in [Sensors -> Dumps \cup {None}]
  /\ of \in [Dumps -> Sensors]
  /\ thread \in [Dumps -> {"loop", "notify", "clear", "gone"}]
  /\ acqState \in [Dumps -> {"UNKNOWN", "ACQUIRING", "NOT_ACQUIRING"}]
  /\ halting \subseteq Dumps
  /\ located \in BOOLEAN
  /\ raced \subseteq Sensors /\ quiet \subseteq Sensors

Alive(d) == thread[d] # "gone"

\* A handler is where its call takes it, and holds a recorder just in some places.
StageInv ==
  \A w \in Workers :
    /\ job[w] = None => at[w] = "idle"
    /\ job[w] # None =>
         \/ job[w].kind = "start" /\ at[w] \in {"test", "create", "assign", "poll"}
         \/ job[w].kind = "stop" /\ at[w] \in {"test", "set", "join", "clear"}
         \/ job[w].kind = "snapshot" /\ at[w] = "poll"
    /\ IF at[w] \in {"assign", "join", "clear"} THEN own[w] \in Dumps ELSE own[w] = None
    /\ at[w] = "clear" => ~Alive(own[w])

\* The handlers in whose hands the attribute is: a start that found it None, and a
\* stop that is going to make it None.
Opens(w, s) == job[w] # None /\ job[w].target = s /\ at[w] \in {"create", "assign"}
Closes(w, s) == job[w] # None /\ job[w].target = s /\ at[w] \in {"join", "clear"}

\* As long as no two of them meet, the attribute names the one recorder that lives,
\* except while a start has it in its hand.
Orderly(s) ==
  /\ \A w \in Workers : Opens(w, s) =>
       /\ tcpdump[s] = None
       /\ \A v \in Workers : v # w => ~Opens(v, s)
       /\ \A v \in Workers : ~Closes(v, s)
       /\ \A d \in Dumps : of[d] = s /\ Alive(d) =>
            at[w] = "assign" /\ d = own[w] /\ thread[d] # "clear"
  /\ \A w \in Workers : Closes(w, s) => tcpdump[s] \in {None, own[w]}
  /\ (\A w \in Workers : ~Opens(w, s)) =>
       \A d \in Dumps : of[d] = s /\ Alive(d) => d = tcpdump[s]

RaceInv == \A s \in Sensors \ raced : Orderly(s)

\* A quiet sensor has no start under way, and no recorder that lives.
QuietInv ==
  \A s \in quiet :
    /\ ~StartUnderWay(s)
    /\ s \notin raced => \A d \in Dumps : of[d] = s => ~Alive(d)

RecorderInv == RecorderTypes /\ StageInv /\ RaceInv /\ QuietInv

GInv == CallInv /\ RecorderInv

-----------------------------------------------------------------------------
(* The queue.                                                              *)

Elements(q) == {q[i] : i \in DOMAIN q}

LEMMA Enqueued ==
  ASSUME NEW q \in Seq(Calls), NEW x \in Calls, OnePerCaller(q), \A e \in Elements(q) : e.from # x.from
  PROVE  /\ Append(q, x) \in Seq(Calls)
         /\ Elements(Append(q, x)) = Elements(q) \cup {x}
         /\ OnePerCaller(Append(q, x))
<1> DEFINE p == Append(q, x)
<1>1. /\ p \in Seq(Calls) /\ Len(p) = Len(q) + 1 /\ Len(q) \in Nat
      /\ DOMAIN q = 1 .. Len(q) /\ DOMAIN p = 1 .. Len(p)
      /\ \A i \in 1 .. Len(q) : p[i] = q[i]
      /\ p[Len(q) + 1] = x
  BY AppendProperties, LenProperties
<1>2. DOMAIN p = DOMAIN q \cup {Len(q) + 1} /\ Len(q) + 1 \notin DOMAIN q
  BY <1>1
<1> HIDE DEF p
<1>3. Elements(p) = Elements(q) \cup {x}
  BY <1>1, <1>2 DEF Elements
<1>4. OnePerCaller(p)
  BY <1>1, <1>2 DEF Elements, OnePerCaller
<1> QED
  BY <1>1, <1>3, <1>4 DEF p

LEMMA Dequeued ==
  ASSUME NEW q \in Seq(Calls), q # <<>>, OnePerCaller(q)
  PROVE  /\ Head(q) \in Elements(q) /\ Tail(q) \in Seq(Calls)
         /\ Elements(Tail(q)) = {e \in Elements(q) : e.from # Head(q).from}
         /\ OnePerCaller(Tail(q))
<1> DEFINE t == Tail(q)
<1>1. /\ t \in Seq(Calls) /\ Len(t) = Len(q) - 1
      /\ \A i \in 1 .. Len(t) : t[i] = q[i + 1]
  BY HeadTailProperties
<1>2. /\ Len(q) \in Nat \ {0} /\ DOMAIN q = 1 .. Len(q) /\ DOMAIN t = 1 .. Len(t)
      /\ Head(q) = q[1]
  BY <1>1, LenProperties, EmptySeq
<1> HIDE DEF t
<1>3. /\ 1 \in DOMAIN q
      /\ \A i \in DOMAIN t : i + 1 \in DOMAIN q /\ i + 1 # 1 /\ t[i] = q[i + 1]
      /\ \A i \in DOMAIN q : i # 1 => i - 1 \in DOMAIN t /\ t[i - 1] = q[i]
  BY <1>1, <1>2
<1>4. OnePerCaller(t)
  <2>1. \A i, j \in DOMAIN t : i + 1 = j + 1 => i = j
    BY <1>2
  <2> QED
    BY <1>3, <2>1 DEF OnePerCaller
<1>5. Elements(t) = {e \in Elements(q) : e.from # q[1].from}
  BY <1>3 DEF Elements, OnePerCaller
<1> QED
  BY <1>1, <1>2, <1>3, <1>4, <1>5 DEF t, Elements

\* What a client withdraws is its one call in the queue.
LEMMA WithdrawnQueue ==
  ASSUME queue \in Seq(Calls), OnePerCaller(queue), NEW c
  PROVE  /\ Withdrawn(c) \in Seq(Calls)
         /\ Elements(Withdrawn(c)) = {e \in Elements(queue) : e.from # c}
         /\ OnePerCaller(Withdrawn(c))
<1> DEFINE places == {i \in DOMAIN queue : queue[i].from = c}
<1>1. CASE places = {}
  <2>1. Withdrawn(c) = queue
    BY <1>1 DEF Withdrawn
  <2> QED
    BY <1>1, <2>1 DEF Elements
<1>2. CASE places # {}
  <2> DEFINE k == CHOOSE i \in places : TRUE
             p == SubSeq(queue, 1, k - 1)
             r == SubSeq(queue, k + 1, Len(queue))
             t == p \o r
  <2>1. k \in places
    BY <1>2
  <2>2. Withdrawn(c) = t
    BY <1>2 DEF Withdrawn, RemoveAt
  <2> HIDE DEF k
  <2>3. /\ Len(queue) \in Nat /\ DOMAIN queue = 1 .. Len(queue)
        /\ \A i \in 1 .. Len(queue) : queue[i] \in Calls
        /\ k \in 1 .. Len(queue) /\ queue[k].from = c
    BY <2>1, LenProperties, ElementOfSeq
  <2>4. /\ p \in Seq(Calls) /\ Len(p) = k - 1
        /\ \A i \in 1 .. k - 1 : p[i] = queue[i]
    <3>1. /\ k - 1 \in Int /\ 1 \in Int /\ \A i \in 1 .. k - 1 : queue[i] \in Calls
      BY <2>3
    <3>2. /\ p \in Seq(Calls) /\ Len(p) = IF 1 <= k - 1 THEN k - 1 - 1 + 1 ELSE 0
          /\ \A i \in 1 .. k - 1 - 1 + 1 : p[i] = queue[1 + i - 1]
      BY <3>1, SubSeqProperties
    <3> HIDE DEF p
    <3> QED
      BY <2>3, <3>2
  <2>5. /\ r \in Seq(Calls) /\ Len(r) = Len(queue) - k
        /\ \A i \in 1 .. Len(queue) - k : r[i] = queue[k + i]
    <3>1. /\ k + 1 \in Int /\ Len(queue) \in Int /\ \A i \in k + 1 .. Len(queue) : queue[i] \in Calls
      BY <2>3
    <3>2. /\ r \in Seq(Calls)
          /\ Len(r) = IF k + 1 <= Len(queue) THEN Len(queue) - (k + 1) + 1 ELSE 0
          /\ \A i \in 1 .. Len(queue) - (k + 1) + 1 : r[i] = queue[k + 1 + i - 1]
      BY <3>1, SubSeqProperties
    <3> HIDE DEF r
    <3>3. \A i \in 1 .. Len(queue) - k :
            i \in 1 .. Len(queue) - (k + 1) + 1 /\ k + 1 + i - 1 = k + i
      BY <2>3
    <3>4. \A i \in 1 .. Len(queue) - k : r[i] = queue[k + i]
      BY <3>2, <3>3
    <3>5. Len(r) = Len(queue) - k
      <4>1. Len(r) = IF k + 1 <= Len(queue) THEN Len(queue) - (k + 1) + 1 ELSE 0
        BY <3>2
      <4>2. k \in Int /\ Len(queue) \in Int /\ k <= Len(queue)
        BY <2>3
      <4> QED
        BY <4>1, <4>2
    <3> QED
      BY <3>2, <3>4, <3>5
  <2> HIDE DEF p, r
  <2>6. /\ t \in Seq(Calls) /\ Len(t) = Len(p) + Len(r)
        /\ \A i \in 1 .. Len(p) + Len(r) : t[i] = IF i <= Len(p) THEN p[i] ELSE r[i - Len(p)]
    BY <2>4, <2>5, ConcatProperties
  <2> HIDE DEF t
  <2>7. /\ DOMAIN t = 1 .. Len(queue) - 1
        /\ \A i \in 1 .. Len(queue) - 1 : t[i] = queue[IF i < k THEN i ELSE i + 1]
    <3>1. DOMAIN t = 1 .. Len(t) /\ Len(t) = Len(queue) - 1
      BY <2>3, <2>4, <2>5, <2>6, LenProperties
    <3>2. ASSUME NEW i \in 1 .. Len(queue) - 1
          PROVE  t[i] = queue[IF i < k THEN i ELSE i + 1]
      <4>1. CASE i < k
        <5>1. i \in 1 .. k - 1 /\ i \in 1 .. Len(p) + Len(r) /\ i <= Len(p)
          BY <2>3, <2>4, <2>5, <4>1
        <5> QED
          BY <2>4, <2>6, <4>1, <5>1
      <4>2. CASE ~(i < k)
        <5>1. i - (k - 1) \in 1 .. Len(queue) - k /\ k + (i - (k - 1)) = i + 1 /\ ~(i <= k - 1)
          BY <2>3, <4>2
        <5>2. t[i] = r[i - (k - 1)]
          BY <2>3, <2>4, <2>5, <2>6, <5>1
        <5> QED
          BY <2>5, <4>2, <5>1, <5>2
      <4> QED
        BY <4>1, <4>2
    <3> QED
      BY <3>1, <3>2
  <2> DEFINE from(i) == IF i < k THEN i ELSE i + 1
  <2>8. /\ \A i \in DOMAIN t : from(i) \in DOMAIN queue \ {k} /\ t[i] = queue[from(i)]
        /\ \A i, j \in DOMAIN t : from(i) = from(j) => i = j
        /\ \A j \in DOMAIN queue \ {k} : \E i \in DOMAIN t : from(i) = j
    <3>1. \A j \in DOMAIN queue \ {k} : \E i \in DOMAIN t : from(i) = j
      <4> SUFFICES ASSUME NEW j \in DOMAIN queue \ {k}
                   PROVE  \E i \in DOMAIN t : from(i) = j
        OBVIOUS
      <4>1. CASE j < k
        BY <2>3, <2>7, <4>1
      <4>2. CASE j > k
        <5>1. j - 1 \in DOMAIN t /\ from(j - 1) = j
          BY <2>3, <2>7, <4>2
        <5> QED
          BY <5>1
      <4> QED
        BY <2>3, <4>1, <4>2
    <3> QED
      BY <2>3, <2>7, <3>1
  <2> HIDE DEF from
  <2>9. OnePerCaller(t)
    BY <2>8 DEF OnePerCaller
  <2>10. Elements(t) = {e \in Elements(queue) : e.from # c}
    <3>1. \A j \in DOMAIN queue : j # k => queue[j].from # c
      BY <2>3 DEF OnePerCaller
    <3> QED
      BY <2>3, <2>8, <3>1 DEF Elements
  <2> QED
    BY <2>2, <2>6, <2>9, <2>10
<1> QED
  BY <1>1, <1>2

-----------------------------------------------------------------------------
(* The calls.                                                              *)

LEMMA NoneIsNoCall == None \notin Calls /\ None \notin Clients /\ None \notin Dumps
  BY GatewayAssumption DEF Calls, SensorCalls, DeviceCalls, CallSet, Kinds

LEMMA CallIsACall ==
  ASSUME NEW c \in Clients, NEW kind, NEW target,
         \/ kind \in {"start", "stop", "check"} /\ target \in Sensors
         \/ kind \in {"list", "snapshot"} /\ target \in Devices
  PROVE  /\ Call(c, kind, target) \in Calls
         /\ Call(c, kind, target).from = c
         /\ Call(c, kind, target).kind = kind
         /\ Call(c, kind, target).target = target
  BY DEF Call, Calls, SensorCalls, DeviceCalls

LEMMA CallFields ==
  ASSUME NEW call \in Calls
  PROVE  /\ call.from \in Clients \cup {None}
         /\ call.kind \in {"start", "stop", "check"} => call.target \in Sensors
         /\ call.kind \in {"list", "snapshot"} => call.target \in Devices
         /\ call.kind \in {"start", "stop", "check", "list", "snapshot"}
  BY DEF Calls, SensorCalls, DeviceCalls

\* A client that waits for nothing has no call anywhere.
LEMMA IdleHasNoCall ==
  ASSUME CallInv, NEW c \in Clients, sent[c] = None
  PROVE  /\ \A e \in Queued : e.from # c
         /\ \A w \in Workers : job[w] # None => job[w].from # c
<1>1. \A e \in Queued : e \in Calls
  BY ElementOfSeq, LenProperties DEF CallInv, CallTypes, Queued
<1>2. \A e \in Queued : e.from # c
  BY <1>1, NoneIsNoCall DEF CallInv, PlaceInv
<1>3. \A w \in Workers : job[w] # None => job[w].from # c
  BY NoneIsNoCall DEF CallInv, PlaceInv, CallTypes
<1> QED
  BY <1>2, <1>3

-----------------------------------------------------------------------------
(* The initial states.                                                     *)

LEMMA InitGInv == GInit => GInv
<1> SUFFICES ASSUME GInit PROVE GInv
  OBVIOUS
<1> USE DEF GInit
<1>1. queue \in Seq(Calls) /\ OnePerCaller(queue) /\ Queued = {}
  BY EmptySeq DEF OnePerCaller, Queued
<1>2. CallInv
  BY <1>1 DEF CallInv, CallTypes, SentInv, OwedInv, PlaceInv
<1>3. RecorderTypes /\ StageInv
  BY DEF RecorderTypes, StageInv, Stages
<1>4. RaceInv /\ QuietInv
  BY DEF RaceInv, QuietInv, Orderly, Opens, Closes, Alive
<1> QED
  BY <1>2, <1>3, <1>4 DEF GInv, RecorderInv

-----------------------------------------------------------------------------
(* Steps that leave one of the two invariants alone.                       *)

LEMMA CallsUntouched ==
  ASSUME CallInv, UNCHANGED <<clientVars, queue, job, started, owed>>
  PROVE  CallInv'
  BY DEF CallInv, CallTypes, SentInv, OwedInv, PlaceInv, Queued, OnePerCaller, clientVars

\* What clients do: workers may lose the caller of their call, and the sensors that
\* are quiet stay so or are quiet no more.
LEMMA RecordersUntouched ==
  ASSUME RecorderInv, UNCHANGED <<at, own, tcpdump, dumpVars, located, raced>>,
         \A w \in Workers :
           /\ (job'[w] = None) = (job[w] = None)
           /\ job[w] # None => job'[w].kind = job[w].kind /\ job'[w].target = job[w].target,
         quiet' \subseteq quiet,
         \A s \in quiet' : StartUnderWay(s)' => StartUnderWay(s)
  PROVE  RecorderInv'
<1> USE DEF RecorderInv, dumpVars
<1>1. RecorderTypes'
  BY DEF RecorderTypes
<1>2. StageInv'
  BY DEF StageInv, Alive
<1>3. \A w \in Workers : \A s : (Opens(w, s)' <=> Opens(w, s)) /\ (Closes(w, s)' <=> Closes(w, s))
  BY DEF Opens, Closes
<1>4. RaceInv'
  <2>1. \A s \in Sensors : Orderly(s) => Orderly(s)'
    BY <1>3 DEF Orderly, Alive
  <2> QED
    BY <2>1 DEF RaceInv
<1>5. QuietInv'
  BY DEF QuietInv, Alive
<1> QED
  BY <1>1, <1>2, <1>4, <1>5


-----------------------------------------------------------------------------
(* The gateway's steps.                                                    *)

LEMMA StartUnderWaySame ==
  ASSUME UNCHANGED <<queue, job, at>>, NEW s
  PROVE  StartUnderWay(s)' <=> StartUnderWay(s)
  BY DEF StartUnderWay

LEMMA BeginKeeps ==
  ASSUME GInv, NEW c \in Clients,
         \/ \E o \in Operations : BeginAll(c, o)
         \/ \E o \in {"start", "stop"}, s \in Sensors : BeginOne(c, o, s)
  PROVE  GInv'
<1> USE DEF GInv, CallInv
<1>1. UNCHANGED <<sent, known, queue, job, at, own, tcpdump, dumpVars, located, started, raced, quiet>>
  BY DEF BeginAll, BeginOne, jobVars, historyVars
<1>2. /\ op[c] = "idle" /\ \A b \in Clients \ {c} : op'[b] = op[b] /\ left'[b] = left[b] /\ todo'[b] = todo[b] /\ owed'[b] = owed[b]
      /\ \/ \E o \in Operations :
              /\ op'[c] = o /\ left'[c] = Devices /\ todo'[c] = todo[c]
              /\ owed'[c] = IF o = "stop" THEN {s \in started : Listed(s)} ELSE {}
         \/ \E o \in {"start", "stop"}, s \in Sensors :
              op'[c] = o /\ left'[c] = left[c] /\ todo'[c] = {s} /\ owed'[c] = owed[c]
  BY DEF BeginAll, BeginOne, historyVars, CallTypes
<1>3. sent[c] = None
  BY <1>2 DEF SentInv
<1>4. CallTypes'
  BY <1>1 DEF BeginAll, BeginOne, historyVars, CallTypes, Operations
<1>5. SentInv'
  BY <1>1, <1>2, <1>3 DEF SentInv
<1>6. OwedInv'
  <2>1. owed[c] = {} /\ todo[c] = {}
    BY <1>2 DEF OwedInv, SentInv
  <2> QED
    BY <1>1, <1>2, <2>1 DEF OwedInv, CallTypes, Listed
<1>7. PlaceInv'
  BY <1>1 DEF PlaceInv, Queued, OnePerCaller
<1>8. RecorderInv'
  BY <1>1, StartUnderWaySame, RecordersUntouched
<1> QED
  BY <1>4, <1>5, <1>6, <1>7, <1>8

LEMMA ReturnKeeps ==
  ASSUME GInv, NEW c \in Clients, Return(c)
  PROVE  GInv'
<1> USE DEF GInv, CallInv, Return, Loops
<1>1. UNCHANGED <<left, todo, sent, known, queue, job, at, own, tcpdump, dumpVars, located, started, raced, quiet>>
  BY DEF jobVars
<1>2. CallTypes'
  BY <1>1 DEF CallTypes
<1>3. SentInv' /\ OwedInv'
  BY <1>1 DEF SentInv, OwedInv, CallTypes
<1>4. PlaceInv'
  BY <1>1 DEF PlaceInv, Queued, OnePerCaller
<1>5. RecorderInv'
  BY <1>1, StartUnderWaySame, RecordersUntouched
<1> QED
  BY <1>2, <1>3, <1>4, <1>5

LEMMA SendKeepsPlaces ==
  ASSUME CallInv, NEW c \in Clients, sent[c] = None,
         NEW call \in Calls, call.from = c,
         sent' = [sent EXCEPT ![c] = call], UNCHANGED job,
         \/ UNCHANGED queue
         \/ queue' = Append(queue, call) /\ (call.kind \in {"list", "snapshot"} => call.target = Cpu)
  PROVE  /\ sent' \in [Clients -> Calls \cup {None}]
         /\ queue' \in Seq(Calls)
         /\ Queued' \subseteq Queued \cup {call}
         /\ PlaceInv'
<1> USE DEF CallInv, CallTypes
<1>1. /\ sent' \in [Clients -> Calls \cup {None}]
      /\ sent'[c] = call /\ \A b \in Clients \ {c} : sent'[b] = sent[b]
  OBVIOUS
<1>2. \A w \in Workers : job[w] # None /\ job[w].from # None => sent'[job[w].from] = sent[job[w].from]
  BY <1>1, IdleHasNoCall, CallFields
<1>3. \A e \in Queued : e.from # c /\ sent'[e.from] = sent[e.from]
  BY <1>1, IdleHasNoCall DEF PlaceInv
<1>4. CASE UNCHANGED queue
  <2>1. Queued' = Queued
    BY <1>4 DEF Queued
  <2> QED
    BY <1>1, <1>2, <1>3, <1>4, <2>1 DEF PlaceInv
<1>5. CASE queue' = Append(queue, call) /\ (call.kind \in {"list", "snapshot"} => call.target = Cpu)
  <2>1. queue' \in Seq(Calls) /\ Queued' = Queued \cup {call} /\ OnePerCaller(queue')
    <3>1. /\ Elements(queue) = Queued /\ Elements(queue') = Queued'
          /\ OnePerCaller(queue) /\ \A e \in Elements(queue) : e.from # call.from
      BY <1>3 DEF Queued, Elements, PlaceInv
    <3> QED
      BY <1>5, <3>1, Enqueued
  <2>2. \A w \in Workers : job[w] # None => job[w].from # c
    BY IdleHasNoCall
  <2> QED
    BY <1>1, <1>2, <1>3, <1>5, <2>1, <2>2 DEF PlaceInv
<1> QED
  BY <1>4, <1>5

\* A start is under way if one is queued, or if one is run and has stored nothing.
LEMMA UnderWayIfQueued ==
  ASSUME NEW s
  PROVE  StartUnderWay(s) <=>
           \/ \E e \in Queued : e.kind = "start" /\ e.target = s
           \/ \E w \in Workers : /\ job[w] # None /\ job[w].kind = "start" /\ job[w].target = s
                                 /\ at[w] \in {"test", "create", "assign"}
  BY DEF StartUnderWay, Queued

LEMMA UnderWayIfQueuedNext ==
  ASSUME NEW s
  PROVE  StartUnderWay(s)' <=>
           \/ \E e \in Queued' : e.kind = "start" /\ e.target = s
           \/ \E w \in Workers : /\ job'[w] # None /\ job'[w].kind = "start" /\ job'[w].target = s
                                 /\ at'[w] \in {"test", "create", "assign"}
  BY DEF StartUnderWay, Queued

LEMMA VisitKeeps ==
  ASSUME GInv, NEW c \in Clients, NEW dev \in Devices, Visit(c, dev)
  PROVE  GInv'
<1> USE DEF GInv, CallInv
<1>1. CASE op[c] # "snapshot" /\ Filled(dev)
  <2>1. /\ todo' = [todo EXCEPT ![c] = dev] /\ left' = [left EXCEPT ![c] = @ \ {dev}]
        /\ UNCHANGED <<op, sent, known, queue, job, at, own, tcpdump, dumpVars, located, started, owed, raced, quiet>>
        /\ dev \in known /\ sent[c] = None /\ todo[c] = {}
        /\ op[c] \in {"start", "stop", "check"}
    BY <1>1 DEF Visit, Filled, Loops, CallTypes, Operations, jobVars, historyVars
  <2>2. CallTypes'
    BY <2>1, GatewayAssumption DEF CallTypes
  <2>3. SentInv' /\ OwedInv'
    BY <2>1 DEF CallTypes, SentInv, OwedInv
  <2>4. PlaceInv'
    BY <2>1 DEF PlaceInv, Queued, OnePerCaller
  <2>5. RecorderInv'
    BY <2>1, StartUnderWaySame, RecordersUntouched
  <2> QED
    BY <2>2, <2>3, <2>4, <2>5
<1>2. CASE ~(op[c] # "snapshot" /\ Filled(dev))
  <2> DEFINE kind == IF op[c] = "snapshot" THEN "snapshot" ELSE "list"
             call == Call(c, kind, dev)
  <2>1. /\ left' = [left EXCEPT ![c] = @ \ {dev}]
        /\ Send(c, kind, dev)
        /\ UNCHANGED <<todo, started, owed, raced, quiet>>
        /\ sent[c] = None /\ todo[c] = {}
        /\ op[c] = "snapshot" \/ op[c] \in {"start", "stop", "check"}
    BY <1>2 DEF Visit, Loops, CallTypes, Operations, historyVars
  <2>2. call \in Calls /\ call.from = c /\ call.kind = kind /\ call.target = dev
    BY CallIsACall
  <2>3. /\ sent' = [sent EXCEPT ![c] = call]
        /\ UNCHANGED <<op, known, job, at, own, tcpdump, dumpVars, located>>
        /\ UNCHANGED queue \/ (queue' = Append(queue, call) /\ dev = Cpu)
    BY <2>1 DEF Send, jobVars
  <2> HIDE DEF call
  <2>4. sent' \in [Clients -> Calls \cup {None}] /\ queue' \in Seq(Calls) /\ PlaceInv' /\ Queued' \subseteq Queued \cup {call}
    BY <2>1, <2>2, <2>3, SendKeepsPlaces
  <2>5. CallTypes'
    BY <2>1, <2>3, <2>4 DEF CallTypes
  <2>6. \A b \in Clients : sent'[b] = IF b = c THEN call ELSE sent[b]
    BY <2>3 DEF CallTypes
  <2>7. SentInv'
    BY <2>1, <2>2, <2>3, <2>6 DEF SentInv
  <2>8. OwedInv'
    <3>1. \A s \in owed[c] : s \in dev => dev \notin known
      BY <1>2 DEF OwedInv, Filled
    <3> QED
      BY <2>1, <2>3, <3>1 DEF OwedInv, CallTypes
  <2>9. \A s : StartUnderWay(s)' => StartUnderWay(s)
    BY <2>2, <2>3, <2>4, UnderWayIfQueued, UnderWayIfQueuedNext
  <2>10. RecorderInv'
    BY <2>1, <2>3, <2>9, RecordersUntouched
  <2> QED
    BY <2>4, <2>5, <2>7, <2>8, <2>10
<1> QED
  BY <1>1, <1>2

LEMMA AskKeeps ==
  ASSUME GInv, NEW c \in Clients, NEW s \in Sensors, Ask(c, s)
  PROVE  GInv'
<1> USE DEF GInv, CallInv
<1> DEFINE call == Call(c, op[c], s)
<1>1. /\ todo' = [todo EXCEPT ![c] = @ \ {s}]
      /\ Send(c, op[c], s) /\ UNCHANGED <<left, raced>>
      /\ sent[c] = None /\ s \in todo[c]
      /\ started' = IF op[c] = "start" THEN started \cup {s} ELSE started
      /\ owed' = [owed EXCEPT ![c] = @ \ {s}]
      /\ quiet' = IF op[c] = "start" THEN quiet \ {s} ELSE quiet
      /\ op[c] \in {"start", "stop", "check"}
  BY DEF Ask, Loops, SentInv
<1>2. call \in Calls /\ call.from = c /\ call.kind = op[c] /\ call.target = s
  BY <1>1, CallIsACall
<1>3. /\ sent' = [sent EXCEPT ![c] = call]
      /\ UNCHANGED <<op, known, job, at, own, tcpdump, dumpVars, located>>
      /\ queue' = Append(queue, call)
  BY <1>1 DEF Send, jobVars
<1> HIDE DEF call
<1>4. sent' \in [Clients -> Calls \cup {None}] /\ queue' \in Seq(Calls) /\ PlaceInv' /\ Queued' \subseteq Queued \cup {call}
  BY <1>1, <1>2, <1>3, SendKeepsPlaces
<1>5. CallTypes'
  BY <1>1, <1>3, <1>4 DEF CallTypes
<1>6. \A b \in Clients : sent'[b] = IF b = c THEN call ELSE sent[b]
  BY <1>3 DEF CallTypes
<1>7. SentInv' /\ OwedInv'
  BY <1>1, <1>2, <1>3, <1>6 DEF SentInv, OwedInv, CallTypes
<1>8. \A t \in quiet' : StartUnderWay(t)' => StartUnderWay(t)
  BY <1>1, <1>2, <1>3, <1>4, UnderWayIfQueued, UnderWayIfQueuedNext
<1>9. RecorderInv'
  BY <1>1, <1>3, <1>8, RecordersUntouched
<1> QED
  BY <1>4, <1>5, <1>7, <1>9

-----------------------------------------------------------------------------
(* Answers and failures.                                                   *)

\* The end of a call: its caller waits for nothing any more.
LEMMA FailsKeeps ==
  ASSUME GInv, NEW c \in Clients, sent[c] # None, Fails(c), UNCHANGED <<at, own>>,
         queue' \in Seq(Calls), OnePerCaller(queue)', Queued' = {e \in Queued : e.from # c},
         job' \in [Workers -> Calls \cup {None}],
         \A w \in Workers : \/ job'[w] = job[w] /\ (job[w] = None \/ job[w].from # c)
                            \/ job[w] # None /\ job'[w] # None /\ job'[w] = [job[w] EXCEPT !.from = None]
  PROVE  GInv'
<1> USE DEF GInv, CallInv
<1>1. \A b \in Clients : sent'[b] = IF b = c THEN None ELSE sent[b]
  BY DEF Fails, CallTypes
<1>2. UNCHANGED <<op, left, todo, known, tcpdump, dumpVars, located, started, owed, raced, quiet>>
  BY DEF Fails, historyVars
<1>3. CallTypes'
  BY <1>2 DEF CallTypes, Fails
<1>4. SentInv' /\ OwedInv'
  BY <1>1, <1>2 DEF SentInv, OwedInv
<1>5. \A w \in Workers : job'[w] # None =>
        /\ job[w] # None
        /\ job'[w].kind = job[w].kind /\ job'[w].target = job[w].target
        /\ job'[w].from # None => job'[w] = job[w] /\ job[w].from # c
  BY DEF CallTypes, Calls, SensorCalls, DeviceCalls
<1>6. PlaceInv'
  <2>1. \A e \in Queued' : e \in Queued /\ sent'[e.from] = sent[e.from]
    BY <1>1 DEF PlaceInv
  <2>2. \A w \in Workers : job'[w] # None /\ job'[w].from # None => sent'[job'[w].from] = sent[job[w].from]
    BY <1>1, <1>5, CallFields DEF CallTypes
  <2> QED
    BY <1>5, <2>1, <2>2 DEF PlaceInv
<1>7. \A w \in Workers : (job'[w] = None) = (job[w] = None)
  OBVIOUS
<1>8. \A s : StartUnderWay(s)' => StartUnderWay(s)
  BY <1>5, UnderWayIfQueued, UnderWayIfQueuedNext
<1>9. RecorderInv'
  BY <1>2, <1>5, <1>7, <1>8, RecordersUntouched
<1> QED
  BY <1>3, <1>4, <1>6, <1>9

LEMMA ExpireKeeps ==
  ASSUME GInv, NEW c \in Clients, Expire(c)
  PROVE  GInv'
<1>1. /\ sent[c] # None /\ Fails(c) /\ UNCHANGED <<at, own>>
      /\ queue' = Withdrawn(c)
      /\ job' = [w \in Workers |-> IF job[w] # None /\ job[w].from = c
                                   THEN [job[w] EXCEPT !.from = None] ELSE job[w]]
  BY DEF Expire
<1>2. queue' \in Seq(Calls) /\ OnePerCaller(queue') /\ Queued' = {e \in Queued : e.from # c}
  BY <1>1, WithdrawnQueue DEF GInv, CallInv, CallTypes, PlaceInv, Queued, Elements
<1>3. \A call \in Calls : [call EXCEPT !.from = None] \in Calls
  BY DEF Calls, SensorCalls, DeviceCalls
<1>4. job' \in [Workers -> Calls \cup {None}]
  BY <1>1, <1>3 DEF GInv, CallInv, CallTypes
<1>5. \A w \in Workers : \/ job'[w] = job[w] /\ (job[w] = None \/ job[w].from # c)
                         \/ job[w] # None /\ job'[w] # None /\ job'[w] = [job[w] EXCEPT !.from = None]
  BY <1>1, <1>3, NoneIsNoCall DEF GInv, CallInv, CallTypes
<1> QED
  BY <1>1, <1>2, <1>4, <1>5, FailsKeeps

\* A call to another device is at no place of the service.
LEMMA ElsewhereIsNotHere ==
  ASSUME CallInv, NEW c \in Clients, Elsewhere(c)
  PROVE  (\A e \in Queued : e.from # c) /\ \A w \in Workers : job[w] # None => job[w].from # c
  BY NoneIsNoCall DEF CallInv, PlaceInv, Elsewhere

LEMMA OtherFailsKeeps ==
  ASSUME GInv, NEW c \in Clients, OtherFails(c)
  PROVE  GInv'
<1>1. /\ Elsewhere(c) /\ Fails(c) /\ UNCHANGED <<queue, job, at, own>>
  BY DEF OtherFails, jobVars
<1>2. (\A e \in Queued : e.from # c) /\ \A w \in Workers : job[w] # None => job[w].from # c
  BY <1>1, ElsewhereIsNotHere DEF GInv
<1>3. queue' \in Seq(Calls) /\ OnePerCaller(queue)' /\ Queued' = {e \in Queued : e.from # c}
  BY <1>1, <1>2 DEF GInv, CallInv, CallTypes, PlaceInv, Queued, OnePerCaller
<1>4. job' \in [Workers -> Calls \cup {None}]
  BY <1>1 DEF GInv, CallInv, CallTypes
<1> QED
  BY <1>1, <1>2, <1>3, <1>4, FailsKeeps DEF Elsewhere

\* The answer to `call`, on the clients' side.
LEMMA ReceiveKeeps ==
  ASSUME CallInv, NEW call \in Calls, NEW stopped \in BOOLEAN, Receive(call, stopped),
         call.from = None \/ (call.from \in Clients /\ sent[call.from] = call),
         queue' \in Seq(Calls), job' \in [Workers -> Calls \cup {None}]
  PROVE  /\ CallTypes' /\ SentInv' /\ OwedInv'
         /\ \A b \in Clients : sent'[b] = IF b = call.from THEN None ELSE sent[b]
         /\ UNCHANGED raced
         /\ \/ UNCHANGED quiet
            \/ stopped /\ ~StartUnderWay(call.target) /\ quiet' = quiet \cup {call.target}
<1> USE DEF CallInv
<1>1. CASE call.from = None
  <2>1. UNCHANGED <<clientVars, historyVars>>
    BY <1>1 DEF Receive
  <2>2. \A b \in Clients : b # call.from
    BY <1>1, NoneIsNoCall
  <2> QED
    BY <2>1, <2>2 DEF CallTypes, SentInv, OwedInv, clientVars, historyVars
<1>2. CASE call.from # None
  <2> DEFINE c == call.from
  <2>1. /\ c \in Clients /\ sent[c] = call /\ call # None
        /\ sent' = [sent EXCEPT ![c] = None]
        /\ IF call.kind = "list" THEN todo' = [todo EXCEPT ![c] = call.target] /\ known' = known \cup {call.target}
                                  ELSE UNCHANGED <<todo, known>>
        /\ quiet' = IF stopped /\ ~StartUnderWay(call.target) THEN quiet \cup {call.target} ELSE quiet
        /\ UNCHANGED <<op, left, started, owed, raced>>
    BY <1>2, NoneIsNoCall DEF Receive
  <2>2. /\ call.kind = "list" => call.target \in Devices /\ call.target \subseteq Sensors
    BY GatewayAssumption, CallFields
  <2> HIDE DEF c
  <2>3. \A b \in Clients : sent'[b] = IF b = c THEN None ELSE sent[b]
    BY <2>1 DEF CallTypes
  <2>4. CallTypes'
    BY <2>1, <2>2 DEF CallTypes
  <2>5. SentInv' /\ OwedInv'
    <3>1. CASE call.kind = "list"
      <4>1. todo[c] = {} /\ op[c] \in {"start", "stop", "check"}
        BY <2>1, <3>1 DEF SentInv
      <4>2. SentInv'
        BY <2>1, <2>3, <3>1, <4>1 DEF SentInv, CallTypes
      <4>3. OwedInv'
        BY <2>1, <3>1, <4>1 DEF OwedInv, CallTypes
      <4> QED
        BY <4>2, <4>3
    <3>2. CASE call.kind # "list"
      BY <2>1, <2>3, <3>2 DEF SentInv, OwedInv, CallTypes
    <3> QED
      BY <3>1, <3>2
  <2> QED
    BY <2>1, <2>3, <2>4, <2>5 DEF c
<1> QED
  BY <1>1, <1>2

LEMMA OtherAnswersKeeps ==
  ASSUME GInv, NEW c \in Clients, OtherAnswers(c)
  PROVE  GInv'
<1> USE DEF GInv, CallInv
<1> DEFINE call == sent[c]
<1>1. Elsewhere(c) /\ Receive(call, FALSE) /\ UNCHANGED <<queue, job, at, own, tcpdump, dumpVars, located>>
  BY DEF OtherAnswers, jobVars
<1>2. call \in Calls /\ call.from = c
  BY <1>1 DEF Elsewhere, CallTypes, SentInv
<1>3. /\ CallTypes' /\ SentInv' /\ OwedInv' /\ UNCHANGED <<raced, quiet>>
      /\ \A b \in Clients : sent'[b] = IF b = c THEN None ELSE sent[b]
  <2>1. queue' \in Seq(Calls) /\ job' \in [Workers -> Calls \cup {None}]
    BY <1>1 DEF CallTypes
  <2>2. /\ CallTypes' /\ SentInv' /\ OwedInv' /\ UNCHANGED <<raced, quiet>>
        /\ \A b \in Clients : sent'[b] = IF b = call.from THEN None ELSE sent[b]
    BY <1>1, <1>2, <2>1, ReceiveKeeps
  <2> QED
    BY <1>2, <2>2
<1>4. (\A e \in Queued : e.from # c) /\ \A w \in Workers : job[w] # None => job[w].from # c
  BY <1>1, ElsewhereIsNotHere
<1>5. PlaceInv'
  <2>1. UNCHANGED <<queue, job>> /\ Queued' = Queued
    BY <1>1 DEF Queued
  <2>2. \A e \in Queued : sent'[e.from] = sent[e.from]
    BY <1>3, <1>4 DEF PlaceInv
  <2>3. \A w \in Workers : job[w] # None /\ job[w].from # None => sent'[job[w].from] = sent[job[w].from]
    BY <1>3, <1>4, CallFields DEF CallTypes
  <2> QED
    BY <2>1, <2>2, <2>3 DEF PlaceInv, OnePerCaller
<1>6. RecorderInv'
  BY <1>1, <1>3, StartUnderWaySame, RecordersUntouched
<1> QED
  BY <1>3, <1>5, <1>6

-----------------------------------------------------------------------------
(* The workers' steps.                                                     *)

\* A worker answers and is free again.
LEMMA AnswersKeep ==
  ASSUME CallInv, NEW w \in Workers, NEW call \in Calls, NEW stopped \in BOOLEAN, Answers(w, call, stopped),
         call.from = None \/ (call.from \in Clients /\ sent[call.from] = call),
         queue' \in Seq(Calls), OnePerCaller(queue)',
         \A e \in Queued' : e \in Queued /\ e.from # call.from,
         call.from # None => \A v \in Workers \ {w} : job[v] # None => job[v].from # call.from
  PROVE  /\ CallInv'
         /\ UNCHANGED raced
         /\ \/ UNCHANGED quiet
            \/ stopped /\ ~StartUnderWay(call.target) /\ quiet' = quiet \cup {call.target}
         /\ \A v \in Workers : job'[v] = IF v = w THEN None ELSE job[v]
<1> USE DEF CallInv
<1>1. Receive(call, stopped) /\ job' = [job EXCEPT ![w] = None]
  BY DEF Answers
<1>2. job' \in [Workers -> Calls \cup {None}] /\ \A v \in Workers : job'[v] = IF v = w THEN None ELSE job[v]
  BY <1>1 DEF CallTypes
<1>3. /\ CallTypes' /\ SentInv' /\ OwedInv' /\ UNCHANGED raced
      /\ \/ UNCHANGED quiet
         \/ stopped /\ ~StartUnderWay(call.target) /\ quiet' = quiet \cup {call.target}
      /\ \A b \in Clients : sent'[b] = IF b = call.from THEN None ELSE sent[b]
  BY <1>1, <1>2, ReceiveKeeps
<1>4. \A v \in Workers : job'[v] # None => v # w /\ job'[v] = job[v]
  BY <1>2
<1>5. PlaceInv'
  <2>1. \A e \in Queued' : e.from \in Clients /\ sent'[e.from] = sent[e.from]
    BY <1>3 DEF PlaceInv
  <2>2. \A v \in Workers : job'[v] # None /\ job'[v].from # None =>
          job[v].from # call.from /\ sent'[job[v].from] = sent[job[v].from]
    BY <1>3, <1>4, CallFields DEF CallTypes
  <2> QED
    BY <1>4, <2>1, <2>2 DEF PlaceInv
<1> QED
  BY <1>2, <1>3, <1>5

\* The same for a worker that answers the call it runs.
LEMMA AnswersItsJob ==
  ASSUME CallInv, NEW w \in Workers, job[w] # None, NEW stopped \in BOOLEAN, Answers(w, job[w], stopped),
         UNCHANGED queue
  PROVE  /\ CallInv'
         /\ UNCHANGED raced
         /\ \/ UNCHANGED quiet
            \/ stopped /\ ~StartUnderWay(job[w].target) /\ quiet' = quiet \cup {job[w].target}
         /\ \A v \in Workers : job'[v] = IF v = w THEN None ELSE job[v]
<1> USE DEF CallInv
<1>1. job[w] \in Calls
  BY DEF CallTypes
<1>2. job[w].from = None \/ (job[w].from \in Clients /\ sent[job[w].from] = job[w])
  BY <1>1, CallFields DEF PlaceInv
<1>3. /\ queue' \in Seq(Calls) /\ OnePerCaller(queue)' /\ Queued' = Queued
      /\ \A e \in Queued : e.from # job[w].from
  BY <1>1, NoneIsNoCall DEF CallTypes, PlaceInv, Queued, OnePerCaller
<1>4. job[w].from # None => \A v \in Workers \ {w} : job[v] # None => job[v].from # job[w].from
  BY DEF PlaceInv
<1> QED
  BY <1>1, <1>2, <1>3, <1>4, AnswersKeep

\* The workers' variables, place by place.
LEMMA AtOwn ==
  ASSUME RecorderTypes, NEW w \in Workers, NEW stage \in Stages, NEW d \in Dumps \cup {None},
         at' = [at EXCEPT ![w] = stage], own' = [own EXCEPT ![w] = d]
  PROVE  /\ at' \in [Workers -> Stages] /\ own' \in [Workers -> Dumps \cup {None}]
         /\ at'[w] = stage /\ own'[w] = d
         /\ \A v \in Workers \ {w} : at'[v] = at[v] /\ own'[v] = own[v]
  BY DEF RecorderTypes

\* A handler that has nothing in its hand returns.
LEMMA WorkerIsFree ==
  ASSUME RecorderInv, NEW w \in Workers, at[w] \notin {"assign", "join", "clear"},
         \A v \in Workers : job'[v] = IF v = w THEN None ELSE job[v],
         at' = [at EXCEPT ![w] = "idle"], own' = [own EXCEPT ![w] = None],
         UNCHANGED <<tcpdump, dumpVars, located, raced>>,
         \A s : StartUnderWay(s)' => StartUnderWay(s),
         \/ UNCHANGED quiet
         \/ \E t \in Sensors : tcpdump[t] = None /\ ~StartUnderWay(t) /\ quiet' = quiet \cup {t}
  PROVE  RecorderInv'
<1> USE DEF RecorderInv, dumpVars
<1>1. /\ at' \in [Workers -> Stages] /\ own' \in [Workers -> Dumps \cup {None}]
      /\ at'[w] = "idle" /\ own'[w] = None /\ job'[w] = None
      /\ \A v \in Workers \ {w} : at'[v] = at[v] /\ own'[v] = own[v] /\ job'[v] = job[v]
  BY AtOwn DEF Stages
<1>2. RecorderTypes'
  BY <1>1 DEF RecorderTypes
<1>3. StageInv'
  BY <1>1 DEF StageInv, Alive
<1>4. \A v \in Workers : \A s :
        /\ Opens(v, s)' <=> v # w /\ Opens(v, s)
        /\ Closes(v, s)' <=> v # w /\ Closes(v, s)
  BY <1>1 DEF Opens, Closes
<1>5. ASSUME NEW s \in Sensors, Orderly(s)
      PROVE  Orderly(s)'
  <2>1. \A v \in Workers : Opens(v, s)' => Opens(v, s) /\ at'[v] = at[v] /\ own'[v] = own[v]
    BY <1>1, <1>4
  <2>2. \A v \in Workers : Closes(v, s)' => Closes(v, s) /\ own'[v] = own[v]
    BY <1>1, <1>4
  <2>3. (\A v \in Workers : ~Opens(v, s)') => \A d \in Dumps : of[d] = s /\ Alive(d) => d = tcpdump[s]
    <3>1. CASE Opens(w, s)
      BY <1>5, <3>1 DEF Orderly, Opens
    <3>2. CASE ~Opens(w, s)
      BY <1>4, <1>5, <3>2 DEF Orderly
    <3> QED
      BY <3>1, <3>2
  <2> QED
    BY <1>5, <2>1, <2>2, <2>3 DEF Orderly, Alive
<1>6. RaceInv'
  BY <1>5 DEF RaceInv
<1>7. QuietInv'
  <2>1. ASSUME NEW t \in Sensors, tcpdump[t] = None, ~StartUnderWay(t), t \notin raced
        PROVE  \A d \in Dumps : of[d] = t => ~Alive(d)
    <3>1. \A v \in Workers : ~Opens(v, t)
      BY <2>1 DEF Opens, StageInv, StartUnderWay
    <3> QED
      BY <2>1, <3>1, NoneIsNoCall DEF RaceInv, Orderly
  <2> QED
    BY <2>1 DEF QuietInv, Alive, RecorderTypes
<1> QED
  BY <1>2, <1>3, <1>6, <1>7 DEF RecorderTypes

\* A start that is under way in a worker keeps its sensor from being quiet.
LEMMA UnderWayInWorker ==
  ASSUME NEW w \in Workers, job[w] # None, job[w].kind = "start", at[w] \in {"test", "create", "assign"}
  PROVE  StartUnderWay(job[w].target)
  BY DEF StartUnderWay

LEMMA TakeKeeps ==
  ASSUME GInv, NEW w \in Workers, Take(w)
  PROVE  GInv'
<1> USE DEF GInv, CallInv
<1> DEFINE call == Head(queue)
<1>1. /\ job[w] = None /\ queue # <<>> /\ queue' = Tail(queue)
      /\ UNCHANGED <<tcpdump, dumpVars, located>>
      /\ IF call.kind \in {"start", "stop", "snapshot"}
           THEN /\ job' = [job EXCEPT ![w] = call]
                /\ at' = [at EXCEPT ![w] = IF call.kind = "snapshot" THEN "poll" ELSE "test"]
                /\ UNCHANGED <<clientVars, own, historyVars>>
           ELSE Answers(w, call, FALSE)
  BY DEF Take
<1>2. /\ call \in Queued /\ call \in Calls
      /\ queue' \in Seq(Calls) /\ OnePerCaller(queue)'
      /\ Queued' = {e \in Queued : e.from # call.from}
  <2>1. /\ call \in Elements(queue) /\ queue' \in Seq(Calls)
        /\ Elements(queue') = {e \in Elements(queue) : e.from # call.from}
        /\ OnePerCaller(queue')
    BY <1>1, Dequeued DEF PlaceInv, CallTypes
  <2> HIDE DEF call
  <2>2. call \in Calls
    BY <2>1, LenProperties, ElementOfSeq DEF CallTypes, Elements
  <2> QED
    BY <2>1, <2>2 DEF Elements, Queued, OnePerCaller
<1>3. /\ call.from \in Clients /\ sent[call.from] = call /\ call.from # None /\ call # None
      /\ \A v \in Workers \ {w} : job[v] # None => job[v].from # call.from
      /\ call.kind \in {"list", "snapshot"} => call.target = Cpu
  BY <1>2, NoneIsNoCall DEF PlaceInv
<1> HIDE DEF call
<1>4. CASE call.kind \notin {"start", "stop", "snapshot"}
  <2>1. Answers(w, call, FALSE)
    BY <1>1, <1>4
  <2>2. /\ CallInv' /\ UNCHANGED <<raced, quiet>>
        /\ \A v \in Workers : job'[v] = IF v = w THEN None ELSE job[v]
    <3>1. /\ CallInv' /\ UNCHANGED raced
          /\ UNCHANGED quiet \/ (FALSE /\ ~StartUnderWay(call.target) /\ quiet' = quiet \cup {call.target})
          /\ \A v \in Workers : job'[v] = IF v = w THEN None ELSE job[v]
      BY <1>2, <1>3, <2>1, AnswersKeep
    <3> QED
      BY <3>1
  <2>3. at' = [at EXCEPT ![w] = "idle"] /\ own' = [own EXCEPT ![w] = None] /\ at[w] = "idle"
    BY <1>1, <2>1 DEF Answers, RecorderInv, StageInv
  <2>4. \A s : StartUnderWay(s)' => StartUnderWay(s)
    <3>1. at' = at
      BY <2>3 DEF RecorderInv, RecorderTypes
    <3> QED
      BY <1>2, <2>2, <3>1, UnderWayIfQueued, UnderWayIfQueuedNext
  <2>5. RecorderInv'
    BY <1>1, <2>2, <2>3, <2>4, WorkerIsFree
  <2> QED
    BY <2>2, <2>5
<1>5. CASE call.kind \in {"start", "stop", "snapshot"}
  <2> DEFINE stage == IF call.kind = "snapshot" THEN "poll" ELSE "test"
  <2>1. /\ job' = [job EXCEPT ![w] = call] /\ at' = [at EXCEPT ![w] = stage]
        /\ UNCHANGED <<op, left, todo, sent, known, own, started, owed, raced, quiet>>
    BY <1>1, <1>5 DEF clientVars, historyVars
  <2>2. /\ \A v \in Workers : job'[v] = IF v = w THEN call ELSE job[v]
        /\ job' \in [Workers -> Calls \cup {None}]
    BY <1>2, <2>1 DEF CallTypes
  <2>3. CallTypes' /\ SentInv' /\ OwedInv'
    BY <1>2, <2>1, <2>2 DEF CallTypes, SentInv, OwedInv
  <2>4. PlaceInv'
    <3>1. \A v \in Workers : job[v] # None => v # w /\ job[v].from # call.from
      BY <1>1, <1>3
    <3>2. \A e \in Queued' : e \in Queued /\ e.from # call.from
      BY <1>2
    <3>3. \A e \in Queued' : e.from \in Clients /\ sent'[e.from] = e /\ (e.kind \in {"list", "snapshot"} => e.target = Cpu)
      BY <2>1, <3>2 DEF PlaceInv
    <3>4. ASSUME NEW v \in Workers, job'[v] # None
          PROVE  /\ job'[v].kind \in {"start", "stop", "snapshot"}
                 /\ job'[v].kind = "snapshot" => job'[v].target = Cpu
                 /\ job'[v].from # None =>
                      /\ sent'[job'[v].from] = job'[v]
                      /\ \A e \in Queued' : e.from # job'[v].from
                      /\ \A u \in Workers \ {v} : job'[u] # None => job'[u].from # job'[v].from
      <4>1. CASE v = w
        BY <1>3, <1>5, <2>1, <2>2, <3>1, <3>2, <4>1
      <4>2. CASE v # w
        BY <2>1, <2>2, <3>1, <3>2, <3>4, <4>2 DEF PlaceInv
      <4> QED
        BY <4>1, <4>2
    <3> QED
      BY <1>2, <3>3, <3>4 DEF PlaceInv
  <2>5. RecorderInv'
    <3> USE DEF RecorderInv, dumpVars
    <3>1. /\ at' \in [Workers -> Stages] /\ at'[w] = stage /\ own'[w] = own[w] /\ own[w] = None
          /\ at[w] = "idle"
          /\ \A v \in Workers \ {w} : at'[v] = at[v] /\ own'[v] = own[v] /\ job'[v] = job[v]
      BY <1>1, <2>1, <2>2 DEF RecorderTypes, StageInv, Stages
    <3>2. RecorderTypes'
      BY <1>1, <2>1, <3>1 DEF RecorderTypes
    <3>3. StageInv'
      BY <1>1, <1>3, <1>5, <2>2, <3>1 DEF StageInv, Alive
    <3>4. \A v \in Workers : \A s : (Opens(v, s)' <=> Opens(v, s)) /\ (Closes(v, s)' <=> Closes(v, s))
      BY <1>1, <3>1 DEF Opens, Closes
    <3>5. \A v \in Workers : \A s : Opens(v, s) => at'[v] = at[v] /\ own'[v] = own[v]
      BY <1>1, <3>1 DEF Opens
    <3>6. RaceInv'
      <4>1. \A s \in Sensors : Orderly(s) => Orderly(s)'
        BY <1>1, <2>1, <3>4, <3>5 DEF Orderly, Alive
      <4> QED
        BY <2>1, <4>1 DEF RaceInv
    <3>7. \A s : StartUnderWay(s)' => StartUnderWay(s)
      <4>1. call.kind = "start" => StartUnderWay(call.target)
        BY <1>2, UnderWayIfQueued
      <4> QED
        BY <1>1, <1>2, <2>2, <3>1, <4>1, UnderWayIfQueued, UnderWayIfQueuedNext
    <3>8. QuietInv'
      BY <1>1, <2>1, <3>7 DEF QuietInv, Alive
    <3> QED
      BY <3>2, <3>3, <3>6, <3>8
  <2> QED
    BY <2>3, <2>4, <2>5
<1> QED
  BY <1>4, <1>5

\* The handlers that answer with nothing in their hand: the calls are in order, and
\* so are the recorders.
LEMMA EmptyHandedAnswer ==
  ASSUME GInv, NEW w \in Workers, job[w] # None, NEW stopped \in BOOLEAN, Answers(w, job[w], stopped),
         at[w] \notin {"assign", "join", "clear"},
         stopped => job[w].target \in Sensors /\ tcpdump[job[w].target] = None,
         UNCHANGED <<queue, tcpdump, dumpVars, located>>
  PROVE  GInv'
<1> USE DEF GInv
<1>1. /\ CallInv' /\ UNCHANGED raced
      /\ \/ UNCHANGED quiet
         \/ stopped /\ ~StartUnderWay(job[w].target) /\ quiet' = quiet \cup {job[w].target}
      /\ \A v \in Workers : job'[v] = IF v = w THEN None ELSE job[v]
  BY AnswersItsJob
<1>2. at' = [at EXCEPT ![w] = "idle"] /\ own' = [own EXCEPT ![w] = None]
  BY DEF Answers
<1>3. \A s : StartUnderWay(s)' => StartUnderWay(s)
  <2>1. Queued' = Queued /\ \A v \in Workers : job'[v] # None => job'[v] = job[v] /\ at'[v] = at[v]
    BY <1>1, <1>2 DEF Queued, RecorderInv, RecorderTypes
  <2> QED
    BY <2>1, UnderWayIfQueued, UnderWayIfQueuedNext
<1>4. RecorderInv'
  BY <1>1, <1>2, <1>3, WorkerIsFree
<1> QED
  BY <1>1, <1>4

\* A handler that goes on: what is the same for all of them.
LEMMA GoesOn ==
  ASSUME GInv, NEW w \in Workers, NEW stage \in Stages, GoesTo(w, stage), UNCHANGED <<started, owed>>
  PROVE  /\ CallInv'
         /\ at' \in [Workers -> Stages]
         /\ at'[w] = stage /\ \A v \in Workers \ {w} : at'[v] = at[v]
         /\ UNCHANGED <<queue, job>>
         /\ (stage \in {"test", "create", "assign"} => at[w] \in {"test", "create", "assign"})
              => \A s : StartUnderWay(s)' => StartUnderWay(s)
<1> USE DEF GInv
<1>1. UNCHANGED <<clientVars, queue, job>> /\ at' = [at EXCEPT ![w] = stage]
  BY DEF GoesTo
<1>2. CallInv'
  BY <1>1, CallsUntouched
<1>3. at' \in [Workers -> Stages] /\ at'[w] = stage /\ \A v \in Workers \ {w} : at'[v] = at[v]
  BY <1>1 DEF RecorderInv, RecorderTypes
<1>4. ASSUME stage \in {"test", "create", "assign"} => at[w] \in {"test", "create", "assign"}, NEW s
      PROVE  StartUnderWay(s)' => StartUnderWay(s)
  <2>1. Queued' = Queued
    BY <1>1 DEF Queued
  <2> QED
    BY <1>1, <1>3, <1>4, <2>1, UnderWayIfQueued, UnderWayIfQueuedNext
<1> QED
  BY <1>1, <1>2, <1>3, <1>4

\* The sensor of a handler.
LEMMA TargetOf ==
  ASSUME CallInv, NEW w \in Workers, job[w] # None, job[w].kind \in {"start", "stop"}
  PROVE  job[w].target \in Sensors
  BY CallFields DEF CallInv, CallTypes

LEMMA StartTestKeeps ==
  ASSUME GInv, NEW w \in Workers, StartTest(w)
  PROVE  GInv'
<1> USE DEF GInv
<1> DEFINE s == job[w].target
<1>1. /\ job[w] # None /\ job[w].kind = "start" /\ at[w] = "test" /\ s \in Sensors
      /\ UNCHANGED <<tcpdump, dumpVars, located>>
      /\ IF tcpdump[s] # None
           THEN Answers(w, job[w], FALSE) /\ UNCHANGED queue
           ELSE /\ GoesTo(w, "create")
                /\ raced' = IF Crossed(s) THEN raced \cup {s} ELSE raced
                /\ UNCHANGED <<own, started, owed, quiet>>
  BY TargetOf DEF StartTest, Runs
<1>2. CASE tcpdump[s] # None
  BY <1>1, <1>2, EmptyHandedAnswer
<1>3. CASE tcpdump[s] = None
  <2> USE DEF RecorderInv, dumpVars
  <2>1. /\ CallInv' /\ at' \in [Workers -> Stages]
        /\ at'[w] = "create" /\ \A v \in Workers \ {w} : at'[v] = at[v]
        /\ UNCHANGED <<queue, job, own, quiet>>
        /\ \A t : StartUnderWay(t)' => StartUnderWay(t)
        /\ raced' = IF Crossed(s) THEN raced \cup {s} ELSE raced
    BY <1>1, <1>3, GoesOn DEF Stages
  <2>2. RecorderTypes'
    BY <1>1, <2>1 DEF RecorderTypes
  <2>3. StageInv'
    BY <1>1, <2>1 DEF StageInv, Alive
  <2>4. \A v \in Workers : \A t : Closes(v, t)' <=> Closes(v, t)
    BY <1>1, <2>1 DEF Closes
  <2>5. \A v \in Workers : \A t : Opens(v, t)' <=> (v = w /\ t = s) \/ Opens(v, t)
    BY <1>1, <2>1 DEF Opens
  <2>6. \A t : ~Opens(w, t)
    BY <1>1 DEF Opens
  <2>7. ASSUME NEW t \in Sensors, t \notin raced', t # s
        PROVE  Orderly(t)'
    <3>1. Orderly(t)
      BY <2>1, <2>7 DEF RaceInv
    <3>2. \A v \in Workers : Opens(v, t) => v # w
      BY <2>6
    <3> QED
      BY <1>1, <2>1, <2>4, <2>5, <2>7, <3>1, <3>2 DEF Orderly, Alive
  <2>8. ASSUME s \notin raced'
        PROVE  Orderly(s)'
    <3>1. ~Crossed(s) /\ Orderly(s)
      BY <1>1, <2>1, <2>8 DEF RaceInv
    <3>2. \A v \in Workers : ~Opens(v, s) /\ ~Closes(v, s)
      BY <3>1 DEF Crossed, Opens, Closes
    <3>3. \A d \in Dumps : of[d] = s => ~Alive(d)
      BY <1>3, <3>1, <3>2, NoneIsNoCall DEF Orderly
    <3> QED
      BY <1>1, <1>3, <2>1, <2>4, <2>5, <3>2, <3>3 DEF Orderly, Alive
  <2>9. RaceInv'
    BY <2>1, <2>7, <2>8 DEF RaceInv
  <2>10. QuietInv'
    BY <1>1, <2>1 DEF QuietInv, Alive
  <2> QED
    BY <2>1, <2>2, <2>3, <2>9, <2>10
<1> QED
  BY <1>2, <1>3

LEMMA StartCreateKeeps ==
  ASSUME GInv, NEW w \in Workers, StartCreate(w)
  PROVE  GInv'
<1> USE DEF GInv
<1> DEFINE s == job[w].target
<1>1. /\ job[w] # None /\ job[w].kind = "start" /\ at[w] = "create" /\ s \in Sensors
      /\ UNCHANGED <<tcpdump, located>>
  BY TargetOf DEF StartCreate, Runs
<1>2. CASE FreeDumps = {}
  <2>1. Answers(w, job[w], FALSE) /\ UNCHANGED <<queue, dumpVars>>
    BY <1>2 DEF StartCreate
  <2> QED
    BY <1>1, <2>1, EmptyHandedAnswer
<1>3. CASE FreeDumps # {}
  <2> USE DEF RecorderInv
  <2>1. PICK d \in FreeDumps :
          /\ GoesTo(w, "assign") /\ own' = [own EXCEPT ![w] = d]
          /\ of' = [of EXCEPT ![d] = s] /\ thread' = [thread EXCEPT ![d] = "loop"]
          /\ acqState' = [acqState EXCEPT ![d] = "UNKNOWN"]
          /\ UNCHANGED <<halting, historyVars>>
    BY <1>3 DEF StartCreate
  <2>2. /\ d \in Dumps /\ ~Alive(d)
        /\ \A t \in Sensors : tcpdump[t] # d
        /\ \A v \in Workers : own[v] # d
    BY DEF FreeDumps, Alive
  <2>3. /\ CallInv' /\ at' \in [Workers -> Stages]
        /\ at'[w] = "assign" /\ \A v \in Workers \ {w} : at'[v] = at[v]
        /\ UNCHANGED <<queue, job, raced, quiet>>
        /\ \A t : StartUnderWay(t)' => StartUnderWay(t)
    BY <1>1, <2>1, GoesOn DEF Stages, historyVars
  <2>4. /\ own' \in [Workers -> Dumps \cup {None}]
        /\ own'[w] = d /\ \A v \in Workers \ {w} : own'[v] = own[v]
    BY <2>1, <2>2 DEF RecorderTypes
  <2>5. /\ of'[d] = s /\ thread'[d] = "loop"
        /\ \A e \in Dumps \ {d} : of'[e] = of[e] /\ thread'[e] = thread[e]
    BY <2>1, <2>2 DEF RecorderTypes
  <2>6. RecorderTypes'
    BY <1>1, <2>1, <2>2, <2>3, <2>4 DEF RecorderTypes
  <2>7. StageInv'
    <3>1. \A v \in Workers \ {w} : at[v] = "clear" => own[v] \in Dumps \ {d}
      BY <2>2 DEF StageInv
    <3> QED
      BY <1>1, <2>2, <2>3, <2>4, <2>5, <3>1 DEF StageInv, Alive
  <2>8. \A v \in Workers : \A t : (Opens(v, t)' <=> Opens(v, t)) /\ (Closes(v, t)' <=> Closes(v, t))
    BY <1>1, <2>3 DEF Opens, Closes
  <2>9. \A t \in Sensors \ {s} : Orderly(t) => Orderly(t)'
    <3> SUFFICES ASSUME NEW t \in Sensors \ {s}, Orderly(t)
                 PROVE  Orderly(t)'
      OBVIOUS
    <3>1. \A v \in Workers : Opens(v, t) \/ Closes(v, t) => v # w
      BY DEF Opens, Closes
    <3>2. \A e \in Dumps : of'[e] = t /\ Alive(e)' => e # d /\ of[e] = t /\ Alive(e)
      BY <2>5 DEF Alive
    <3> QED
      BY <1>1, <2>3, <2>4, <2>5, <2>8, <3>1, <3>2 DEF Orderly
  <2>10. Orderly(s) => Orderly(s)'
    <3> SUFFICES ASSUME Orderly(s)
                 PROVE  Orderly(s)'
      OBVIOUS
    <3>1. Opens(w, s)
      BY <1>1 DEF Opens
    <3>2. /\ tcpdump[s] = None
          /\ \A v \in Workers : v # w => ~Opens(v, s)
          /\ \A v \in Workers : ~Closes(v, s)
          /\ \A e \in Dumps : of[e] = s => ~Alive(e)
      BY <1>1, <3>1 DEF Orderly
    <3>3. \A e \in Dumps : of'[e] = s /\ Alive(e)' => e = d
      BY <2>5, <3>2 DEF Alive
    <3> QED
      BY <1>1, <2>3, <2>4, <2>5, <2>8, <3>1, <3>2, <3>3 DEF Orderly
  <2>11. RaceInv'
    BY <2>3, <2>9, <2>10 DEF RaceInv
  <2>12. QuietInv'
    <3>1. StartUnderWay(s)
      BY <1>1, UnderWayInWorker
    <3>2. s \notin quiet
      BY <3>1 DEF QuietInv
    <3> QED
      BY <2>3, <2>5, <3>2 DEF QuietInv, Alive
  <2> QED
    BY <2>3, <2>6, <2>7, <2>11, <2>12
<1> QED
  BY <1>2, <1>3

LEMMA StartAssignKeeps ==
  ASSUME GInv, NEW w \in Workers, StartAssign(w)
  PROVE  GInv'
<1> USE DEF GInv, RecorderInv, dumpVars
<1> DEFINE s == job[w].target
<1>1. /\ job[w] # None /\ job[w].kind = "start" /\ at[w] = "assign" /\ s \in Sensors
      /\ tcpdump' = [tcpdump EXCEPT ![s] = own[w]]
      /\ own' = [own EXCEPT ![w] = None]
      /\ GoesTo(w, "poll")
      /\ UNCHANGED <<dumpVars, located, historyVars>>
  BY TargetOf DEF StartAssign, Runs
<1>2. /\ CallInv' /\ at' \in [Workers -> Stages]
      /\ at'[w] = "poll" /\ \A v \in Workers \ {w} : at'[v] = at[v]
      /\ UNCHANGED <<queue, job, raced, quiet>>
      /\ \A t : StartUnderWay(t)' => StartUnderWay(t)
  BY <1>1, GoesOn DEF Stages, historyVars
<1>3. /\ own[w] \in Dumps /\ own' \in [Workers -> Dumps \cup {None}]
      /\ own'[w] = None /\ \A v \in Workers \ {w} : own'[v] = own[v]
  BY <1>1 DEF RecorderTypes, StageInv
<1>4. tcpdump'[s] = own[w] /\ \A t \in Sensors \ {s} : tcpdump'[t] = tcpdump[t]
  BY <1>1 DEF RecorderTypes
<1>5. RecorderTypes'
  BY <1>1, <1>2, <1>3 DEF RecorderTypes
<1>6. StageInv'
  BY <1>1, <1>2, <1>3 DEF StageInv, Alive
<1>7. \A v \in Workers : \A t : /\ Opens(v, t)' <=> v # w /\ Opens(v, t)
                                /\ Closes(v, t)' <=> Closes(v, t)
  BY <1>1, <1>2 DEF Opens, Closes
<1>8. \A t \in Sensors \ {s} : Orderly(t) => Orderly(t)'
  <2>1. \A t \in Sensors \ {s} : ~Opens(w, t) /\ ~Closes(w, t)
    BY DEF Opens, Closes
  <2>2. \A t \in Sensors \ {s} : \A v \in Workers : (Opens(v, t)' <=> Opens(v, t)) /\ (Opens(v, t) => v # w)
    BY <1>7, <2>1
  <2>3. \A t \in Sensors \ {s} : \A v \in Workers : (Closes(v, t)' <=> Closes(v, t)) /\ (Closes(v, t) => v # w)
    BY <1>7, <2>1
  <2> QED
    BY <1>1, <1>2, <1>3, <1>4, <2>2, <2>3 DEF Orderly, Alive
<1>9. Orderly(s) => Orderly(s)'
  <2> SUFFICES ASSUME Orderly(s)
               PROVE  Orderly(s)'
    OBVIOUS
  <2>1. Opens(w, s)
    BY <1>1 DEF Opens
  <2>2. /\ \A v \in Workers : v # w => ~Opens(v, s)
        /\ \A v \in Workers : ~Closes(v, s)
        /\ \A d \in Dumps : of[d] = s /\ Alive(d) => d = own[w]
    BY <2>1 DEF Orderly
  <2> QED
    BY <1>1, <1>2, <1>4, <1>7, <2>2 DEF Orderly, Alive
<1>10. RaceInv'
  BY <1>2, <1>8, <1>9 DEF RaceInv
<1>11. QuietInv'
  BY <1>1, <1>2 DEF QuietInv, Alive
<1> QED
  BY <1>2, <1>5, <1>6, <1>10, <1>11

LEMMA PollsKeep ==
  ASSUME GInv, NEW w \in Workers, StartPoll(w) \/ EndSnapshot(w)
  PROVE  GInv'
  BY EmptyHandedAnswer DEF StartPoll, EndSnapshot, Runs

LEMMA StopTestKeeps ==
  ASSUME GInv, NEW w \in Workers, StopTest(w)
  PROVE  GInv'
<1> USE DEF GInv
<1>1. /\ job[w] # None /\ job[w].kind = "stop" /\ at[w] = "test" /\ job[w].target \in Sensors
      /\ UNCHANGED <<tcpdump, dumpVars, located>>
  BY TargetOf DEF StopTest, Runs
<1>2. CASE tcpdump[job[w].target] = None
  <2>1. Answers(w, job[w], TRUE) /\ UNCHANGED queue
    BY <1>2 DEF StopTest
  <2> QED
    BY <1>1, <1>2, <2>1, EmptyHandedAnswer
<1>3. CASE tcpdump[job[w].target] # None
  <2> USE DEF RecorderInv, dumpVars
  <2>1. GoesTo(w, "set") /\ UNCHANGED <<own, raced, quiet, started, owed>>
    BY <1>3 DEF StopTest, historyVars
  <2>2. /\ CallInv' /\ at' \in [Workers -> Stages]
        /\ at'[w] = "set" /\ \A v \in Workers \ {w} : at'[v] = at[v]
        /\ UNCHANGED <<queue, job>>
        /\ \A t : StartUnderWay(t)' => StartUnderWay(t)
    BY <2>1, GoesOn DEF Stages
  <2>3. RecorderTypes' /\ StageInv'
    BY <1>1, <2>1, <2>2 DEF RecorderTypes, StageInv, Alive
  <2>4. \A v \in Workers : \A t : (Opens(v, t)' <=> Opens(v, t)) /\ (Closes(v, t)' <=> Closes(v, t))
    BY <1>1, <2>2 DEF Opens, Closes
  <2>5. \A v \in Workers : \A t : Opens(v, t) => v # w
    BY <1>1 DEF Opens
  <2>6. \A t \in Sensors : Orderly(t) => Orderly(t)'
    BY <1>1, <2>1, <2>2, <2>4, <2>5 DEF Orderly, Alive
  <2>7. RaceInv' /\ QuietInv'
    BY <1>1, <2>1, <2>2, <2>6 DEF RaceInv, QuietInv, Alive
  <2> QED
    BY <2>2, <2>3, <2>7
<1> QED
  BY <1>2, <1>3

LEMMA StopSetKeeps ==
  ASSUME GInv, NEW w \in Workers, StopSet(w)
  PROVE  GInv'
<1> USE DEF GInv
<1> DEFINE s == job[w].target
           d == tcpdump[s]
<1>1. /\ job[w] # None /\ job[w].kind = "stop" /\ at[w] = "set" /\ s \in Sensors
      /\ UNCHANGED <<tcpdump, of, thread, acqState, located>>
  BY TargetOf DEF StopSet, Runs
<1>2. CASE d = None
  <2>1. Answers(w, job[w], FALSE) /\ UNCHANGED <<queue, halting>>
    BY <1>2 DEF StopSet
  <2> QED
    BY <1>1, <2>1, EmptyHandedAnswer DEF dumpVars
<1>3. CASE d # None
  <2> USE DEF RecorderInv
  <2>1. /\ GoesTo(w, "join") /\ own' = [own EXCEPT ![w] = d]
        /\ UNCHANGED <<raced, quiet, started, owed>>
        /\ halting' \in {halting, halting \cup {d}}
    BY <1>3 DEF StopSet, AfterEvent, historyVars
  <2>2. d \in Dumps
    BY <1>1, <1>3 DEF RecorderTypes
  <2>3. /\ CallInv' /\ at' \in [Workers -> Stages]
        /\ at'[w] = "join" /\ \A v \in Workers \ {w} : at'[v] = at[v]
        /\ UNCHANGED <<queue, job>>
        /\ \A t : StartUnderWay(t)' => StartUnderWay(t)
    BY <2>1, GoesOn DEF Stages
  <2>4. /\ own' \in [Workers -> Dumps \cup {None}]
        /\ own'[w] = d /\ \A v \in Workers \ {w} : own'[v] = own[v]
    BY <2>1, <2>2 DEF RecorderTypes
  <2>5. RecorderTypes'
    BY <1>1, <2>1, <2>2, <2>3, <2>4 DEF RecorderTypes
  <2>6. StageInv'
    BY <1>1, <2>2, <2>3, <2>4 DEF StageInv, Alive
  <2>7. \A v \in Workers : \A t : /\ Opens(v, t)' <=> Opens(v, t)
                                  /\ Closes(v, t)' <=> (v = w /\ t = s) \/ Closes(v, t)
    BY <1>1, <2>3 DEF Opens, Closes
  <2>8. \A v \in Workers : \A t : (Opens(v, t) \/ Closes(v, t)) => v # w
    BY <1>1 DEF Opens, Closes
  <2>9. ASSUME NEW t \in Sensors, Orderly(t)
        PROVE  Orderly(t)'
    <3>1. t = s => \A v \in Workers : ~Opens(v, t)
      BY <1>3, <2>9 DEF Orderly
    <3>2. \A v \in Workers : Closes(v, t)' => tcpdump[t] \in {None, own'[v]}
      BY <2>3, <2>4, <2>7, <2>8, <2>9 DEF Orderly
    <3>3. \A v \in Workers : Opens(v, t) => at'[v] = at[v] /\ own'[v] = own[v]
      BY <2>3, <2>4, <2>8
    <3>4. \A v \in Workers : Opens(v, t) => \A u \in Workers : ~Closes(u, t)'
      BY <2>7, <2>9, <3>1 DEF Orderly
    <3> QED
      BY <1>1, <2>7, <2>9, <3>2, <3>3, <3>4 DEF Orderly, Alive
  <2>10. RaceInv' /\ QuietInv'
    BY <1>1, <2>1, <2>3, <2>9 DEF RaceInv, QuietInv, Alive
  <2> QED
    BY <2>3, <2>5, <2>6, <2>10
<1> QED
  BY <1>2, <1>3

LEMMA StopJoinKeeps ==
  ASSUME GInv, NEW w \in Workers, StopJoin(w)
  PROVE  GInv'
<1> USE DEF GInv, RecorderInv, dumpVars
<1>1. /\ job[w] # None /\ job[w].kind = "stop" /\ at[w] = "join" /\ ~Alive(own[w])
      /\ GoesTo(w, "clear") /\ UNCHANGED <<own, tcpdump, dumpVars, located, raced, quiet, started, owed>>
  BY DEF StopJoin, Runs, Alive, historyVars
<1>2. /\ CallInv' /\ at' \in [Workers -> Stages]
      /\ at'[w] = "clear" /\ \A v \in Workers \ {w} : at'[v] = at[v]
      /\ UNCHANGED <<queue, job>>
      /\ \A t : StartUnderWay(t)' => StartUnderWay(t)
  BY <1>1, GoesOn DEF Stages
<1>3. RecorderTypes' /\ StageInv'
  BY <1>1, <1>2 DEF RecorderTypes, StageInv, Alive
<1>4. \A v \in Workers : \A t : (Opens(v, t)' <=> Opens(v, t)) /\ (Closes(v, t)' <=> Closes(v, t))
  BY <1>1, <1>2 DEF Opens, Closes
<1>5. \A v \in Workers : \A t : Opens(v, t) => v # w
  BY <1>1 DEF Opens
<1>6. \A t \in Sensors : Orderly(t) => Orderly(t)'
  BY <1>1, <1>2, <1>4, <1>5 DEF Orderly, Alive
<1>7. RaceInv' /\ QuietInv'
  BY <1>1, <1>2, <1>6 DEF RaceInv, QuietInv, Alive
<1> QED
  BY <1>2, <1>3, <1>7

LEMMA StopClearKeeps ==
  ASSUME GInv, NEW w \in Workers, StopClear(w)
  PROVE  GInv'
<1> USE DEF GInv, RecorderInv, dumpVars
<1> DEFINE s == job[w].target
<1>1. /\ job[w] # None /\ job[w].kind = "stop" /\ at[w] = "clear" /\ s \in Sensors
      /\ tcpdump' = [tcpdump EXCEPT ![s] = None]
      /\ Answers(w, job[w], TRUE)
      /\ UNCHANGED <<queue, dumpVars, located>>
  BY TargetOf DEF StopClear, Runs
<1>2. /\ CallInv' /\ UNCHANGED raced
      /\ \/ UNCHANGED quiet
         \/ ~StartUnderWay(s) /\ quiet' = quiet \cup {s}
      /\ \A v \in Workers : job'[v] = IF v = w THEN None ELSE job[v]
  BY <1>1, AnswersItsJob
<1>3. /\ at' \in [Workers -> Stages] /\ own' \in [Workers -> Dumps \cup {None}]
      /\ at'[w] = "idle" /\ own'[w] = None /\ job'[w] = None
      /\ \A v \in Workers \ {w} : at'[v] = at[v] /\ own'[v] = own[v] /\ job'[v] = job[v]
  BY <1>1, <1>2, AtOwn DEF Answers, Stages
<1>4. tcpdump'[s] = None /\ \A t \in Sensors \ {s} : tcpdump'[t] = tcpdump[t]
  BY <1>1 DEF RecorderTypes
<1>5. RecorderTypes'
  BY <1>1, <1>2, <1>3 DEF RecorderTypes
<1>6. StageInv'
  BY <1>1, <1>3 DEF StageInv, Alive
<1>7. \A v \in Workers : \A t : /\ Opens(v, t)' <=> v # w /\ Opens(v, t)
                                /\ Closes(v, t)' <=> v # w /\ Closes(v, t)
  BY <1>3 DEF Opens, Closes
<1>8. \A t : ~Opens(w, t)
  BY <1>1 DEF Opens
<1>9. ASSUME NEW t \in Sensors, job[w].target # t, Orderly(t)
      PROVE  Orderly(t)'
  <2>1. \A v \in Workers : Opens(v, t)' <=> Opens(v, t)
    BY <1>7, <1>8
  <2>2. \A v \in Workers : Opens(v, t) => at'[v] = at[v] /\ own'[v] = own[v]
    BY <1>3, <1>8
  <2>3. \A v \in Workers : Closes(v, t)' => Closes(v, t) /\ own'[v] = own[v]
    BY <1>3, <1>7
  <2> QED
    BY <1>1, <1>4, <1>9, <2>1, <2>2, <2>3 DEF Orderly, Alive
<1>10. ASSUME NEW t \in Sensors, t = job[w].target, Orderly(t)
       PROVE  Orderly(t)' /\ \A d \in Dumps : of[d] = t => ~Alive(d)
  <2>1. Closes(w, t)
    BY <1>1, <1>10 DEF Closes
  <2>2. \A v \in Workers : ~Opens(v, t)
    BY <1>10, <2>1 DEF Orderly
  <2>3. tcpdump[t] \in {None, own[w]} /\ ~Alive(own[w])
    BY <1>1, <1>10, <2>1 DEF Orderly, StageInv
  <2>4. \A d \in Dumps : of[d] = t => ~Alive(d)
    BY <1>10, <2>2, <2>3, NoneIsNoCall DEF Orderly
  <2> QED
    BY <1>1, <1>4, <1>7, <1>10, <2>2, <2>4 DEF Orderly, Alive
<1>11. RaceInv'
  BY <1>2, <1>9, <1>10 DEF RaceInv
<1>12. QuietInv'
  <2>1. \A t : StartUnderWay(t)' => StartUnderWay(t)
    <3>1. Queued' = Queued /\ \A v \in Workers : job'[v] # None => job'[v] = job[v] /\ at'[v] = at[v]
      BY <1>1, <1>3 DEF Queued
    <3> QED
      BY <3>1, UnderWayIfQueued, UnderWayIfQueuedNext
  <2>2. \A t \in Sensors : t = job[w].target /\ t \notin raced => \A d \in Dumps : of[d] = t => ~Alive(d)
    BY <1>10 DEF RaceInv
  <2>3. \A t \in quiet' : t \in quiet \/ (t = job[w].target /\ ~StartUnderWay(t))
    BY <1>2
  <2> QED
    BY <1>1, <1>2, <2>1, <2>2, <2>3 DEF QuietInv, Alive
<1> QED
  BY <1>2, <1>5, <1>6, <1>11, <1>12

-----------------------------------------------------------------------------
(* The recorders' threads, and the rest.                                   *)

LEMMA ThreadKeeps ==
  ASSUME GInv, NEW d \in Dumps, Records(d) \/ Thread(d) \/ GivesUp(d) \/ Dies(d)
  PROVE  GInv'
<1> USE DEF GInv, RecorderInv
<1> DEFINE s == of[d]
<1>1. /\ UNCHANGED <<clientVars, queue, job, at, own, of, located, started, owed, raced, quiet>>
      /\ acqState' \in [Dumps -> {"UNKNOWN", "ACQUIRING", "NOT_ACQUIRING"}]
      /\ thread' \in [Dumps -> {"loop", "notify", "clear", "gone"}]
      /\ halting' \subseteq Dumps
      /\ \A e \in Dumps \ {d} : thread'[e] = thread[e]
      /\ \/ UNCHANGED tcpdump /\ thread'[d] \in {thread[d], "notify", "gone"} /\ Alive(d)
         \/ UNCHANGED tcpdump /\ thread'[d] = "clear" /\ Alive(d) /\ tcpdump[s] # None
         \/ thread[d] = "clear" /\ thread'[d] = "gone" /\ tcpdump' = [tcpdump EXCEPT ![s] = None]
  BY DEF Records, Thread, Halts, Notify, Forget, GivesUp, Dies, Apart, Without, Alive, RecorderTypes,
     jobVars, historyVars
<1>2. CallInv'
  BY <1>1, CallsUntouched
<1>3. s \in Sensors /\ Alive(d) /\ \A e \in Dumps : Alive(e)' => Alive(e)
  BY <1>1 DEF RecorderTypes, Alive
<1>4. RecorderTypes' /\ StageInv'
  BY <1>1, <1>3 DEF RecorderTypes, StageInv, Alive
<1>5. \A v \in Workers : \A t : (Opens(v, t)' <=> Opens(v, t)) /\ (Closes(v, t)' <=> Closes(v, t))
  BY <1>1 DEF Opens, Closes
<1>6. ASSUME NEW t \in Sensors, Orderly(t), UNCHANGED tcpdump
      PROVE  Orderly(t)'
  <2>1. ASSUME NEW v \in Workers, Opens(v, t), NEW e \in Dumps, of[e] = t, Alive(e)'
        PROVE  at[v] = "assign" /\ e = own[v] /\ thread'[e] # "clear"
    <3>1. at[v] = "assign" /\ e = own[v] /\ thread[e] # "clear" /\ tcpdump[t] = None
      BY <1>3, <1>6, <2>1 DEF Orderly
    <3>2. CASE e = d
      BY <1>1, <2>1, <3>1, <3>2 DEF Alive
    <3>3. CASE e # d
      BY <1>1, <3>1, <3>3
    <3> QED
      BY <3>1, <3>2, <3>3
  <2>2. (\A v \in Workers : ~Opens(v, t)) => \A e \in Dumps : of[e] = t /\ Alive(e)' => e = tcpdump[t]
    BY <1>3, <1>6 DEF Orderly
  <2> QED
    BY <1>1, <1>5, <1>6, <2>1, <2>2 DEF Orderly
<1>7. ASSUME NEW t \in Sensors, Orderly(t), ~UNCHANGED tcpdump
      PROVE  Orderly(t)'
  <2>1. thread[d] = "clear" /\ thread'[d] = "gone" /\ tcpdump' = [tcpdump EXCEPT ![s] = None]
    BY <1>1, <1>7
  <2>2. tcpdump'[s] = None /\ \A u \in Sensors \ {s} : tcpdump'[u] = tcpdump[u]
    BY <1>3, <2>1 DEF RecorderTypes
  <2>3. CASE t # s
    <3>1. \A e \in Dumps : of[e] = t => thread'[e] = thread[e] /\ (Alive(e)' <=> Alive(e))
      BY <1>1, <2>3 DEF Alive
    <3>2. tcpdump'[t] = tcpdump[t]
      BY <2>2, <2>3
    <3> QED
      BY <1>1, <1>5, <1>7, <3>1, <3>2 DEF Orderly
  <2>4. CASE t = s
    <3>1. \A v \in Workers : ~Opens(v, t)
      BY <1>3, <1>7, <2>1, <2>4 DEF Orderly
    <3>2. \A e \in Dumps : of[e] = t /\ Alive(e) => e = d
      BY <1>3, <1>7, <2>4, <3>1 DEF Orderly
    <3>3. \A e \in Dumps : of[e] = t => ~Alive(e)'
      BY <1>3, <2>1, <3>2 DEF Alive
    <3>4. tcpdump'[t] = None
      BY <2>2, <2>4
    <3> QED
      BY <1>1, <1>5, <3>1, <3>3, <3>4 DEF Orderly
  <2> QED
    BY <2>3, <2>4
<1>8. RaceInv'
  BY <1>1, <1>6, <1>7 DEF RaceInv
<1>9. QuietInv'
  BY <1>1, <1>3, StartUnderWaySame DEF QuietInv
<1> QED
  BY <1>2, <1>4, <1>8, <1>9

LEMMA LocatesKeeps ==
  ASSUME GInv, Locates
  PROVE  GInv'
<1> USE DEF GInv, RecorderInv, Locates, jobVars, dumpVars, historyVars
<1>1. CallInv'
  BY CallsUntouched
<1>2. RecorderTypes' /\ StageInv'
  BY DEF RecorderTypes, StageInv, Alive
<1>3. RaceInv' /\ QuietInv'
  BY StartUnderWaySame DEF RaceInv, QuietInv, Orderly, Opens, Closes, Alive
<1> QED
  BY <1>1, <1>2, <1>3

LEMMA RestartKeeps ==
  ASSUME GInv, Restart
  PROVE  GInv'
<1> USE DEF GInv
<1>1. /\ UNCHANGED <<op, left, todo, known, of, acqState, started, owed, quiet>>
      /\ queue' = <<>> /\ halting' = {} /\ raced' = {} /\ located' = FALSE
      /\ job' = [w \in Workers |-> None] /\ at' = [w \in Workers |-> "idle"]
      /\ own' = [w \in Workers |-> None]
      /\ tcpdump' = [s \in Sensors |-> None] /\ thread' = [d \in Dumps |-> "gone"]
      /\ sent' \in [Clients -> Calls \cup {None}]
      /\ \A c \in Clients : sent'[c] = None \/ sent'[c] = sent[c]
  BY DEF Restart, CallInv, CallTypes
<1>2. queue' \in Seq(Calls) /\ DOMAIN queue' = {}
  BY <1>1
<1>3. CallInv'
  BY <1>1, <1>2 DEF CallInv, CallTypes, SentInv, OwedInv, PlaceInv, OnePerCaller, Queued
<1>4. RecorderTypes' /\ StageInv'
  BY <1>1 DEF RecorderInv, RecorderTypes, StageInv, Stages
<1>5. RaceInv'
  BY <1>1 DEF RaceInv, Orderly, Opens, Closes, Alive
<1>6. QuietInv'
  BY <1>1, <1>2 DEF QuietInv, Alive, StartUnderWay
<1> QED
  BY <1>3, <1>4, <1>5, <1>6 DEF RecorderInv

-----------------------------------------------------------------------------
(* The theorems.                                                           *)

LEMMA GInvariance == GSpec => []GInv
<1>1. ASSUME GInv, [GNext]_gvars
      PROVE  GInv'
  <2>1. ASSUME NEW c \in Clients,
               \/ \E o \in Operations : BeginAll(c, o)
               \/ \E o \in {"start", "stop"}, s \in Sensors : BeginOne(c, o, s)
        PROVE  GInv'
    BY <1>1, <2>1, BeginKeeps
  <2>2. ASSUME NEW c \in Clients, ClientStep(c)
        PROVE  GInv'
    BY <1>1, <2>2, VisitKeeps, AskKeeps, ReturnKeeps DEF ClientStep
  <2>3. ASSUME NEW c \in Clients, Expire(c) \/ OtherAnswers(c) \/ OtherFails(c)
        PROVE  GInv'
    BY <1>1, <2>3, ExpireKeeps, OtherAnswersKeeps, OtherFailsKeeps
  <2>4. ASSUME NEW w \in Workers, Worker(w)
        PROVE  GInv'
    BY <1>1, <2>4, TakeKeeps, StartTestKeeps, StartCreateKeeps, StartAssignKeeps, PollsKeep,
       StopTestKeeps, StopSetKeeps, StopJoinKeeps, StopClearKeeps DEF Worker
  <2>5. ASSUME NEW d \in Dumps, Records(d) \/ Thread(d) \/ GivesUp(d) \/ Dies(d)
        PROVE  GInv'
    BY <1>1, <2>5, ThreadKeeps
  <2>6. CASE Locates \/ Restart
    BY <1>1, <2>6, LocatesKeeps, RestartKeeps
  <2>7. CASE UNCHANGED gvars
    <3>1. CallInv'
      BY <1>1, <2>7, CallsUntouched DEF gvars, GInv, jobVars, historyVars
    <3>2. RecorderInv'
      BY <1>1, <2>7, StartUnderWaySame, RecordersUntouched DEF gvars, GInv, jobVars, historyVars
    <3> QED
      BY <3>1, <3>2 DEF GInv
  <2> QED
    BY <1>1, <2>1, <2>2, <2>3, <2>4, <2>5, <2>6, <2>7 DEF GNext
<1> QED
  BY <1>1, InitGInv, PTL DEF GSpec

\* Types, and the calls in flight: a queued call is the one its caller waits
\* for, and no caller has two, whichever handlers it gave up before.
THEOREM GatewayTypes == GSpec => []GTypeOK
<1>1. GInv => GTypeOK
  <2> SUFFICES ASSUME GInv
               PROVE  GTypeOK
    OBVIOUS
  <2>1. Calls \subseteq CallSet
    BY DEF Calls, SensorCalls, DeviceCalls, CallSet, Kinds
  <2>2. \A i, j \in DOMAIN queue : queue[i] = queue[j] => i = j
    BY DEF GInv, CallInv, PlaceInv, OnePerCaller
  <2> QED
    BY <2>1, <2>2 DEF GInv, GTypeOK, CallInv, CallTypes, RecorderInv, RecorderTypes, PlaceInv
<1> QED
  BY <1>1, GInvariance, PTL

\* An operation that stops all sensors has sent a stop, when it is done, to every
\* sensor that was started before it began and that is on a list of a device's
\* sensors that had been fetched by then, whichever devices answer now.
THEOREM StopReachesWhatWasStarted == GSpec => []StopCoversStarted
<1>1. GInv => StopCoversStarted
  BY DEF GInv, CallInv, OwedInv, StopCoversStarted, CallTypes
<1> QED
  BY <1>1, GInvariance, PTL

\* A sensor whose stop was answered NOT_ACQUIRING with no start under way has no
\* recorder until a start is sent for it, whichever calls were given up, queued
\* or polling before and however the steps of the handlers and of on_stopped
\* interleave, as long as no start of the sensor has found the attribute None
\* while another handler had it in its hand.
THEOREM AnsweredStopIsFinal == GSpec => []StopIsFinal
<1>1. GInv => StopIsFinal
  BY DEF GInv, RecorderInv, QuietInv, StopIsFinal, Alive
<1> QED
  BY <1>1, GInvariance, PTL
=============================================================================
