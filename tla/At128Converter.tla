--------------------------- MODULE At128Converter ---------------------------
(***************************************************************************)
(* At128Converter: the callback that keeps the last frame of the lidar,    *)
(* and snapshot_pcd, which the renderer's thread calls through             *)
(* AT128PcdConv.pcd to read its points.                                    *)
(*                                                                         *)
(* Both hold _frame_mutex.  But the callback assigns frames, and a frame   *)
(* is its pointers: from the first callback on, _frame.points is the       *)
(* array the parser writes to, and the mutex is all that keeps Run from    *)
(* going on to a third frame while a snapshot is read.                     *)
(*                                                                         *)
(* snapshot_pcd, start and stop run with the interpreter's lock held: no   *)
(* snapshot is read while main joins, and main does not go on while one is.*)
(***************************************************************************)
EXTENDS HesaiLidar, SequencesExt

CONSTANT MaxSnapshots              \* bound: snapshots taken

ASSUME At128ConverterConstants == MaxSnapshots \in Nat

VARIABLES _frame,       \* [packets, given, clean]: points_num in packets, the points the
                        \* callback was given and those passed over since, and whether all
                        \* was as it should be since
          snapPc,       \* "idle", or "reading": snapshot_pcd holds the mutex
          snapshot,     \* the packets read
          snapshots     \* snapshots taken

converterVars == <<_frame, snapPc, snapshot, snapshots>>
allVars == <<lidarVars, converterVars>>

\* What lies behind the array, and in its place after ~Lidar deleted it.
Junk == -1

\* The point at an index of the shared array; 0, never written, is skipped by snapshot_pcd.
PointAt(i) == IF mainPc = "done" \/ i >= kMaxPacketNumPerFrame THEN Junk ELSE frame_.points[i]

ConverterInit ==
  /\ LidarInit
  /\ _frame = [packets |-> 0, given |-> {}, clean |-> FALSE]
  /\ snapPc = "idle" /\ snapshot = <<>> /\ snapshots = 0

\* No packet of frame_ was lost on the parser, late, early, or without points.
Untouched == ~rough /\ \A i \in DOMAIN handed : handed[i] # 0

Copy(clean) == [packets |-> frame_.packets, clean |-> clean,
                given |-> IF clean THEN {PointAt(i) : i \in 0 .. frame_.packets - 1} ELSE {}]

Spoil(doIt) == _frame' = IF doIt THEN [_frame EXCEPT !.clean = FALSE, !.given = {}] ELSE _frame

\* A frame of too few points is passed over; its points stay in the array.
PassOver(clean) ==
  _frame' = IF clean /\ _frame.clean THEN [_frame EXCEPT !.given = @ \union ToSet(handed)]
            ELSE [_frame EXCEPT !.clean = FALSE, !.given = {}]

\* Mutant: the callback does not take the mutex.
CallbackUnlocked ==
  IF frame_.packets > kMinPackets THEN _frame' = Copy(Untouched /\ ~rough') ELSE PassOver(Untouched /\ ~rough')

\* The callback; Run calls it for a frame with enough points, and waits for the mutex.
Callback ==
  IF frame_.packets > kMinPackets
  THEN snapPc # "reading" /\ _frame' = Copy(Untouched /\ ~rough')
  ELSE PassOver(Untouched /\ ~rough')

PublishAndCall == RunPublishes /\ Callback /\ UNCHANGED <<snapPc, snapshot, snapshots>>

\* The lidar's other steps.  main waits for the interpreter's lock.
RunGoesOn == \/ RunBegins \/ RunStops \/ RunTakes \/ RunWaits \/ RunStores \/ RunResets
MainGoesOn == snapPc = "idle" /\ (StartRun \/ StopRun \/ Joining)

LidarGoesOn ==
  /\ Receiving \/ DatagramLost \/ RunGoesOn \/ Parsing \/ MainGoesOn
  /\ Spoil(rough')
  /\ UNCHANGED <<snapPc, snapshot, snapshots>>

-----------------------------------------------------------------------------
\* snapshot_pcd (of no points: a stuttering step)

BeginSnapshot ==
  /\ snapPc = "idle" /\ mainPc \in {"idle", "running", "done"}
  /\ snapshots < MaxSnapshots /\ _frame.packets > 0
  /\ snapPc' = "reading" /\ snapshot' = <<>> /\ snapshots' = snapshots + 1
  /\ UNCHANGED <<lidarVars, _frame>>

ReadPoints ==
  /\ snapPc = "reading" /\ Len(snapshot) < _frame.packets
  /\ snapshot' = Append(snapshot, PointAt(Len(snapshot)))
  /\ UNCHANGED <<lidarVars, _frame, snapPc, snapshots>>

EndSnapshot ==
  /\ snapPc = "reading" /\ Len(snapshot) = _frame.packets
  /\ snapPc' = "idle" /\ snapshot' = <<>>
  /\ UNCHANGED <<lidarVars, _frame, snapshots>>

Reading == ReadPoints \/ EndSnapshot

ConverterNext == LidarGoesOn \/ PublishAndCall \/ BeginSnapshot \/ Reading

\* The scheduler runs every thread.
ConverterSpec ==
  /\ ConverterInit /\ [][ConverterNext]_allVars
  /\ WF_allVars(Receiving /\ LidarGoesOn) /\ WF_allVars(Parsing /\ LidarGoesOn)
  /\ WF_allVars((RunGoesOn /\ LidarGoesOn) \/ PublishAndCall)
  /\ WF_allVars(Joining /\ LidarGoesOn) /\ WF_allVars(Reading)

-----------------------------------------------------------------------------
\* Properties

\* Although the array is shared, a snapshot has only points of the frame the callback was
\* given, of frames of too few points that Run passed over since, and of the one that it now
\* fills: another frame cannot be given before the mutex is released.  Not so once the parser
\* was late for a frame or a packet had no points, or after stop.
TornOnceAtMost ==
  snapPc = "reading" /\ mainPc # "done" /\ _frame.clean =>
    ToSet(snapshot) \ {0} \subseteq _frame.given \union ToSet(handed)
=============================================================================
