------------------------------ MODULE Thumbnail ------------------------------
(***************************************************************************)
(* The gateway's thumbnail logger (core/ThumbnailLogger.py): the thread    *)
(* ThumbnailLogger appends one frame of sensor snapshots after another to  *)
(* an HDF5 file, and the thread StorageManager chooses the disk the file   *)
(* is on.  The manager's callbacks close the file and open another one     *)
(* under the logger, through the attribute _thumbnail_file and without a   *)
(* lock; at shutdown the logger closes the file as well.                   *)
(*                                                                         *)
(* A step is one read or write of the attribute, one call of h5py or of    *)
(* the operating system.                                                   *)
(***************************************************************************)
EXTENDS Naturals, Sequences

CONSTANTS
  Disks,        \* the sub-directories of the mount point
  NoDisk,       \* the empty path
  Files,        \* h5py.File objects; one nobody refers to is reused
  NoFile,       \* Python's None
  Sensors,      \* what the devices have snapshots of
  MaxFrames,    \* bound on the frames begun
  Faults        \* what may go wrong outside the program

LoggerFaults ==
  { "mount",   \* the mount point is no directory when the manager starts
    "gone",    \* a disk is removed
    "open",    \* h5py cannot create a file
    "write" }  \* h5py cannot write a row

ASSUME ThumbnailAssumption ==
  /\ NoDisk \notin Disks
  /\ NoFile \notin Files
  /\ MaxFrames \in Nat
  /\ Faults \subseteq LoggerFaults

VARIABLES
  space,        \* space[k]: "enough", "low" or "gone"
  file,         \* ThumbnailLogger._thumbnail_file
  open,         \* the files that are open
  where,        \* the disk the file _thumbnail_file refers to was created on
  content,      \* content[f][x]: the rows of f's dataset x, each the frame it is
                \* from, while anybody refers to f
  stopping,     \* ThumbnailLogger._stop_loop is set
  logger,       \* where the logger is in ThumbnailLogger.run
  writing,      \* the argument of _process_frame: the file of this frame
  frame,        \* the number of frames begun
  row,          \* the local variable new_size
  pending,      \* the rows of this frame that are still to be written
  managerStop,  \* StorageManager._stop_loop is set
  manager,      \* where the manager is in StorageManager.run
  disks,        \* the disks it found when it started
  current,      \* its local variable current_storage
  selected      \* its local variable selected_storage

fileVars == <<file, open, where, content>>
frameVars == <<writing, frame, row, pending>>
choiceVars == <<disks, current, selected>>
tvars == <<space, fileVars, stopping, logger, frameVars, managerStop, manager, choiceVars>>

LoggerLabels == {"begin", "loop", "take", "stamp", "fetch", "write",
                 "test", "close", "clear", "stopManager", "join", "ended", "died"}
ManagerLabels == {"none", "list", "loop", "changeTest", "changeClose", "changeClear",
                  "create", "errorTest", "errorClose", "errorClear", "ended", "died"}

Times == <<"/", "timestamps">>
DataSets == {Times} \cup (Sensors \X {"type", "data"})
NoRows == [x \in DataSets |-> <<>>]
Blank == 0   \* a row that was added and not assigned

\* The rows of the files that somebody refers to.
Kept(referred) == [f \in Files |-> IF f \in referred THEN content[f] ELSE NoRows]

\* An h5py.File is true while it is open.
Truthy(f) == f # NoFile /\ f \in open

TInit ==
  /\ space \in [Disks -> {"enough", "low"}]
  /\ file = NoFile /\ open = {}
  /\ where = NoDisk
  /\ content = [f \in Files |-> NoRows]
  /\ stopping = FALSE /\ managerStop = FALSE
  /\ logger = "begin" /\ writing = NoFile /\ frame = 0 /\ row = 0 /\ pending = {}
  /\ manager = "none" /\ disks = {} /\ current = NoDisk /\ selected = NoDisk

LoggerGoes(from, to) == logger = from /\ logger' = to /\ UNCHANGED manager
ManagerGoes(from, to) == manager = from /\ manager' = to /\ UNCHANGED logger

-----------------------------------------------------------------------------
(* stop_logging: three steps, of either thread.                            *)

TestFile == UNCHANGED fileVars

\* The attribute is read again.  The other thread's stop_logging may have made
\* it None, which has no close(): the AttributeError ends the thread.
CloseFile ==
  /\ file # NoFile
  /\ open' = open \ {file}
  /\ UNCHANGED <<file, where, content>>

CloseRaises == file = NoFile /\ UNCHANGED fileVars

\* Mutant: the attribute keeps the closed file.
ClearForgotten == UNCHANGED fileVars

\* A file that nobody refers to any more is closed with it.
ClearFile ==
  /\ file' = NoFile /\ where' = NoDisk
  /\ open' = open \cap {writing}
  /\ content' = Kept({writing})

-----------------------------------------------------------------------------
(* ThumbnailLogger.run                                                     *)

Begin ==
  /\ logger = "begin" /\ logger' = "loop"
  /\ manager' = "list"
  /\ UNCHANGED <<space, fileVars, stopping, frameVars, managerStop, choiceVars>>

\* Without a file the loop sleeps and comes back: no step.
FrameBegins ==
  /\ ~stopping /\ Truthy(file) /\ frame < MaxFrames
  /\ LoggerGoes("loop", "take")
  /\ frame' = frame + 1
  /\ UNCHANGED <<space, fileVars, stopping, writing, row, pending, managerStop, choiceVars>>

\* The attribute is read again, for the argument of _process_frame.
TakeFile ==
  /\ LoggerGoes("take", "stamp")
  /\ writing' = file
  /\ UNCHANGED <<space, fileVars, stopping, frame, row, pending, managerStop, choiceVars>>

\* resize((size,)), and the assignment of the last row.
Resized(rows, size) == [i \in 1..size |-> IF i <= Len(rows) THEN rows[i] ELSE Blank]
Assigned(rows, size) == [Resized(rows, size) EXCEPT ![size] = frame]

WriteRow(x, size) ==
  /\ content' = [content EXCEPT ![writing][x] = Assigned(@, size)]
  /\ UNCHANGED <<file, open, where>>

\* Writing a closed file, or None, changes nothing; a write error may come
\* before or after the row was added.
RowRaises(x, size) ==
  /\ \/ ~Truthy(writing) /\ UNCHANGED content
     \/ /\ "write" \in Faults /\ Truthy(writing)
        /\ content' \in {content, [content EXCEPT ![writing][x] = Resized(@, size)]}
  /\ UNCHANGED <<file, open, where>>

NextRow == Len(content[writing][Times]) + 1

\* Mutant: new_size is not computed again for every frame.
StampStale ==
  /\ Truthy(writing)
  /\ LoggerGoes("stamp", "fetch")
  /\ row' = row + 1
  /\ WriteRow(Times, NextRow)
  /\ UNCHANGED <<space, stopping, writing, frame, pending, managerStop, choiceVars>>

Stamp ==
  /\ Truthy(writing)
  /\ LoggerGoes("stamp", "fetch")
  /\ row' = NextRow
  /\ WriteRow(Times, NextRow)
  /\ UNCHANGED <<space, stopping, writing, frame, pending, managerStop, choiceVars>>

\* The frame is given up: nothing is pending.
StampRaises ==
  /\ LoggerGoes("stamp", "write")
  /\ RowRaises(Times, NextRow)
  /\ UNCHANGED <<space, stopping, frameVars, managerStop, choiceVars>>

\* A device that does not answer is left out of the frame.
Fetch ==
  /\ LoggerGoes("fetch", "write")
  /\ \E answered \in SUBSET Sensors : pending' = answered \X {"type", "data"}
  /\ UNCHANGED <<space, fileVars, stopping, writing, frame, row, managerStop, choiceVars>>

\* One sensor after another, its type before its data.
Half(s) == <<s, "data">> \in pending /\ <<s, "type">> \notin pending
Due(x) == x \in pending /\ (IF x[2] = "data" THEN Half(x[1]) ELSE ~\E s \in Sensors : Half(s))

Write ==
  /\ Truthy(writing)
  /\ LoggerGoes("write", "write")
  /\ \E x \in pending : Due(x) /\ WriteRow(x, row) /\ pending' = pending \ {x}
  /\ UNCHANGED <<space, stopping, writing, frame, row, managerStop, choiceVars>>

\* A sensor whose type cannot be written is skipped.
WriteRaises ==
  /\ LoggerGoes("write", "write")
  /\ \E x \in pending : Due(x) /\ RowRaises(x, row) /\ pending' = pending \ {x, <<x[1], "data">>}
  /\ UNCHANGED <<space, stopping, writing, frame, row, managerStop, choiceVars>>

FrameEnds ==
  /\ pending = {}
  /\ LoggerGoes("write", "loop")
  /\ writing' = NoFile /\ row' = 0
  /\ open' = open \cap {file}
  /\ content' = Kept({file})
  /\ UNCHANGED <<space, file, where, stopping, frame, pending, managerStop, choiceVars>>

LoggerStops ==
  /\ stopping
  /\ LoggerGoes("loop", "test")
  /\ UNCHANGED <<space, fileVars, stopping, frameVars, managerStop, choiceVars>>

LoggerStopsLogging ==
  /\ \/ LoggerGoes("test", IF Truthy(file) THEN "close" ELSE "stopManager") /\ TestFile
     \/ LoggerGoes("close", "clear") /\ CloseFile
     \/ LoggerGoes("close", "died") /\ CloseRaises
     \/ LoggerGoes("clear", "stopManager") /\ ClearFile
  /\ UNCHANGED <<space, stopping, frameVars, managerStop, choiceVars>>

\* Mutant: the manager is joined without being told.
JoinWithoutStop ==
  /\ LoggerGoes("stopManager", "join")
  /\ UNCHANGED <<space, fileVars, stopping, frameVars, managerStop, choiceVars>>

\* StorageManager.stop: set the event and join.
StopManager ==
  /\ LoggerGoes("stopManager", "join")
  /\ managerStop' = TRUE
  /\ UNCHANGED <<space, fileVars, stopping, frameVars, choiceVars>>

JoinManager ==
  /\ manager \in {"ended", "died"}
  /\ LoggerGoes("join", "ended")
  /\ UNCHANGED <<space, fileVars, stopping, frameVars, managerStop, choiceVars>>

LoggerStep ==
  \/ Begin \/ FrameBegins \/ TakeFile \/ Stamp \/ StampRaises \/ Fetch
  \/ Write \/ WriteRaises \/ FrameEnds
  \/ LoggerStops \/ LoggerStopsLogging \/ StopManager \/ JoinManager

-----------------------------------------------------------------------------
(* StorageManager.run                                                      *)

\* The disks are listed once.
ListOnce ==
  /\ ManagerGoes("list", "loop")
  /\ disks' = {k \in Disks : space[k] # "gone"}
  /\ UNCHANGED <<space, fileVars, stopping, frameVars, managerStop, current, selected>>

ListOnceRaises ==
  /\ "mount" \in Faults
  /\ ManagerGoes("list", "errorTest")
  /\ UNCHANGED <<space, fileVars, stopping, frameVars, managerStop, choiceVars>>

ManagerEnds ==
  /\ managerStop
  /\ ManagerGoes("loop", "ended")
  /\ UNCHANGED <<space, fileVars, stopping, frameVars, managerStop, choiceVars>>

Measurable == \A k \in disks : space[k] # "gone"
HaveSpace == {k \in disks : space[k] = "enough"}

\* _select_storage: the current disk while it has space, else the one with the
\* most, else StorageError; with no disk at all the empty path.
Selection ==
  IF current \in HaveSpace THEN {current}
  ELSE IF disks = {} THEN {NoDisk}
  ELSE HaveSpace

Selects(k) ==
  /\ ~managerStop /\ Measurable
  /\ k \in Selection
  /\ ManagerGoes("loop", IF k = current THEN "loop" ELSE "changeTest")
  /\ selected' = k
  /\ UNCHANGED <<space, fileVars, stopping, frameVars, managerStop, disks, current>>

\* No disk has space: the manager closes the file and ends.
SelectionRaises ==
  /\ ~managerStop /\ Measurable
  /\ Selection = {}
  /\ ManagerGoes("loop", "errorTest")
  /\ UNCHANGED <<space, fileVars, stopping, frameVars, managerStop, choiceVars>>

\* shutil.disk_usage raises OSError, which nothing catches.
MeasuringRaises ==
  /\ ~managerStop /\ ~Measurable
  /\ ManagerGoes("loop", "died")
  /\ UNCHANGED <<space, fileVars, stopping, frameVars, managerStop, choiceVars>>

\* Mutant: on_storage_change keeps the old file until the new one is open.
ChangeKeepsFile ==
  /\ ManagerGoes("changeTest", "create") /\ TestFile
  /\ UNCHANGED <<space, stopping, frameVars, managerStop, choiceVars>>

ChangeStopsLogging ==
  /\ \/ ManagerGoes("changeTest", IF Truthy(file) THEN "changeClose" ELSE "create") /\ TestFile
     \/ ManagerGoes("changeClose", "changeClear") /\ CloseFile
     \/ ManagerGoes("changeClose", "died") /\ CloseRaises
     \/ ManagerGoes("changeClear", "create") /\ ClearFile
  /\ UNCHANGED <<space, stopping, frameVars, managerStop, choiceVars>>

\* Mutant: on_storage_error does not stop the logging.
ErrorKeepsFile ==
  /\ ManagerGoes("errorTest", "ended") /\ TestFile
  /\ UNCHANGED <<space, stopping, frameVars, managerStop, choiceVars>>

ErrorStopsLogging ==
  /\ \/ ManagerGoes("errorTest", IF Truthy(file) THEN "errorClose" ELSE "ended") /\ TestFile
     \/ ManagerGoes("errorClose", "errorClear") /\ CloseFile
     \/ ManagerGoes("errorClose", "died") /\ CloseRaises
     \/ ManagerGoes("errorClear", "ended") /\ ClearFile
  /\ UNCHANGED <<space, stopping, frameVars, managerStop, choiceVars>>

\* start_logging; the change counts once the file is open.
Create ==
  /\ ManagerGoes("create", "loop")
  /\ space[selected] # "gone"
  /\ \E f \in Files \ ({file, writing} \cup open) :
       /\ file' = f
       /\ open' = (open \cap {writing}) \cup {f}
       /\ where' = selected
       /\ content' = Kept({writing})
  /\ current' = selected
  /\ UNCHANGED <<space, stopping, frameVars, managerStop, disks, selected>>

\* Mutant: a change that failed counts as made.
ChangeAlwaysCounts ==
  /\ ManagerGoes("create", "loop")
  /\ "open" \in Faults \/ space[selected] = "gone"
  /\ current' = selected
  /\ UNCHANGED <<space, fileVars, stopping, frameVars, managerStop, disks, selected>>

CreateRaises ==
  /\ ManagerGoes("create", "loop")
  /\ "open" \in Faults \/ space[selected] = "gone"
  /\ UNCHANGED <<space, fileVars, stopping, frameVars, managerStop, choiceVars>>

ManagerStep ==
  \/ ListOnce \/ ListOnceRaises \/ ManagerEnds
  \/ \E k \in Disks \cup {NoDisk} : Selects(k)
  \/ SelectionRaises \/ MeasuringRaises
  \/ ChangeStopsLogging \/ ErrorStopsLogging \/ Create \/ CreateRaises
-----------------------------------------------------------------------------
(* The disks, and ThumbnailLogger.stop.                                    *)

SpaceChanges ==
  /\ \E k \in Disks :
       \/ space[k] = "enough" /\ space' = [space EXCEPT ![k] = "low"]
       \/ space[k] = "low" /\ space' = [space EXCEPT ![k] = "enough"]
       \/ "gone" \in Faults /\ space[k] # "gone" /\ space' = [space EXCEPT ![k] = "gone"]
  /\ UNCHANGED <<fileVars, stopping, logger, frameVars, managerStop, manager, choiceVars>>

Stop ==
  /\ ~stopping
  /\ stopping' = TRUE
  /\ UNCHANGED <<space, fileVars, logger, frameVars, managerStop, manager, choiceVars>>

TNext == LoggerStep \/ ManagerStep \/ SpaceChanges \/ Stop

TSpec == TInit /\ [][TNext]_tvars

\* Both threads are scheduled, and get_all_sensor_snapshot returns.
TFairness == WF_tvars(LoggerStep) /\ WF_tvars(ManagerStep)

TFairSpec == TSpec /\ TFairness

-----------------------------------------------------------------------------
(* Properties.                                                             *)

\* What a reader of the file relies on: whichever writes failed, and whenever
\* the file was closed under the logger, a sample stands in the row of the
\* time stamp of its frame, and no dataset is longer than the time stamps.
RowsAligned ==
  \A f \in Files, x \in DataSets :
    /\ Len(content[f][x]) <= Len(content[f][Times])
    /\ \A i \in 1..Len(content[f][x]) :
         content[f][x][i] \in {Blank, content[f][Times][i]}

\* Before the shutdown, whenever the manager is between two rounds, the logger
\* has an open file on the current storage or none: never a closed one, nor
\* one on a disk that was left, also after a change that failed.
LogsWhereChosen ==
  manager = "loop" /\ ~stopping /\ file # NoFile => file \in open /\ where = current

\* A StorageError ends the logging with the manager.
NoSpaceNoLog == manager = "ended" /\ ~stopping => file = NoFile

\* A disk that stays too full loses the log file, also if no other disk lets a
\* file be created, unless an OSError has ended the manager.
LogLeavesFullDisk ==
  \A k \in Disks :
    <>[](space[k] = "low" /\ manager # "died" /\ ~stopping)
      => <>[](where # k)

\* With space on a disk, the manager opens a first file or tries again and again.
LoggingStarts ==
  <>[](HaveSpace # {} /\ manager \notin {"ended", "died"} /\ ~stopping)
    => <>Truthy(file) \/ []<>(manager = "create")

\* ThumbnailLogger.stop returns: its thread joins the manager's, which may be
\* inside a callback of the logger.
ThumbnailStops == stopping ~> logger \in {"ended", "died"}
=============================================================================
