-------------------------- MODULE Thumbnail_proofs --------------------------
(***************************************************************************)
(* For any number of disks, files, sensors and frames and any faults: the  *)
(* rows of a log file belong together, and before the shutdown the log is  *)
(* where the manager has chosen it to be.                                  *)
(***************************************************************************)
EXTENDS Thumbnail, SequenceTheorems, TLAPS

-----------------------------------------------------------------------------
(* Before the shutdown the manager alone opens and closes: the file is open *)
(* and on the current disk but for the manager's own change of it.         *)

OpenOrNone == file # NoFile => file \in open

FileOfManager ==
  /\ manager \in {"loop", "changeTest"} => OpenOrNone /\ (file # NoFile => where = current)
  /\ manager = "errorTest" => OpenOrNone
  /\ manager \in {"changeClose", "errorClose"} => file # NoFile
  /\ manager \in {"none", "list", "create", "ended"} => file = NoFile

Undisturbed ==
  ~stopping =>
    /\ logger \in {"begin", "loop", "take", "stamp", "fetch", "write"}
    /\ (logger = "begin") <=> (manager = "none")
    /\ ~managerStop
    /\ FileOfManager

LEMMA InitUndisturbed == TInit => Undisturbed
  BY DEF TInit, Undisturbed, FileOfManager

LEMMA LoggerUndisturbed ==
  ASSUME Undisturbed, LoggerStep
  PROVE  Undisturbed'
<1> USE ThumbnailAssumption
        DEF Undisturbed, FileOfManager, OpenOrNone, LoggerGoes, fileVars, choiceVars, frameVars
<1>1. CASE Begin
  BY <1>1 DEF Begin
<1>2. CASE FrameBegins \/ TakeFile \/ Fetch
  BY <1>2 DEF FrameBegins, TakeFile, Fetch
<1>3. CASE Stamp \/ StampRaises
  BY <1>3 DEF Stamp, StampRaises, WriteRow, RowRaises
<1>4. CASE Write \/ WriteRaises
  BY <1>4 DEF Write, WriteRaises, WriteRow, RowRaises
<1>5. CASE FrameEnds
  BY <1>5 DEF FrameEnds
<1>6. CASE LoggerStops \/ LoggerStopsLogging \/ StopManager \/ JoinManager
  <2>1. stopping /\ stopping' = stopping
    BY <1>6 DEF LoggerStops, LoggerStopsLogging, StopManager, JoinManager
  <2> QED
    BY <2>1
<1> QED
  BY <1>1, <1>2, <1>3, <1>4, <1>5, <1>6 DEF LoggerStep

LEMMA ManagerUndisturbed ==
  ASSUME Undisturbed, ManagerStep
  PROVE  Undisturbed'
<1> USE ThumbnailAssumption
        DEF Undisturbed, FileOfManager, OpenOrNone, ManagerGoes, fileVars, choiceVars, frameVars
<1>1. CASE ListOnce \/ ListOnceRaises \/ ManagerEnds
  BY <1>1 DEF ListOnce, ListOnceRaises, ManagerEnds
<1>2. CASE \E k \in Disks \cup {NoDisk} : Selects(k)
  BY <1>2 DEF Selects
<1>3. CASE SelectionRaises \/ MeasuringRaises
  BY <1>3 DEF SelectionRaises, MeasuringRaises
<1>4. CASE ChangeStopsLogging
  BY <1>4 DEF ChangeStopsLogging, TestFile, CloseFile, CloseRaises, ClearFile, Truthy
<1>5. CASE ErrorStopsLogging
  BY <1>5 DEF ErrorStopsLogging, TestFile, CloseFile, CloseRaises, ClearFile, Truthy
<1>6. CASE Create
  BY <1>6 DEF Create
<1>7. CASE CreateRaises
  BY <1>7 DEF CreateRaises
<1> QED
  BY <1>1, <1>2, <1>3, <1>4, <1>5, <1>6, <1>7 DEF ManagerStep

LEMMA NextUndisturbed == Undisturbed /\ [TNext]_tvars => Undisturbed'
<1> SUFFICES ASSUME Undisturbed, [TNext]_tvars
             PROVE  Undisturbed'
  OBVIOUS
<1>1. CASE SpaceChanges \/ Stop \/ UNCHANGED tvars
  BY <1>1 DEF SpaceChanges, Stop, tvars, fileVars, frameVars, choiceVars,
              Undisturbed, FileOfManager, OpenOrNone
<1> QED
  BY <1>1, LoggerUndisturbed, ManagerUndisturbed DEF TNext

\* Before the shutdown, whenever the manager is between two rounds, the log file is open and
\* on the disk it has chosen last, or there is none, also after a change that failed
\* (on_storage_change and on_storage_error, ThumbnailLogger.py:124-144).
THEOREM LogIsWhereChosen == TSpec => []LogsWhereChosen
<1>1. Undisturbed => LogsWhereChosen
  BY DEF Undisturbed, FileOfManager, OpenOrNone, LogsWhereChosen
<1> QED
  BY <1>1, InitUndisturbed, NextUndisturbed, PTL DEF TSpec

\* Once the manager has ended for want of space nothing is logged any more.
THEOREM LoggingEndsWithoutSpace == TSpec => []NoSpaceNoLog
<1>1. Undisturbed => NoSpaceNoLog
  BY DEF Undisturbed, FileOfManager, NoSpaceNoLog
<1> QED
  BY <1>1, InitUndisturbed, NextUndisturbed, PTL DEF TSpec

-----------------------------------------------------------------------------
(* The rows: those of a frame are all written at the place of its time     *)
(* stamp, also when the file is closed meanwhile, since the logger keeps   *)
(* the file object and the number of the row.                              *)

Stamped == logger = "fetch" \/ (logger = "write" /\ pending # {})

RowTypes ==
  /\ file \in Files \cup {NoFile} /\ writing \in Files \cup {NoFile}
  /\ frame \in Nat
  /\ content \in [Files -> [DataSets -> Seq(Nat)]]
  /\ pending \subseteq DataSets \ {Times}
  /\ logger \in LoggerLabels
  /\ logger \notin {"fetch", "write"} => pending = {}

RowOfFrame ==
  Stamped => /\ writing \in Files
             /\ row = Len(content[writing][Times]) /\ row # 0
             /\ content[writing][Times][row] = frame

\* The rows of dataset x stand at their time stamps.
Aligned(rows, times) ==
  Len(rows) <= Len(times) /\ \A i \in 1 .. Len(rows) : rows[i] \in {Blank, times[i]}

Rows == RowTypes /\ RowOfFrame /\ RowsAligned

LEMMA TimesIsADataSet == Times \in DataSets
  BY DEF DataSets

LEMMA ResizedRows ==
  ASSUME NEW rows \in Seq(Nat), NEW n \in Nat \ {0}, frame \in Nat
  PROVE  /\ Resized(rows, n) \in Seq(Nat) /\ Len(Resized(rows, n)) = n
         /\ Assigned(rows, n) \in Seq(Nat) /\ Len(Assigned(rows, n)) = n
         /\ \A i \in 1 .. n : Resized(rows, n)[i] = IF i <= Len(rows) THEN rows[i] ELSE Blank
         /\ \A i \in 1 .. n : Assigned(rows, n)[i] = IF i = n THEN frame ELSE Resized(rows, n)[i]
<1> DEFINE r == Resized(rows, n)
           a == Assigned(rows, n)
<1>1. rows \in [1 .. Len(rows) -> Nat] /\ Len(rows) \in Nat
  BY LenProperties
<1>2. /\ r \in [1 .. n -> Nat]
      /\ \A i \in 1 .. n : r[i] = IF i <= Len(rows) THEN rows[i] ELSE Blank
  BY <1>1 DEF Resized, Blank
<1>3. /\ a \in [1 .. n -> Nat]
      /\ \A i \in 1 .. n : a[i] = IF i = n THEN frame ELSE r[i]
  BY <1>2 DEF Assigned
<1>4. r \in Seq(Nat) /\ a \in Seq(Nat)
  BY <1>2, <1>3, SeqDef
<1> HIDE DEF r, a
<1>5. Len(r) = n /\ Len(a) = n
  <2>1. Len(r) \in Nat /\ 1 .. Len(r) = 1 .. n /\ Len(a) \in Nat /\ 1 .. Len(a) = 1 .. n
    BY <1>2, <1>3, <1>4, LenProperties
  <2>2. \A m, k \in Nat : 1 .. m = 1 .. k => m = k
    BY SMT
  <2> QED
    BY <2>1, <2>2
<1> QED
  BY <1>2, <1>3, <1>4, <1>5 DEF r, a

LEMMA InitRows == TInit => Rows
<1> SUFFICES ASSUME TInit
             PROVE  Rows
  OBVIOUS
<1> USE DEF TInit
<1>1. NoRows \in [DataSets -> Seq(Nat)] /\ \A x \in DataSets : NoRows[x] = <<>>
  BY EmptySeq DEF NoRows
<1>2. RowTypes
  BY <1>1 DEF RowTypes, LoggerLabels
<1>3. RowOfFrame
  BY DEF RowOfFrame, Stamped
<1>4. RowsAligned
  BY <1>1, TimesIsADataSet DEF RowsAligned
<1> QED
  BY <1>2, <1>3, <1>4 DEF Rows

\* A step that writes no row may forget the files nobody refers to.
LEMMA RowsKept ==
  ASSUME Rows, NEW referred, content' = content \/ content' = Kept(referred),
         file' \in Files \cup {NoFile}, writing' \in Files \cup {NoFile}, frame' \in Nat,
         logger' \in LoggerLabels, pending' \subseteq DataSets \ {Times},
         logger' \notin {"fetch", "write"} => pending' = {},
         Stamped' => /\ Stamped /\ UNCHANGED <<writing, row, frame>>
                     /\ content' = content \/ writing \in referred
  PROVE  Rows'
<1> USE DEF Rows
<1>1. NoRows \in [DataSets -> Seq(Nat)] /\ (\A x \in DataSets : NoRows[x] = <<>>) /\ Len(<<>>) = 0
  BY EmptySeq DEF NoRows
<1>2. \A f \in Files : content'[f] = content[f] \/ content'[f] = NoRows
  BY DEF Kept
<1>3. RowTypes'
  BY <1>1 DEF RowTypes, Kept
<1>4. RowOfFrame'
  BY DEF RowOfFrame, Kept
<1>5. RowsAligned'
  BY <1>1, <1>2, TimesIsADataSet DEF RowsAligned
<1> QED
  BY <1>3, <1>4, <1>5

\* What one row more of a dataset of the logger's file leaves.
LEMMA RowAdded ==
  ASSUME Rows, NEW x \in DataSets, NEW v \in Seq(Nat), writing \in Files,
         content' = [content EXCEPT ![writing][x] = v],
         UNCHANGED file, writing' \in Files, frame' \in Nat, logger' \in LoggerLabels,
         pending' \subseteq DataSets \ {Times}, logger' \notin {"fetch", "write"} => pending' = {}
  PROVE  /\ RowTypes'
         /\ content'[writing][x] = v
         /\ \A f \in Files, y \in DataSets : f # writing \/ y # x => content'[f][y] = content[f][y]
<1>1. /\ content'[writing][x] = v
      /\ \A f \in Files, y \in DataSets : f # writing \/ y # x => content'[f][y] = content[f][y]
  BY DEF Rows, RowTypes
<1>2. RowTypes'
  BY DEF Rows, RowTypes
<1> QED
  BY <1>1, <1>2

\* A new row of time stamps, assigned or not.
LEMMA TimesAdded ==
  ASSUME Rows, writing \in Files,
         NEW v \in {Resized(content[writing][Times], NextRow), Assigned(content[writing][Times], NextRow)},
         content' = [content EXCEPT ![writing][Times] = v],
         UNCHANGED <<file, writing, frame, pending>>, pending = {}, logger' \in LoggerLabels
  PROVE  RowTypes' /\ RowsAligned'
<1> DEFINE times == content[writing][Times]
<1>1. /\ times \in Seq(Nat) /\ frame \in Nat /\ Len(times) \in Nat
      /\ NextRow = Len(times) + 1 /\ NextRow \in Nat \ {0}
  BY TimesIsADataSet, LenProperties DEF Rows, RowTypes, NextRow
<1>2. /\ v \in Seq(Nat) /\ Len(v) = Len(times) + 1
      /\ \A i \in 1 .. Len(times) : v[i] = times[i]
  <2> DEFINE n == NextRow
  <2>1. n \in Nat \ {0} /\ n = Len(times) + 1 /\ Len(times) \in Nat
    BY <1>1
  <2> HIDE DEF n
  <2>2. /\ Resized(times, n) \in Seq(Nat) /\ Len(Resized(times, n)) = n
        /\ Assigned(times, n) \in Seq(Nat) /\ Len(Assigned(times, n)) = n
        /\ \A i \in 1 .. n : Resized(times, n)[i] = IF i <= Len(times) THEN times[i] ELSE Blank
        /\ \A i \in 1 .. n : Assigned(times, n)[i] = IF i = n THEN frame ELSE Resized(times, n)[i]
    BY <1>1, <2>1, ResizedRows
  <2>3. v = Resized(times, n) \/ v = Assigned(times, n)
    BY DEF n
  <2>4. \A i \in 1 .. Len(times) : i \in 1 .. n /\ i # n /\ i <= Len(times)
    BY <2>1
  <2> QED
    BY <2>1, <2>2, <2>3, <2>4
<1>3. /\ RowTypes'
      /\ content'[writing][Times] = v
      /\ \A f \in Files, y \in DataSets : f # writing \/ y # Times => content'[f][y] = content[f][y]
  BY <1>2, TimesIsADataSet, RowAdded DEF Rows, RowTypes
<1>4. RowsAligned'
  <2> SUFFICES ASSUME NEW f \in Files, NEW y \in DataSets
               PROVE  Aligned(content'[f][y], content'[f][Times])
    BY DEF RowsAligned, Aligned
  <2>1. Aligned(content[f][y], content[f][Times])
    BY DEF Rows, RowsAligned, Aligned
  <2>2. content[f][y] \in Seq(Nat) /\ Len(content[f][y]) \in Nat
    BY LenProperties DEF Rows, RowTypes
  <2>3. CASE f # writing
    BY <1>3, <2>1, <2>3, TimesIsADataSet
  <2>4. CASE f = writing /\ y # Times
    <3> DEFINE rows == content[writing][y]
    <3>1. /\ content'[f][y] = rows /\ content'[f][Times] = v /\ Len(rows) \in Nat
          /\ Len(rows) <= Len(times) /\ \A i \in 1 .. Len(rows) : rows[i] \in {Blank, times[i]}
      BY <1>3, <2>1, <2>2, <2>4, TimesIsADataSet DEF Aligned
    <3>2. Len(rows) <= Len(v) /\ \A i \in 1 .. Len(rows) : i \in 1 .. Len(times)
      BY <1>1, <1>2, <3>1
    <3>3. \A i \in 1 .. Len(rows) : rows[i] \in {Blank, v[i]}
      BY <1>2, <3>1, <3>2
    <3> HIDE DEF rows, times
    <3> QED
      BY <3>1, <3>2, <3>3 DEF Aligned
  <2>5. CASE f = writing /\ y = Times
    BY <1>1, <1>2, <1>3, <2>5 DEF Aligned
  <2> QED
    BY <2>3, <2>4, <2>5
<1> QED
  BY <1>3, <1>4

\* A row of another dataset, at the place of the frame's time stamp.
LEMMA SampleAdded ==
  ASSUME Rows, Stamped, NEW x \in DataSets \ {Times},
         NEW v \in {Resized(content[writing][x], row), Assigned(content[writing][x], row)},
         content' = [content EXCEPT ![writing][x] = v],
         UNCHANGED <<file, writing, frame, row>>, logger' = logger, logger = "write",
         pending' \subseteq pending
  PROVE  Rows'
<1> DEFINE times == content[writing][Times]
           rows == content[writing][x]
<1>1. /\ times \in Seq(Nat) /\ rows \in Seq(Nat) /\ frame \in Nat /\ Len(rows) \in Nat
      /\ writing \in Files /\ row = Len(times) /\ row \in Nat \ {0} /\ times[row] = frame
      /\ Aligned(rows, times)
  BY TimesIsADataSet, LenProperties DEF Rows, RowTypes, RowOfFrame, RowsAligned, Aligned
<1>2. /\ v \in Seq(Nat) /\ Len(v) = row
      /\ \A i \in 1 .. row : v[i] \in {Blank, times[i]}
  <2>1. /\ Resized(rows, row) \in Seq(Nat) /\ Len(Resized(rows, row)) = row
        /\ Assigned(rows, row) \in Seq(Nat) /\ Len(Assigned(rows, row)) = row
        /\ \A i \in 1 .. row : Resized(rows, row)[i] = IF i <= Len(rows) THEN rows[i] ELSE Blank
        /\ \A i \in 1 .. row :
             Assigned(rows, row)[i] = IF i = row THEN frame ELSE Resized(rows, row)[i]
    BY <1>1, ResizedRows
  <2>2. \A i \in 1 .. row : i <= Len(rows) => i \in 1 .. Len(rows) /\ rows[i] \in {Blank, times[i]}
    BY <1>1 DEF Aligned
  <2>3. v = Resized(rows, row) \/ v = Assigned(rows, row)
    OBVIOUS
  <2> HIDE DEF rows, times
  <2> QED
    BY <1>1, <2>1, <2>2, <2>3
<1>3. /\ RowTypes'
      /\ content'[writing][x] = v
      /\ \A f \in Files, y \in DataSets : f # writing \/ y # x => content'[f][y] = content[f][y]
  BY <1>1, <1>2, RowAdded DEF Rows, RowTypes
<1>4. RowOfFrame'
  BY <1>1, <1>3, TimesIsADataSet DEF RowOfFrame
<1>5. RowsAligned'
  <2> SUFFICES ASSUME NEW f \in Files, NEW y \in DataSets
               PROVE  Aligned(content'[f][y], content'[f][Times])
    BY DEF RowsAligned, Aligned
  <2>1. Aligned(content[f][y], content[f][Times])
    BY DEF Rows, RowsAligned, Aligned
  <2>2. CASE f # writing \/ y # x
    BY <1>3, <2>1, <2>2, TimesIsADataSet
  <2>3. CASE f = writing /\ y = x
    BY <1>1, <1>2, <1>3, <2>3, TimesIsADataSet DEF Aligned
  <2> QED
    BY <2>2, <2>3
<1> QED
  BY <1>3, <1>4, <1>5 DEF Rows

LEMMA LoggerRows ==
  ASSUME Rows, LoggerStep
  PROVE  Rows'
<1> USE DEF LoggerGoes, fileVars, frameVars
<1>1. CASE Begin \/ FrameBegins \/ TakeFile \/ Fetch
  <2>1. /\ content' = content /\ file' = file /\ writing' \in {writing, file}
        /\ frame' \in {frame, frame + 1} /\ logger' \in {"loop", "take", "stamp", "write"}
        /\ logger' # "write" => pending' = pending
        /\ logger' = "write" => pending' \subseteq Sensors \X {"type", "data"}
        /\ logger \in {"begin", "loop", "take", "fetch"}
        /\ logger = "fetch" <=> logger' = "write"
        /\ logger = "fetch" => UNCHANGED <<writing, row, frame>>
    BY <1>1 DEF Begin, FrameBegins, TakeFile, Fetch
  <2>2. Sensors \X {"type", "data"} \subseteq DataSets \ {Times}
    BY DEF DataSets, Times
  <2>3. /\ file' \in Files \cup {NoFile} /\ writing' \in Files \cup {NoFile} /\ frame' \in Nat
        /\ logger' \in LoggerLabels /\ pending' \subseteq DataSets \ {Times}
        /\ logger' \notin {"fetch", "write"} => pending' = {}
    BY <2>1, <2>2 DEF Rows, RowTypes, LoggerLabels
  <2>4. Stamped' => Stamped /\ UNCHANGED <<writing, row, frame>>
    BY <2>1 DEF Stamped
  <2> QED
    BY <2>1, <2>3, <2>4, RowsKept
<1>2. CASE Stamp
  <2>1. /\ writing \in Files /\ pending = {} /\ logger' = "fetch" /\ frame \in Nat
        /\ content[writing][Times] \in Seq(Nat) /\ NextRow = Len(content[writing][Times]) + 1
        /\ NextRow \in Nat \ {0}
    BY <1>2, TimesIsADataSet, LenProperties DEF Stamp, Truthy, Rows, RowTypes, NextRow
  <2>2. RowTypes' /\ RowsAligned'
    BY <1>2, <2>1, TimesAdded DEF Stamp, WriteRow, LoggerLabels
  <2>3. content'[writing][Times] = Assigned(content[writing][Times], NextRow)
    BY <1>2, <2>1, TimesIsADataSet DEF Stamp, WriteRow, Rows, RowTypes
  <2>4. RowOfFrame'
    <3> DEFINE a == Assigned(content[writing][Times], NextRow)
    <3>1. Len(a) = NextRow /\ a[NextRow] = frame
      <4>1. /\ Len(a) = NextRow
            /\ \A i \in 1 .. NextRow :
                 a[i] = IF i = NextRow THEN frame ELSE Resized(content[writing][Times], NextRow)[i]
        BY <2>1, ResizedRows
      <4>2. NextRow \in 1 .. NextRow
        BY <2>1
      <4> HIDE DEF a
      <4> QED
        BY <4>1, <4>2
    <3>2. UNCHANGED <<writing, frame>> /\ row' = NextRow
      BY <1>2 DEF Stamp
    <3> QED
      BY <2>1, <2>3, <3>1, <3>2 DEF RowOfFrame
  <2> QED
    BY <2>2, <2>4 DEF Rows
<1>3. CASE StampRaises
  <2>1. /\ pending = {} /\ logger' = "write" /\ ~Stamped'
        /\ UNCHANGED <<file, writing, frame, pending>>
    BY <1>3 DEF StampRaises, RowRaises, Rows, RowTypes, Stamped
  <2>2. CASE content' = content
    BY <2>1, <2>2, RowsKept DEF Rows, RowTypes, LoggerLabels
  <2>3. CASE /\ Truthy(writing)
             /\ content' = [content EXCEPT ![writing][Times] =
                              Resized(content[writing][Times], NextRow)]
    <3>1. RowTypes' /\ RowsAligned'
      BY <2>1, <2>3, TimesAdded DEF Rows, RowTypes, Truthy, LoggerLabels
    <3> QED
      BY <2>1, <3>1 DEF Rows, RowOfFrame
  <2> QED
    BY <1>3, <2>2, <2>3 DEF StampRaises, RowRaises
<1>4. CASE Write
  <2>1. PICK x \in pending : Due(x) /\ WriteRow(x, row) /\ pending' = pending \ {x}
    BY <1>4 DEF Write
  <2>2. /\ Stamped /\ x \in DataSets \ {Times} /\ logger = "write" /\ logger' = logger
        /\ UNCHANGED <<file, writing, frame, row>> /\ pending' \subseteq pending
    BY <1>4, <2>1 DEF Write, WriteRow, Stamped, Rows, RowTypes
  <2> QED
    BY <2>1, <2>2, SampleAdded DEF WriteRow
<1>5. CASE WriteRaises
  <2>1. PICK x \in pending :
          Due(x) /\ RowRaises(x, row) /\ pending' = pending \ {x, <<x[1], "data">>}
    BY <1>5 DEF WriteRaises
  <2>2. /\ Stamped /\ x \in DataSets \ {Times} /\ logger = "write" /\ logger' = logger
        /\ UNCHANGED <<file, writing, frame, row>> /\ pending' \subseteq pending
    BY <1>5, <2>1 DEF WriteRaises, RowRaises, Stamped, Rows, RowTypes
  <2>3. CASE content' = content
    BY <2>2, <2>3, RowsKept DEF Rows, RowTypes
  <2>4. CASE content' = [content EXCEPT ![writing][x] = Resized(content[writing][x], row)]
    BY <2>2, <2>4, SampleAdded
  <2> QED
    BY <2>1, <2>3, <2>4 DEF RowRaises
<1>6. CASE FrameEnds
  BY <1>6, RowsKept DEF FrameEnds, Rows, RowTypes, LoggerLabels, Stamped
<1>7. CASE LoggerStops \/ StopManager \/ JoinManager
  BY <1>7, RowsKept DEF LoggerStops, StopManager, JoinManager, Rows, RowTypes, LoggerLabels, Stamped
<1>8. CASE LoggerStopsLogging
  BY <1>8, RowsKept DEF LoggerStopsLogging, TestFile, CloseFile, CloseRaises, ClearFile,
                        Rows, RowTypes, LoggerLabels, Stamped
<1> QED
  BY <1>1, <1>2, <1>3, <1>4, <1>5, <1>6, <1>7, <1>8 DEF LoggerStep

LEMMA ManagerRows ==
  ASSUME Rows, ManagerStep \/ SpaceChanges \/ Stop \/ UNCHANGED tvars
  PROVE  Rows'
<1> USE DEF ManagerGoes, fileVars, frameVars
<1>1. /\ UNCHANGED <<writing, frame, row, pending, logger>>
      /\ file' \in Files \cup {file, NoFile}
      /\ content' = content \/ content' = Kept({writing})
  BY DEF ManagerStep, ListOnce, ListOnceRaises, ManagerEnds, Selects, SelectionRaises,
         MeasuringRaises, ChangeStopsLogging, ErrorStopsLogging, Create, CreateRaises,
         TestFile, CloseFile, CloseRaises, ClearFile, SpaceChanges, Stop, tvars
<1>2. Stamped' => Stamped
  BY <1>1 DEF Stamped
<1> QED
  BY <1>1, <1>2, RowsKept DEF Rows, RowTypes

\* A sample stands in the row of its frame's time stamp, whichever writes have failed and
\* whenever the manager has closed the file under the logger (_process_frame and its helpers,
\* ThumbnailLogger.py:162-226).
THEOREM SamplesStandAtTheirTimes == TSpec => []RowsAligned
<1>1. Rows /\ [TNext]_tvars => Rows'
  BY LoggerRows, ManagerRows DEF TNext
<1>2. Rows => RowsAligned
  BY DEF Rows
<1> QED
  BY <1>1, <1>2, InitRows, PTL DEF TSpec
=============================================================================
