CONSTANTS
  Disks = {k1, k2}
  NoDisk = NoDisk
  Files = {f1, f2}
  NoFile = NoFile
  Sensors = {c1}
  MaxFrames = 2
  Faults = {"mount", "gone", "open", "write"}
SPECIFICATION TFairSpec
INVARIANTS RowsAligned LogsWhereChosen NoSpaceNoLog
PROPERTIES LogLeavesFullDisk LoggingStarts ThumbnailStops
CHECK_DEADLOCK FALSE
