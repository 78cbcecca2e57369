CONSTANTS
  None = None
  Workers = {w1}
  Dumps = {d1}
  Storages = {s1, s2}
  NoStorage = Root
  Recommendable = {s1, s2, Root}
  Faults = {"select", "mkpath", "popen"}
  StorageFaults = {}
  MaxFree = 1
  Threshold = 1
SPECIFICATION CFairSpec
PROPERTIES ImplementsAcquisition RecordingLeavesFullDisk StartGetsStorage
