CONSTANTS
  Sensors = {s1}
  Devices = {{s1}, {}}
  Cpu = {s1}
  Clients = {c1, c2}
  first = c1
  Workers = {w1, w2}
  Dumps = {d1, d2}
  None = None
  Faults = {"refuse", "mkpath", "crash", "down"}
SPECIFICATION MCSpec
INVARIANTS StopCoversStarted StopIsFinal
PROPERTIES SnapshotsReturn
