CONSTANTS
  None = None
  Workers = {w1, w2}
  Dumps = {d1, d2}
  Storages = {s1, s2}
  NoStorage = Root
  Recommendable = {s1, Root}
  Faults = {"mkpath"}
SPECIFICATION FairSpec
INVARIANTS ProcessOwned
PROPERTIES StopReturns StopEndsRecording
