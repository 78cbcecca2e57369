CONSTANTS
  None = None
  Workers = {w1}
  Dumps = {d1, d2}
  Storages = {s1, s2}
  NoStorage = Root
  Recommendable = {s1, s2, Root}
  Faults = {"create", "select", "mkpath", "popen", "crash"}
SPECIFICATION Spec
INVARIANTS StateAgrees NoOrphan NotAcquiringIsQuiet
PROPERTIES ImplementsRecorder
