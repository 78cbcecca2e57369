CONSTANTS
  None = None
  Workers = {w1, w2}
  Dumps = {d1, d2}
  Storages = {s1, s2}
  NoStorage = Root
  Recommendable = {s1}
  Faults = {}
SPECIFICATION Spec
INVARIANTS NotAcquiringIsQuiet
