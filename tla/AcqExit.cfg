CONSTANTS
  None = None
  Workers = {w1}
  Dumps = {d1}
  Storages = {s1, s2}
  NoStorage = Root
  Recommendable = {s1}
  Faults = {"crash"}
SPECIFICATION FairSpec
PROPERTIES ExitIsNoticed
