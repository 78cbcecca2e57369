SPECIFICATION Spec
CONSTANTS
  Sensors = {camera, bynav}
  Polling = {bynav}
  Renderer = renderer
  Workers = {w1, w2}
  Polls = 2
  ReadRetry = 2
  Handlers = {h1, h2}
  Pipes = {p1, p2, p3}
  NoPipe = NoPipe
  Disks = {k1, k2}
  NoDisk = NoDisk
  MaxFree = 2
  Threshold = 1
  Faults = {"mount", "vanish"}
INVARIANTS TableStandsStill FieldsAgree AnswersAgree
PROPERTIES EveryoneReturns OnStopReturns CameraCallsReturn FullDiskIsDropped StorageStops
CHECK_DEADLOCK FALSE
