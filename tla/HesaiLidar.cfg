SPECIFICATION ConverterSpec
CONSTANTS
  FieldSize = 2
  RING_SIZE = 1
  kMaxPacketNumPerFrame = 3
  kMinPackets = 0
  kAzimuthTolerance = 1
  CpuNums = {2, 4}
  Before = 1
  MaxDatagrams = 4
  MaxOthers = 1
  MaxSnapshots = 1
INVARIANT FrameExact TornOnceAtMost
PROPERTY StopReturns
CHECK_DEADLOCK FALSE
