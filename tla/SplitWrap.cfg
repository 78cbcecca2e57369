INIT Init
NEXT Next
CONSTANTS
  CLOUD_POINT_MAX = 3200
  CaliChans = 2
  PACKET_NUM = 12
  Lidars_ = {"RSBP"}
  Params <- WrapParams
  Rpms = {600}
  Firings = {12, 28}
  MaxPackets = 8
  MaxFaults = 0
  FrameLen = 24
  JumboFrameLen = 3
  MaxBurst = 9
  Datagrams = {"a", "b", "c", "d"}
  IdOf <- MCIds
  SizeOf <- MCSizes
  FRAGMENT = 2
  MaxArrivals = 9
  Kinds <- AllKinds
  MaxDatagrams = 13
  MaxDisturbances = 1
  Commands = {"calib", "fire", "chan"}
  HEADER_SIZE = 3
  PAYLOAD_LEN <- MCLens
  MaxQueries = 3
  Buffers = {b1, b2, b3, b4}
  CloudAddrs = {c1, c2, c3, c4}
  NoBuffer = NoBuffer
  NoCloud = NoCloud
  Inputs <- MCInputs
  TurnSize = 2
  PACKET_POOL_MAX = 2
  MaxMsops = 4
  MaxOthers = 1
  MaxSessions = 2
INVARIANT EveryCutIsSeen
CHECK_DEADLOCK FALSE
