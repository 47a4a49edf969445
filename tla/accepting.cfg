SPECIFICATION AcceptingSpec
CONSTANTS
  Handles = {h1, h2}
  NoHandle = none
  TxCap = 1
  RxCap = 1
  Rto = 1
  Segments = {"syn"}
  AppOps = {}
  MinBuf = 1
  MaxPolls = 1
  MaxReplies = 0
  DeviceFails = FALSE
CHECK_DEADLOCK FALSE
PROPERTIES LoopComesAround StreamReachesApplication
