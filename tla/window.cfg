SPECIFICATION FairSpec
CONSTANTS
  Handles = {h1}
  NoHandle = none
  TxCap = 1
  RxCap = 1
  Rto = 1
  Segments = {"syn", "ack", "data", "stale"}
  AppOps = {"read"}
  MinBuf = 1
  MaxPolls = 1
  MaxReplies = 2
  DeviceFails = FALSE
CHECK_DEADLOCK FALSE
PROPERTIES PeerIsTold
