SPECIFICATION FairSpec
CONSTANTS
  Handles = {h1}
  NoHandle = none
  TxCap = 1
  RxCap = 1
  Rto = 1
  Segments = {"syn", "ack", "fin"}
  AppOps = {"write", "unlisten"}
  MinBuf = 1
  MaxPolls = 1
  MaxReplies = 1
  DeviceFails = TRUE
CHECK_DEADLOCK FALSE
INVARIANTS StreamsInTransit HalvesAccounted
PROPERTIES WriterIsWoken DroppedIsRemoved
