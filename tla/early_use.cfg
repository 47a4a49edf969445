SPECIFICATION Spec
CONSTANTS
  Handles = {h1}
  NoHandle = none
  TxCap = 1
  RxCap = 1
  Rto = 1
  Segments = {"syn", "ack"}
  AppOps = {"read", "write"}
  MinBuf = 1
  MaxPolls = 1
  MaxReplies = 0
  DeviceFails = FALSE
CHECK_DEADLOCK FALSE
INVARIANTS FailureIsFinal
