SPECIFICATION Spec
CONSTANTS
  Handles = {h1}
  NoHandle = none
  TxCap = 2
  RxCap = 1
  Rto = 1
  Segments = {"syn", "ack", "data", "fin", "rst", "synack", "other"}
  AppOps = {"read", "write", "close", "cancel"}
  MinBuf = 1
  MaxPolls = 1
  MaxReplies = 0
  DeviceFails = TRUE
CHECK_DEADLOCK FALSE
INVARIANTS TypeOK DroppedStaysScheduled ActiveIsScheduled WorkIsScheduled  WriterNotStranded ReaderNotStranded
PROPERTIES RemovedOnlyWhenDropped MethodsHandOff
