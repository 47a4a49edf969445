SPECIFICATION Spec
CONSTANTS
  TxCap = 1
  RxCap = 1
  Rto = 2
  Handles = {h1, h2}
  NoHandle = nohandle
  Keys = {k1, k2}
  NoKey = nokey
  MaxTime = 3
INVARIANTS PQTypeOK KeysMirrorSlab NeverPanics
PROPERTIES ImplementsSchedule
