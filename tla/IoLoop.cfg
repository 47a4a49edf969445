SPECIFICATION FairSpec
CONSTANTS
  Pairs = {p1, p2}
  NoPair = nopair
  MaxWaiting = 1
  MaxReplies = 2
CHECK_DEADLOCK FALSE
INVARIANTS AssertionsHold FreeWriterIsIdle NoLostWakeUp
PROPERTIES EverythingIsServed
