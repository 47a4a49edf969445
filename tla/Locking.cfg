SPECIFICATION Spec
INVARIANTS SleeperIsReachable
PROPERTIES ImplementsHandoff
