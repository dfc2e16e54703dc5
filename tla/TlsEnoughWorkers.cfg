SPECIFICATION FairSpec
CONSTANTS
  w1 = w1
  w2 = w2
  w3 = w3
  c1 = c1
  c2 = c2
  Workers = {w1, w2, w3}
  Connectors = {c1, c2}
  None = None
CHECK_DEADLOCK FALSE
INVARIANT
  WorkerLeft
PROPERTIES
  EveryCallEnds
  StopReturns
  StopInterrupted
