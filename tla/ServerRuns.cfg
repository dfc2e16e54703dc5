SPECIFICATION FairSpec
CONSTANTS
  w1 = w1
  w2 = w2
  w3 = w3
  c1 = c1
  c2 = c2
  Workers = {w1, w2, w3}
  Connections = {c1, c2}
  MaxRuns = 2
  MaxFailures = 2
  None = None
CHECK_DEADLOCK FALSE
INVARIANTS
  TypeOK
  OneAccept
  QuietWhenStopped
PROPERTIES
  EveryConnectionServed
  StopReturns
  CrashOnlyInStop
  StopIsFinal
