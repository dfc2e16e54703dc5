SPECIFICATION Spec
CONSTANTS
  c1 = c1
  c2 = c2
  c3 = c3
  s1 = s1
  s2 = s2
  s3 = s3
  s4 = s4
  Calls = {c1, c2, c3}
  Sessions = {s1, s2, s3, s4}
  Threads = 2
  Oversized = {c3}
  MaxResets = 2
  MaxCrashes = 0
  ExplicitStop = TRUE
  None = None
CHECK_DEADLOCK FALSE
SYMMETRY Symmetry
INVARIANTS
  TypeOK
  ExclusiveSession
  PooledQuiet
  NeverAborted
  OwnResponse
  OneResetIsMasked
  PoolBound
PROPERTY StopIsFinal
