SPECIFICATION FairSpec
CONSTANTS
  c1 = c1
  c2 = c2
  s1 = s1
  s2 = s2
  s3 = s3
  Calls = {c1, c2}
  Sessions = {s1, s2, s3}
  Threads = 2
  Oversized = {c2}
  MaxResets = 0
  MaxCrashes = 1
  ExplicitStop = FALSE
  None = None
CHECK_DEADLOCK FALSE
INVARIANTS
  OncePerTry
  NoVainWait
PROPERTIES
  ImplementsRpcCalls
  EveryCallReturns
