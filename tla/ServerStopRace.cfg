SPECIFICATION Spec
CONSTANTS
  w1 = w1
  w2 = w2
  c1 = c1
  Workers = {w1, w2}
  Connections = {c1}
  MaxRuns = 1
  MaxFailures = 0
  None = None
CHECK_DEADLOCK FALSE
INVARIANT
  NoDanglingListener
