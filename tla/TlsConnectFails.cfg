SPECIFICATION Spec
CONSTANTS
  w1 = w1
  w2 = w2
  c1 = c1
  Workers = {w1, w2}
  Connectors = {c1}
  None = None
CHECK_DEADLOCK FALSE
INVARIANT FailureIsReported
