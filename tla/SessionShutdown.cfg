SPECIFICATION Spec
CONSTANTS
  MaxRequests = 1
  Kinds = {"good"}
  Keeps = {TRUE}
  MaxJunk = 0
  MaxWrites = 1
  Streams = {"up"}
CHECK_DEADLOCK FALSE
INVARIANT ShutdownInTime
