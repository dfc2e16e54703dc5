SPECIFICATION Spec
CONSTANTS
  MaxRequests = 2
  Kinds = {"good", "big"}
  Keeps = {TRUE}
  MaxJunk = 1
  MaxWrites = 1
  Streams = {"none"}
CHECK_DEADLOCK FALSE
INVARIANT NoSurplusAnswer
