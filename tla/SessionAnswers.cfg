SPECIFICATION FairSpec
CONSTANTS
  MaxRequests = 3
  Kinds = {"good", "large", "throws", "unknown", "null", "empty", "big"}
  Keeps = {TRUE, FALSE}
  MaxJunk = 1
  MaxWrites = 1
  Streams = {"none", "up"}
CHECK_DEADLOCK FALSE
INVARIANTS
  TypeOK
  OwnAnswer
  RunOnce
  OneUnderWay
  KeptAnswerWhole
  NeverBothWait
PROPERTIES
  EveryRequestAnswered
  SessionEnds
  ImplementsConnection
