SPECIFICATION Spec
CONSTANTS
  Names = {"a", "b", "c"}
  Hash <- MCHash
  Params <- MCParams
  Result <- MCResult
  OtherTypes <- MCOtherTypes
  Values <- MCValues
  Word <- Integer
  Text <- Str
  Calls = {c1}
  c1 = c1
  Pack <- PackValue
  Unpack <- UnpackBuffer
  Clean <- Survives
  Kept <- Returned
  Void = Void
  None = None
  Junk = Junk
CHECK_DEADLOCK FALSE
INVARIANTS
  TypeOK
  ReplyReadable
  FailureRaised
  ArgumentsArrive
  OwnResult
PROPERTIES
  RegisteredStays
  ImplementsRemoteCall
