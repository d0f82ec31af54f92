CONSTANTS
  MaxBufferedBytes = 1
  ResponseBytes = 2
  RequestBytes = 1
  Modes = {"plain"}
SPECIFICATION FairSpec
INVARIANTS
  NoStrandedReader
  EndIsTrue
  HandleIsLive
PROPERTY
  ResetHappens
CHECK_DEADLOCK FALSE
