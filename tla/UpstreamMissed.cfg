SPECIFICATION Spec
CONSTANTS
  MaxBufferedBytes = 1
  ResponseBytes = 1
  RequestBytes = 1
  Modes = {"plain"}
INVARIANT FailureIsSeen
CHECK_DEADLOCK FALSE
