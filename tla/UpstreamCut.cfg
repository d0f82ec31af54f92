SPECIFICATION Spec
CONSTANTS
  MaxBufferedBytes = 1
  ResponseBytes = 1
  RequestBytes = 2
  Modes = {"body"}
INVARIANT UploadFailureIsHeard
CHECK_DEADLOCK FALSE
