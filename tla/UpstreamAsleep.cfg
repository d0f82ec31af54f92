SPECIFICATION Spec
CONSTANTS
  MaxBufferedBytes = 1
  ResponseBytes = 1
  RequestBytes = 2
  Modes = {"body"}
INVARIANT ClosedReaderIsWoken
CHECK_DEADLOCK FALSE
