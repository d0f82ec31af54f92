CONSTANTS
  MaxBufferedBytes = 1
  ResponseBytes = 1
  RequestBytes = 2
  Modes = {"body", "protocol"}
SPECIFICATION Spec
INVARIANTS
  InOrder
  NoStrandedUpload
  CountedOnce
CHECK_DEADLOCK FALSE
