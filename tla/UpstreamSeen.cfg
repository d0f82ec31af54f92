SPECIFICATION Spec
CONSTANTS
  MaxBufferedBytes = 1
  ResponseBytes = 1
  RequestBytes = 1
  Modes = {"plain"}
INVARIANT CountedAsSeen
CHECK_DEADLOCK FALSE
