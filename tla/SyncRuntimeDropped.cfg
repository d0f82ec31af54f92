SPECIFICATION Spec
CONSTANTS
  Filters = {"f"}
  Callers = {}
  MaxBodyBytes = 1
INVARIANT OutcomeIsReported
CHECK_DEADLOCK FALSE
