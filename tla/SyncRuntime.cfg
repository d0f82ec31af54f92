CONSTANTS
  Filters = {"f"}
  Callers = {"c"}
  MaxBodyBytes = 1
SPECIFICATION FairSpec
PROPERTIES
  TurnedAwayNeverRuns
  ImplementsAnswers
  CallerReturns
CHECK_DEADLOCK FALSE
