CONSTANTS
  MaxBufferedBytes = 1
  Calls = {"a", "b"}
  Timeouts = {0, 1}
SPECIFICATION FairSpec
INVARIANT
  NothingLost
PROPERTIES
  ImplementsAnswers
  CallerGoesOn
CHECK_DEADLOCK FALSE
