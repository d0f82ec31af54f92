CONSTANTS
  Rackups = {"a", "b"}
  MaxConfigs = 2
  Filters = {"f"}
SPECIFICATION FairSpec
INVARIANTS
  FirstIsFinal
  NoVMLeftBehind
PROPERTY
  MainReturns
CHECK_DEADLOCK FALSE
