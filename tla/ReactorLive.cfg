CONSTANTS
  Requests = {r1, r2}
  Capacity = 2
  MainCalls = {"shutdown"}
SPECIFICATION FairSpec
PROPERTIES
  GoneFreesPermit
  ShutdownEnds
CHECK_DEADLOCK FALSE
