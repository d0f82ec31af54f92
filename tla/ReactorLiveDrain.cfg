CONSTANTS
  Requests = {r1}
  Capacity = 1
  MainCalls = {"drain", "shutdown"}
SPECIFICATION FairSpec
PROPERTIES
  GoneFreesPermit
  ShutdownEnds
CHECK_DEADLOCK FALSE
