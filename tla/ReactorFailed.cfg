CONSTANTS
  Requests = {r1}
  Capacity = 1
  MainCalls = {"drain"}
SPECIFICATION Spec
PROPERTY
  StoppedRefuses
CHECK_DEADLOCK FALSE
