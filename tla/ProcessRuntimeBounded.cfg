SPECIFICATION BoundedSpec
CONSTANTS
  Rackups = {"a"}
  MaxConfigs = 1
  Filters = {"f"}
PROPERTY ShutdownIsBounded
CHECK_DEADLOCK FALSE
