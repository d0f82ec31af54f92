CONSTANTS
  MaxClientFields = 2
  MaxUpstreamFields = 2
  MaxEntries = 3
SPECIFICATION Spec
INVARIANTS
  RefusalIsOrdinary
CHECK_DEADLOCK FALSE
