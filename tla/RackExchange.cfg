CONSTANTS
  MaxClientFields = 2
  MaxUpstreamFields = 4
  MaxEntries = 3
SPECIFICATION Spec
INVARIANTS
  ProxiedIsFaithful
  UpgradeIsAgreed
CHECK_DEADLOCK FALSE
