CONSTANTS
  Requests = {r1, r2, r3}
  Capacity = 2
  MainCalls = {"admin", "drain", "shutdown"}
SYMMETRY RequestSymmetry
SPECIFICATION Spec
INVARIANTS
  PermitCoversWork
  NoCommandAsleep
  AckMeansQuiet
  ShutdownReturnsPermits
CHECK_DEADLOCK FALSE
