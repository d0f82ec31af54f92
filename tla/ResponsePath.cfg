CONSTANTS
  MaxBufferedBytes = 2
  BodyBytes = 3
  ChunkSizes = {1, 3}
SPECIFICATION FairSpec
INVARIANTS
  WithinBudget
  InOrder
  CompleteIsWhole
  OutcomeMatchesWire
  NoStrandedWriter
  NoForgottenItems
PROPERTIES
  CancelledFreesPermit
  WriterResumes
  EndReachesClient
