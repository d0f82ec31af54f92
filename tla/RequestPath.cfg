CONSTANTS
  MaxBufferedBytes = 2
  BodyBytes = 4
  ReadSizes = {1, 2}
SPECIFICATION FairSpec
INVARIANTS
  InOrder
  EndIsTrue
  NoStrandedReader
  HeldBackOnlyWhenFull
PROPERTY
  ReaderResumes
