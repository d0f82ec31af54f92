CONSTANTS
  MaxBufferedBytes = 1
  BodyBytes = 2
  ChunkSizes = {2}
SPECIFICATION Spec
INVARIANT BlockIsMeaningful
