SPECIFICATION FairSpec
CONSTANTS
  Readers = {r1}
  Sizes <- TwoSizes
  Uint <- SmallUint
  Field <- SmallField
  MaxPages = 8
  MaxTries = 2
  MaxSets = 3
INVARIANTS
  TypeOK
  DmaInBuffers
  ReleaseFreesOnce
PROPERTIES
  StreamonFits
  ReaderIsWoken
CHECK_DEADLOCK FALSE
