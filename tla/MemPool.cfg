SPECIFICATION Spec
CONSTANTS
  PoolSize <- MCPoolSize
  HeaderSize <- MCHeaderSize
  LargeHdrSize <- MCLargeHdrSize
  PageSize <- MCPageSize
  Word <- MCWord
  Sizes <- MCSizes
  Chunks = {c1, c2}
  MaxBlocks = 3
  NULL = NULL
INVARIANTS
  TypeOK
  InBounds
  Disjoint
  ChunksAccounted
  NoReadAfterFree
  NothingLeaked
PROPERTIES
  ObjectsStable
  DestroyReturns
  KeepsContract
