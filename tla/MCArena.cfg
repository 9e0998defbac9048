CONSTANTS
  ChunkSize = 4
  Sizes = {1, 3, 6}
  Aligns = {1, 4}
  Addresses <- MCAddresses
  MaxChunks = 2
SPECIFICATION FairSpec
INVARIANTS
  TypeOK
  ArenaSafe
PROPERTIES
  AllocateReturns
  HeapSpec
