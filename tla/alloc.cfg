\* Words of 8 bytes and headers of 16 as on the machine, pages of 64.
CONSTANTS
  Word = 8
  Header = 16
  Page = 64
  NumPages = 5
  Requests <- MCRequests
  InitialSizes <- MCInitialSizes
  MaxUsed = 3
SPECIFICATION Spec
INVARIANTS TypeOK SizeSurvives ChunksTileMappings FullyCoalesced NothingLeaks
PROPERTY ImplementsAllocation
