SPECIFICATION Spec
CONSTANTS
  TotalPages = 14
  MetaPages = 1
  MaxRequest = 6
INVARIANTS TypeOK BlocksTile BuddiesAreMerged TotalsAreExact
PROPERTY ImplementsPageAllocator
