SPECIFICATION FairSpec
CONSTANTS
  Size = 4
  MaxAlloc = 1
  MaxRank = 3
INVARIANT RankOrder
CHECK_DEADLOCK FALSE
PROPERTIES CallReturns ImplementsPartition
