SPECIFICATION HandleSpec
CONSTANTS
  Names = {"a", "r", "x", "y"}
  Rank <- MCRank
  Data = {"d1"}
  Empty = "empty"
  RootDir <- MCRoot
  ListPaths <- MCPaths
  Keys <- MCKeys
  Buckets <- MCBuckets
  Faults = {"error"}
  PageSize = 2
  MaxOthers = 2
  Counts = {0, 1, 2}
  MaxReads = 3
  MaxSeeks = 1
INVARIANTS
  ListingFaithful
  ListingUnique
  ListingFinds
  OffsetInBounds
  ChunksInOrder
  ChunksComplete
CHECK_DEADLOCK FALSE
