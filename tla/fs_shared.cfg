SPECIFICATION FairSpec
CONSTANTS
  Names = {"a", "b", "r", "x", "y"}
  Rank <- MCRank
  Data = {"d1", "d2"}
  Empty = "empty"
  Sessions = {"s1", "s2"}
  Root <- SharedRoot
  ReadOnly <- TwoWriters
  DirMarker <- TwoMarked
  ClientPaths <- SharedPaths
  Buckets <- LoopBuckets
  Faults = {}
  PageSize = 1
  BatchSize = 1
  MaxOps = 1
INVARIANTS
  MarkersEmpty
PROPERTIES
  RmdirKeepsFiles
  OperationsEnd
CHECK_DEADLOCK FALSE
