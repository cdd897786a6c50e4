SPECIFICATION Spec
CONSTANTS
  Names = {"a", "b", "r", "x", "y"}
  Rank <- MCRank
  Data = {"d1", "d2"}
  Empty = "empty"
  Sessions = {"s1", "s2"}
  Root <- SharedRoot
  ReadOnly <- TwoWriters
  DirMarker <- TwoMarked
  ClientPaths <- SharedPaths
  Buckets <- SharedBuckets
  Faults = {}
  PageSize = 2
  BatchSize = 2
  MaxOps = 1
PROPERTIES
  MkdirNeverShadowed
CHECK_DEADLOCK FALSE
