SPECIFICATION Spec
CONSTANTS
  Names = {"a", "b", "r", "x", "y"}
  Rank <- MCRank
  Data = {"d1", "d2"}
  Empty = "empty"
  Sessions = {"s1", "s2", "s3"}
  Root <- ViewRoot
  ReadOnly <- ViewReadOnly
  DirMarker <- ViewMarked
  ClientPaths <- ViewPaths
  Buckets <- ViewBuckets
  Faults = {}
  PageSize = 2
  BatchSize = 2
  MaxOps = 1
INVARIANTS
  MatchesPromise
PROPERTIES
  Isolation
CHECK_DEADLOCK FALSE
