SPECIFICATION Spec
CONSTANTS
  Names = {"a", "b", "r", "x", "y"}
  Rank <- MCRank
  Data = {"d1", "d2"}
  Empty = "empty"
  Sessions = {"s1"}
  Root <- TreeRoot
  ReadOnly <- OneWriter
  DirMarker <- OneMarked
  ClientPaths <- TreePaths
  Buckets <- TreeBuckets
  Faults = {"error", "lost"}
  PageSize = 2
  BatchSize = 2
  MaxOps = 2
INVARIANTS
  TypeOK
  RefusalsChangeNothing
  MatchesPromise
  RenameLosesNothing
CHECK_DEADLOCK FALSE
