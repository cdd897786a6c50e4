SPECIFICATION FairSpec
CONSTANTS
  Ids <- Four
  MaxClients = 2
  CreateBucketIfMissing = TRUE
  Faults = {"error", "lost"}
INVARIANTS
  TypeOK
  LimitHolds
  ServesBucket
PROPERTIES
  RefusedOnlyWhenFull
  ShutdownEnds
CHECK_DEADLOCK FALSE
