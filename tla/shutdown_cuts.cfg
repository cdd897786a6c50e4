SPECIFICATION FairSpec
CONSTANTS
  Ids <- Two
  MaxClients = 0
  CreateBucketIfMissing = TRUE
  Faults = {"error", "lost"}
PROPERTY WaitsForTransfers
CHECK_DEADLOCK FALSE
