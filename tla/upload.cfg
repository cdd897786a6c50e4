SPECIFICATION FairSpec
CONSTANTS
  Objects <- MCObjects
  Units <- MCUnits
  Modes = {"stor", "appe", "rest"}
  Offsets = {1, 2, 3}
  Faults = {"error", "lost", "noabort"}
  PartSize = 2
  Concurrency = 2
  MaxParts = 2
  MaxChunk = 2
  MaxData = 4
  MaxOthers = 2
INVARIANTS
  TypeOK
  NoOrphanedParts
PROPERTIES
  Implements
  ErrorSticks
  RefusedResumeKeeps
  WritesReturn
  CloseEnds
CHECK_DEADLOCK FALSE
