SPECIFICATION Spec
CONSTANTS
  Objects <- MCObjects
  Units <- MCUnits
  Modes = {"rest"}
  Offsets = {1, 2, 3}
  Faults = {}
  PartSize = 2
  Concurrency = 2
  MaxParts = 2
  MaxChunk = 2
  MaxData = 4
  MaxOthers = 1
INVARIANTS
  ResumesAtOffset
CHECK_DEADLOCK FALSE
