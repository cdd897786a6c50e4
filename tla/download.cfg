SPECIFICATION FairSpec
CONSTANTS
  Contents <- MCContents
  Offsets <- MCOffsets
  SeekPoints <- MCSeekPoints
  Faults = {"error"}
  MaxRead = 2
  MaxSeeks = 2
  MaxOthers = 2
INVARIANTS
  TypeOK
  OneVersion
  NoBodyLeaks
PROPERTIES
  TransferEnds
