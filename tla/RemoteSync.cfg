\* One answer delivered twice, on a board with a valid boot block.
CONSTANTS
  PageSize = 1
  SectorSize = 2
  FlashSectors = 8
  Files <- MCFiles
  Image <- DistinctImage
  FilePages = 3
  DefaultUserSpace = 4
  Setups <- PlainSetup
  MaxLost = 0
  MaxRepeated = 1
SPECIFICATION FairSpec
INVARIANT
  SyncMeansDone
CHECK_DEADLOCK FALSE
