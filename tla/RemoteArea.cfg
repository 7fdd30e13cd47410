\* An Efinix board, which has no boot block to look at, written in its user area.
CONSTANTS
  PageSize = 1
  SectorSize = 2
  FlashSectors = 8
  Files <- MCFiles
  Image <- DistinctImage
  FilePages = 3
  DefaultUserSpace = 4
  Setups <- EfinixUserSetup
  MaxLost = 1
  MaxRepeated = 1
SPECIFICATION FairSpec
INVARIANT
  VerifiedMeansHeld
CHECK_DEADLOCK FALSE
