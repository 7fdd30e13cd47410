\* A file one byte larger than the user area of the board.
CONSTANTS
  PageSize = 2
  SectorSize = 8
  FlashSectors = 4
  BufferSize = 4
  BootSize = 1
  EraseUnit = 8
  Files <- OversizeFiles
  FileInfo <- OversizeInfo
  Boards <- XilinxBoards
  Commands <- PlainWrites
  MaxFaults = 0
  MaxSessions = 1
SPECIFICATION FairSpec
PROPERTY
  OversizeRefused
CHECK_DEADLOCK FALSE
