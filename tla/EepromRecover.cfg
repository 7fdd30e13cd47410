\* Writing through the recovery board, whose part number is not known.
CONSTANTS
  PageSize = 2
  SectorSize = 8
  FlashSectors = 4
  BufferSize = 4
  BootSize = 1
  EraseUnit = 8
  Files <- MCFiles
  FileInfo <- MCFileInfo
  Boards <- RecoverBoards
  Commands <- PlainWrites
  MaxFaults = 0
  MaxSessions = 1
SPECIFICATION FairSpec
PROPERTY
  RecoverWriteVerifies
CHECK_DEADLOCK FALSE
