\* Every command on every kind of board, one run of the program.
CONSTANTS
  PageSize = 2
  SectorSize = 8
  FlashSectors = 4
  BufferSize = 4
  BootSize = 1
  EraseUnit = 8
  Files <- MCFiles
  FileInfo <- MCFileInfo
  Boards <- AllBoards
  Commands <- AllCommands
  MaxFaults = 1
  MaxSessions = 1
SPECIFICATION FairSpec
INVARIANTS
  TypeOK
  ReloadsOnlyImage
PROPERTIES
  WriteConfined
  AutoVerifyAgrees
  SessionEnds
\* The program need not be started again once the runs are over.
CHECK_DEADLOCK FALSE
