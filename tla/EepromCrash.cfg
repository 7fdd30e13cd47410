\* Two runs of the program, the first of which may be cut short.
CONSTANTS
  PageSize = 2
  SectorSize = 4
  FlashSectors = 4
  BufferSize = 4
  BootSize = 1
  EraseUnit = 2
  Files <- CrashFiles
  FileInfo <- CrashFileInfo
  Boards <- FallbackBoards
  Commands <- SomeCommands
  MaxFaults = 1
  MaxSessions = 2
SPECIFICATION Spec
INVARIANTS
  SuccessMeansImage
  ErasedBeforeProgrammed
PROPERTIES
  ImplementsUpdate
  ValidBootKept
  NoSpuriousMismatch
\* The program need not be started again once the runs are over.
CHECK_DEADLOCK FALSE
