\* Every kind of access, two crashes and one fault.
CONSTANTS
  Ports = {"hm2", "gpio", "io", "epp"}
  ByteBits = 3
  PageSize = 2
  SectorPages = 2
  Sectors = 2
  READ = 3
  PAGE_WRITE = 2
  WRITE_ENABLE = 6
  READ_STATUS = 5
  READ_IDROM = 1
  SECTOR_ERASE = 4
  FlashId = 4
  Pages <- MCPages
  FirstMemory <- MCFirstMemory
  MaxCalls = 3
  MaxCrashes = 2
  MaxFaults = 1
SPECIFICATION FairSpec
INVARIANTS
  TypeOK
  IdRight
PROPERTIES
  IdleBeforeCommand
  DamageConfined
  ImplementsCalls
  CallsEnd
\* The program need not be started again.
CHECK_DEADLOCK FALSE
