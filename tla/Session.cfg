SPECIFICATION Spec
CONSTANTS
  INIT_POLLS = 3
  DONE_WAIT = 2
  CHUNKS = 2
  MaxFaults = 1
  Benches <- MCBenches
  LongNames <- MCLongNames
  MaxSessions = 2
  MaxKills = 1
INVARIANTS
  TypeOK
  NullOnlyWithoutRegisters
  FlashStatusTrue
  LoadReported
  BridgeIdle
  ConfigKept
  BootsAsked
  EnableBalanced
PROPERTIES
  OnlyNamedIsDriven
  
CHECK_DEADLOCK FALSE
