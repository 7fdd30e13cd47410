SPECIFICATION Spec
CONSTANTS
  INIT_POLLS = 3
  DONE_WAIT = 2
  CHUNKS = 2
  MaxFaults = 1
  Benches <- PlxBenches
  LongNames <- MCLongNames
  MaxSessions = 1
  MaxKills = 0
INVARIANT ProgramStatusTrue
CHECK_DEADLOCK FALSE
