SPECIFICATION Spec
CONSTANTS
  io_ports = 3
  port_width = 2
  io_width = 6
  word = 3
  pins <- MCpins
  AltReads = "ones"
  width = 3
  Remotes <- MCRemotes
  MaxStray = 1
  Deaf = {2}
  HALF = 3
  MaxTurn = 2
  Furthest = 4
  Latest = 7
INVARIANTS
  TypeOK
  OnlyOutputsDriven
  PinsLeft
  CatalogueComplete
PROPERTIES
  Follows
  JobEnds
CHECK_DEADLOCK FALSE
