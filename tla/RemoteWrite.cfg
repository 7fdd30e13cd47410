\* Up to two datagrams lost and two delivered twice, anywhere in a write.
CONSTANTS
  PageSize = 1
  SectorSize = 2
  FlashSectors = 8
  Files <- MCFiles
  Image <- FullImage
  FilePages = 4
  DefaultUserSpace = 4
  Setups <- AllSetups
  MaxLost = 2
  MaxRepeated = 2
SPECIFICATION FairSpec
INVARIANTS
  TypeOK
  RightIdBeforeErase
  InStep
  VerifiedMeansAll
  FailsOnlyWithNetwork
PROPERTIES
  ImplementsRemoteUpdate
  OthersKept
  EndsUnlessLost
\* The program may wait for ever for a datagram that was lost.
CHECK_DEADLOCK FALSE
