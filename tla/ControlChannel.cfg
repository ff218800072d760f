SPECIFICATION FairSpec
CONSTANTS
  MaxRestarts = 1
  MaxCloses = 2
  MaxDrops = 1
  MaxPuts = 1
  MaxAsks = 1
INVARIANTS RestartsBounded NoStalePacket NoThreadLeftOver NothingLeft
PROPERTIES ImplementsLink ShutdownCompletes ComesUp ClosesWhenTold
CHECK_DEADLOCK FALSE
