SPECIFICATION FairSpec
CONSTANTS
  MaxConns = 3
  ProcLimit = 4
  FdLimit = 1
  Interrupts = {"group", "main"}
INVARIANTS
  NoServerLeftBehind
  StopReachesServer
PROPERTIES
  StopEndsMain
  InterruptEndsAll
CHECK_DEADLOCK FALSE
