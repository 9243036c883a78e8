SPECIFICATION FairSpec
CONSTANTS
  MaxConns = 1
  ProcLimit = 4
  FdLimit = 1
  Interrupts = {"main"}
PROPERTIES
  HandlerClosesChildren
CHECK_DEADLOCK FALSE
