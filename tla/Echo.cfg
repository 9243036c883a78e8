SPECIFICATION FairSpec
CONSTANTS
  NClients = 2
  Inputs <- TwoLines
  BufSize = 2
INVARIANTS
  OpenWhileServed
PROPERTIES
  Streams
  Answered
CHECK_DEADLOCK FALSE
