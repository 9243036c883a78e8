SPECIFICATION FifosFairSpec
CONSTANTS
  Max = 2
  Inputs <- ThreeLines
  Cap1 = 2
  Cap2 = 3
INVARIANTS
  FifosTypeOK
PROPERTIES
  Delivered
  AcceptsUntilDeaf
  WritersGetOn
  Stream
CHECK_DEADLOCK FALSE
