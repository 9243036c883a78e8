SPECIFICATION PipeFairSpec
CONSTANTS
  Max = 2
  Inputs <- ThreeLines
  Cap = 3
INVARIANTS
  PipeTypeOK
  AllDoubledAtEnd
  JunkOnlyAtFirst
PROPERTIES
  BothEnd
  Stream
CHECK_DEADLOCK FALSE
