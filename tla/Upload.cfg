SPECIFICATION FairSpec
CONSTANTS
  Clients = {c1, c2}
  NoClient = NoClient
  Max = 3
  Address = 2
  Inputs <- Lines
  Memories <- TwoMemories
  Limits <- OneOrTwo
  Room = 6
INVARIANTS
  PrintedInOrder
  StrayOnlyAtFirst
  NoneAbandoned
PROPERTIES
  AllServed
  NoStuckWriter
CHECK_DEADLOCK FALSE
