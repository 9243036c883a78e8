SPECIFICATION FairSpec
CONSTANTS
  NThreads = 2
  NItems = 3
  MaxSpurious = 1
INVARIANTS
  ItemInPlace
  Accounting
  WaitersHaveRescuer
  CountsNeverOverstate
PROPERTIES
  FairHandoff
  MainReturnsUnlessOneTookAll
CHECK_DEADLOCK FALSE
