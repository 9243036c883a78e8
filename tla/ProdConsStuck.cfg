SPECIFICATION FairSpec
CONSTANTS
  NThreads = 2
  NItems = 2
  MaxSpurious = 0
PROPERTIES
  MainReturns
CHECK_DEADLOCK FALSE
