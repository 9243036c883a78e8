SPECIFICATION FairSpec
CONSTANTS
  Scripts <- BothFramings
  Files = {"regular", "missing", "empty", "endsInFF"}
INVARIANTS
  NoMutualWait
  StopOnlyWhenTold
  GoodbyeHeeded
  EchoesInOrder
PROPERTIES
  Serves
  Ends
