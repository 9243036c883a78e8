SPECIFICATION FairSpec
CONSTANTS
  Orders <- ThreeOrMore
  NStart <- Starts
INVARIANTS
  AnswerRight
  NoMutualWait
  
PROPERTIES
  LoopEnds
