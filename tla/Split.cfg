SPECIFICATION SplitSpec
CONSTANTS
  Chars <- Alphabet
  Sep = " "
  Lines <- ShortLines
INVARIANTS
  RoomForTerminator
  ReturnsWords
