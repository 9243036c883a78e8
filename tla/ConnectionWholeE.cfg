SPECIFICATION Spec
CONSTANTS
  Scripts <- WholeE
  Files = {"regular"}
INVARIANTS
  EchoAnswered
