CONSTANTS
  Alphabets <- Differences
  MaxLength = 5
  GivenTrees <- NoTrees
SPECIFICATION Spec
CHECK_DEADLOCK FALSE
INVARIANT OperatorsBind
