CONSTANTS
  Alphabets <- SomeAlphabets
  MaxLength = 5
  GivenTrees <- SomeTrees
SPECIFICATION Spec
CHECK_DEADLOCK FALSE
INVARIANT OperatorsBindUnlessSwallowed
INVARIANT EndsAreBound
INVARIANT FormattingKeepsTheTree
