CONSTANTS
  Trees <- SomeTrees
  Height <- HeightOf
  Keys <- AttrKeys
  MaxWrites = 3
SPECIFICATION Spec
CHECK_DEADLOCK FALSE
INVARIANT ConversionsKeepTheTree
