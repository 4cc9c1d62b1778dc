CONSTANTS
  Trees <- MCTrees
  Replies <- MCReplies
  Prime = 97
  Points <- MCPoints
  MaxCalls = 1
SPECIFICATION Spec
CHECK_DEADLOCK FALSE
INVARIANT SourceMeansTheTree
INVARIANT ResultKeepsTheValue
INVARIANT ResultsCanBeSent
INVARIANT AssumptionsFollow
INVARIANT GapsAreReported
