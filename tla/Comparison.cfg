CONSTANTS
  Alphabet <- MCAlphabet
  Terms <- MCTerms
  Trees <- MCTrees
  Modes <- MCModes
  Normal <- MCNormal
  Unwritable <- MCUnwritable
SPECIFICATION Spec
CHECK_DEADLOCK FALSE
INVARIANT FailMeansDifferent
INVARIANT SymbolsAreToldApart
PROPERTY EvidenceDecides
PROPERTY ComparisonEnds
