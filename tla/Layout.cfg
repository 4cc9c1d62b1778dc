CONSTANTS
  Lines <- SomeLines
  MaxIndent = 2
  MaxTokens = 9
SPECIFICATION Spec
CONSTRAINT ShortOrBlocks
CHECK_DEADLOCK FALSE
INVARIANT TypeOK
INVARIANT BlocksBalance
INVARIANT ColumnsGrow
INVARIANT BlocksAreAnnounced
INVARIANT ColumnsAreBlocks
INVARIANT LinesAreWhole
