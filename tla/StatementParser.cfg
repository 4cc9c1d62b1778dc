CONSTANTS
  Lines <- StatementLines
  Expressions <- SomeExpressions
  MaxIndent = 2
  MaxTokens = 18
SPECIFICATION ParserSpec
CONSTRAINT ShortOrBlocks
CHECK_DEADLOCK FALSE
INVARIANT ParserTypeOK
INVARIANT NestingIsIndentation
INVARIANT WholeLinesAreRead
INVARIANT StatementsAreLinesOrRunOn
INVARIANT ReadsEveryLine
