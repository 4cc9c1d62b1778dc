CONSTANTS
  Names = {"a"}
  Heads = {"f"}
  Keys = {1, 2}
  Numerals = {"1", "0", "x"}
  Digits = {"1", "0"}
  Zeroes = {"0"}
  Mix <- MCMix
  MaxNodes = 3
  MaxArgs = 1
  MaxAttrs = 2
SPECIFICATION Spec
INVARIANT TypeOK
INVARIANT HashConsed
INVARIANT IndexExact
INVARIANT AnswersTheRequest
PROPERTY InternerSpec
