CONSTANTS
  Texts <- SomeTexts
SPECIFICATION Spec
CHECK_DEADLOCK FALSE
INVARIANT ScannersAgree
INVARIANT ClientFindsTheTokens
INVARIANT SignatureIsOfTheCall
