CONSTANTS
  Uris = {"a.facet", "b.facet"}
  Chunks = {"quote"}
  Quotes = {"quote"}
  Cancels = TRUE
  MaxText = 2
  MaxSent = 4
SPECIFICATION Spec
CHECK_DEADLOCK FALSE
INVARIANT AnswersFit
INVARIANT EditsArrive
PROPERTY ServerLeaves
PROPERTY ServiceSpec
