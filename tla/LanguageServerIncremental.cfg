CONSTANTS
  Uris = {"a.facet", "b.facet"}
  Chunks = {"x", "quote"}
  Quotes = {"quote"}
  Cancels = TRUE
  MaxText = 2
  MaxSent = 3
SPECIFICATION Spec
CHECK_DEADLOCK FALSE
INVARIANT CacheCatchesUp
