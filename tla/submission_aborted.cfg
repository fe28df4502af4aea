SPECIFICATION Spec
CONSTANTS
  i1 = i1 i2 = i2 i3 = i3
  Items = {i1}
  None = None
  RequestTypes = {"SelfActivate"}
  SeenActive = {i1}
  NoWait = FALSE
  FromCache = TRUE
  MaxConcurrency = 2
  MaxRetries = 1
INVARIANTS AbortedIsInterrupted

