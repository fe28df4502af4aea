SPECIFICATION Spec
CONSTANTS
  i1 = i1 i2 = i2 i3 = i3
  Items = {i1, i2}
  None = None
  RequestTypes = {"SelfActivate"}
  SeenActive = {i1}
  NoWait = FALSE
  FromCache = FALSE
  MaxConcurrency = 2
  MaxRetries = 0
INVARIANTS RejectedPolicyIsDropped

