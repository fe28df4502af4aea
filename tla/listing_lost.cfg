SPECIFICATION Spec
CONSTANTS
  Contexts = {1, 2}
  a1 = a1
  a2 = a2
  Scopes <- MCScopes
  ContextOf <- MCContextOf
  Under <- MCUnder
  Eligible <- MCEligibleBelow
  Whole = whole
  Eligibilities = eligibilities
  NoCache = nocache
  Kinds = {"none", "listed"}
  Commands = {"status"}
  MaxScopeFanOut = 2
  MaxPages = 1
  MaxOthers = 1
INVARIANT LostIsAnswered
