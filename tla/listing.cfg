SPECIFICATION Spec
CONSTANTS
  Contexts = {1, 2}
  a1 = a1
  a2 = a2
  Scopes <- MCScopes
  ContextOf <- MCContextOf
  Under <- MCUnder
  Eligible <- MCEligible
  Whole = whole
  Eligibilities = eligibilities
  NoCache = nocache
  Kinds = {"none", "listed"}
  Commands = {"list", "status", "up"}
  MaxScopeFanOut = 2
  MaxPages = 1
  MaxOthers = 1
INVARIANTS TypeOK MissedIsUnread EveryContextIsAccountedFor ExitOkIsComplete
PROPERTIES OnlyCompleteIsCached NothingLostUnread
