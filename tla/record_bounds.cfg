SPECIFICATION FairSpec
CONSTANTS
  r1 = r1 p1 = p1 p2 = p2 s1 = s1
  Roles = {r1}
  Procs = {p1, p2}
  None = None
  Scopes = {s1}
  ScopeOf <- OneScope
  Durations <- Never
  Ceiling = 1
  Tolerance = 1
  MinActive = 1
  MaxLag = 1
  MaxRun = 1
  Ahead = 1
  SlipSizes <- StepOne
  MaxRequests = 1
  MaxCommands = 1
  Commands <- ActorAndWatcher
  Elsewhere = TRUE
  LastChange = 2
  MaxTime = 8
  Told = {TRUE}
  Flock = TRUE
CHECK_DEADLOCK FALSE
INVARIANTS ClaimsAreBounded HiddenBriefly
PROPERTIES Converges
