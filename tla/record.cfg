SPECIFICATION Spec
CONSTANTS
  r1 = r1 p1 = p1 p2 = p2 s1 = s1
  Roles = {r1}
  Procs = {p1, p2}
  None = None
  Scopes = {s1}
  ScopeOf <- OneScope
  Durations <- Long
  Ceiling = 2
  Tolerance = 1
  MinActive = 3
  MaxLag = 1
  MaxRun = 1
  Ahead = 0
  SlipSizes <- NoStep
  MaxRequests = 2
  MaxCommands = 3
  Commands <- ActorAndWatcher
  Elsewhere = FALSE
  LastChange = 4
  MaxTime = 5
  Told = {TRUE, FALSE}
  Flock = TRUE
CHECK_DEADLOCK FALSE
INVARIANTS TypeOK UpdatesAreAtomic GivenUpStaysDenied NoLossButMislisted
PROPERTIES KeptButForOldAnswer ImplementsAtomicUpdates
