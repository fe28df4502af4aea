SPECIFICATION Spec
CONSTANTS
  r1 = r1
  r2 = r2
  Roles = {r1, r2}
  Main = Main
  None = None
  Filters = {TRUE, FALSE}
  Entries = {"none", "confirming", "listed"}
  Soft = 1
  Budget = 2
  Horizon = 3
SYMMETRY Symmetry
INVARIANTS
  TypeOK
  NotActiveIsUncontradicted
  HeldIsNotDenied
  WideningIsComplete
PROPERTIES
  NeverAskedAgain
