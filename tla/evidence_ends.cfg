SPECIFICATION FairSpec
CONSTANTS
  r1 = r1
  r2 = r2
  Roles = {r1, r2}
  Main = Main
  None = None
  Filters = {TRUE}
  Entries = {"none"}
  Soft = 1
  Budget = 1
  Horizon = 2
PROPERTIES
  Terminates
