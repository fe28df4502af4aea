SPECIFICATION Spec
CONSTANTS
  Runs = {p1, p2}
  Clears = {c}
  Accounts = {alice, guest}
  alice = alice
  guest = guest
  NoAccount = none
  FirstLogin = alice
  TenantOf <- MCTenantOf
  UserOf <- MCUserOf
  PinnedTenant = "t1"
  MaxSwitches = 1
  MaxShowFailures = 1
SYMMETRY Interchangeable
INVARIANTS TypeOK SelectedIsServed DroppedIsGone ClearLeavesNothing NothingRecordedIsLost
