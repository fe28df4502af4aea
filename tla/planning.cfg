SPECIFICATION Spec
CONSTANTS
  Schedules <- MCSchedules
  GrantOf <- MCGrantOf
  ScopeList <- MCScopeList
  Above <- MCAbove
  NameOf <- MCNameOf
  Worlds <- MCWorlds
  PolicyAt <- MCPolicyAt
  OldPolicyAt <- MCOldPolicyAt
  Requirements <- MCRequirements
  TypedKeys <- MCTypedKeys
  Presets <- MCPresets
  Evidence <- MCEvidence
  Leftovers <- MCLeftovers
  Flags <- MCFlags
  Asked <- MCAsked
  ListingTTL = 1
  PolicyTTL = 1
  Bulk = 1
  MaxUnattended = 1
  MaxTime = 1
  MaxChanges = 1
  MaxScopes = 2
  Height = 2
  Chars = {"r", "w", " "}
  Terminals = {5, 6}
  MaxFilter = 1
INVARIANTS TypeOK NothingUnresolved ConsentCovers
PROPERTIES WindowsAreKept PickerKeepsItsPlace
