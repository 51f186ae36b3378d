SPECIFICATION Spec
CONSTANTS
  a = a
  b = b
  p = p
  Deps = {a, b}
  Orchs = {o1, o2}
  NoTable = NoTable
  PushStatus = {}
  Irreversible = {b}
  SeedSealed = {a, b}
  Pointers <- MCPointers
  Migration <- MCMigration
  CanaryPct = 50000
  MaxVersions = 1
  MaxRollbacks = 2
  MaxCrashes = 1
INVARIANTS SplitStateIsOwned
CHECK_DEADLOCK FALSE
