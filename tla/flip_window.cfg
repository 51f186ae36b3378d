SPECIFICATION Spec
CONSTANTS
  a = a
  b = b
  p = p
  Deps = {a, b, p}
  Orchs = {o1}
  NoTable = NoTable
  PushStatus = {"ready"}
  Irreversible = {b, p}
  SeedSealed = {a, b}
  Pointers <- MCPointers
  Migration <- MCMigration
  CanaryPct = 50000
  MaxVersions = 2
  MaxRollbacks = 1
  MaxCrashes = 1
INVARIANTS FlippedIsResumable
