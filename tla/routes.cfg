SPECIFICATION FairSpec
CONSTANTS
  Deps = {d1, d2}
  NoTable = NoTable
  PushStatus = {}
  Gateways = {g1}
  Kinds = {"thread", "async", "go"}
  CanaryPct = 25000
  MaxVersions = 3
  MaxFailures = 2
INVARIANTS TypeOK NeverTorn
PROPERTIES NeverGoesBack CatchesUp
