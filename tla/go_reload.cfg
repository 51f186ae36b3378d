SPECIFICATION FairSpec
CONSTANTS
  Deps = {d1, d2}
  NoTable = NoTable
  PushStatus = {}
  Gateways = {g1}
  Kinds = {"go"}
  CanaryPct = 25000
  MaxVersions = 3
  MaxFailures = 2
PROPERTIES AlwaysCatchesUp
