SPECIFICATION Spec
CONSTANTS
  Deps = {d1, d2, d3}
  Conns = {c1, c2}
  NoConn = NoConn
  NoTable = NoTable
  CanaryPcts = {50000, 93750, 99999}
  PushStatus = {"ready"}
  MaxVersions = 3
PROPERTIES ReportedPromotionIsInstalled
