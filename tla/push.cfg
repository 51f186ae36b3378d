SPECIFICATION FairSpec
CONSTANTS
  Deps = {a, b}
  NoTable = NoTable
  PushStatus = {"queued", "building", "ready"}
  Pushers = {p1, p2}
  Ports = {q1, q2}
  NoPort = NoPort
  Nobody = Nobody
  HardCoded = HardCoded
  First = a
  SuitePrefs <- MCSuitePrefs
  Bound = 2
  Level = 400
CHECK_DEADLOCK FALSE
INVARIANTS TypeOK NothingOutlivesItsPush PreviewAnswers StreamedIsOwn ActiveServes NeverContradict
PROPERTIES PushEnds
