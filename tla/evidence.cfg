SPECIFICATION FairSpec
CONSTANTS
  Commits = {a, b}
  NoCommit = NoCommit
  NumSuites = 2
  Threads = {t1, t2}
  CI = CI
  Operator = Operator
  Results = {"ALLOW", "BLOCK"}
  Partial = {"INSUFFICIENT_DATA"}
  MaxIngests = 2
  MaxDeliveries = 2
  MaxCrashes = 1
CHECK_DEADLOCK FALSE
INVARIANTS TypeOK GateSeesWholeRuns VerdictIsCurrent
PROPERTIES BlockedIsNotGreen ReconcileSettles
