CONSTANTS
  c1 = c1
  c2 = c2
  NoTask = NoTask
  Task = {c1}
  Workers = 1
  MaxPid = 4
  RetryBudget = 0
  CrashLimit = 1
  ScanCrashLimit = 1
  MaxStarts = 2
  MaxVerbs = 1
  MaxFilings = 1
  Survivors = TRUE
  ClaimMayFail = TRUE
  SplitReads = TRUE
SPECIFICATION Spec
INVARIANTS OneWorker
CHECK_DEADLOCK FALSE
