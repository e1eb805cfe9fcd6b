CONSTANTS
  c1 = c1
  c2 = c2
  NoTask = NoTask
  Task = {c1}
  Workers = 1
  MaxPid = 5
  RetryBudget = 0
  CrashLimit = 2
  ScanCrashLimit = 2
  MaxStarts = 2
  MaxVerbs = 1
  MaxFilings = 1
  Survivors = FALSE
  ClaimMayFail = FALSE
  SplitReads = FALSE
SPECIFICATION FairSpec
INVARIANTS OneWriter
PROPERTIES ParkIsFinal EveryCardSettles
CHECK_DEADLOCK FALSE
