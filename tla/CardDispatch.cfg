CONSTANTS
  c1 = c1
  c2 = c2
  NoTask = NoTask
  Task = {c1, c2}
  Workers = 1
  MaxPid = 3
  RetryBudget = 1
  CrashLimit = 2
  ScanCrashLimit = 1
  MaxStarts = 1
  MaxVerbs = 0
  MaxFilings = 2
  Survivors = FALSE
  ClaimMayFail = FALSE
  SplitReads = FALSE
SPECIFICATION Spec
SYMMETRY Symmetry
INVARIANTS OneWriter ReparkIsAnnounced ExitLeavesNoChild SlotsBoundWorkers
PROPERTIES DoneIsFinal
CHECK_DEADLOCK FALSE
