CONSTANTS
  c1 = c1
  Cause = {c1}
  DiagnoseBudget = 2
  ValidateRejectBudget = 2
  CiRetryBudget = 1
  MainMovedRegateBudget = 1
  TransientRetryBudget = 1
  PoolWaits = 1
  MergeWaitResumeMax = 1
  HopLimit = 13
  MaxReplies = 1
SPECIFICATION FairSpec
INVARIANTS DoneOnlyLanded EveryWayBackIsPaid SpentWithinBudgets
PROPERTIES EnqueuesOnlyProven CardSettles
CHECK_DEADLOCK FALSE
