CONSTANTS
  w1 = w1
  w2 = w2
  NoProc = NoProc
  StateLock = StateLock
  Judge = Judge
  Spare = Spare
  Proc = {w1, w2}
  Model = {Judge, Spare}
  Account <- MCAccount
  File <- MCFile
  AgeLimit <- MCAgeLimit
  Overloaded = 1
  Probe = 2
  Escalated = 3
  Window = 2
  MaxPolls = 1
  MaxJobs = 1
  MaxLimits = 2
  MaxDead = 1
SPECIFICATION Spec
INVARIANTS TypeOK OneCallPerAccount AccountWideEndsTogether
PROPERTIES OverloadKeepsQuota KeepsBook
SYMMETRY Symmetry
CHECK_DEADLOCK FALSE
