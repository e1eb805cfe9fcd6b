CONSTANTS
  w1 = w1
  w2 = w2
  w3 = w3
  Proc = {w1, w2, w3}
  NoProc = NoProc
  RepoLock = RepoLock
  File = {RepoLock}
  AgeLimit <- MCAgeLimit
  Workers = 2
  MaxFaults = 1
  MaxDead = 1
SPECIFICATION Spec
SYMMETRY Symmetry
INVARIANTS OneInside NoForgottenReinstall
CHECK_DEADLOCK FALSE
