CONSTANTS
  MaxIssue = 4
  Workers = 1
  PerCycle = 1
  MaxMoves = 1
  MaxWaits = 1
  MaxReturns = 1
  MaxCools = 1
  MaxFaults = 1
SPECIFICATION FairSpec
INVARIANTS PulledOnce CommentedOnce
PROPERTIES NeverPulledPast TrustedAreReached OutageEnds
CHECK_DEADLOCK FALSE
