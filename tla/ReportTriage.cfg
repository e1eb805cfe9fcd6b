CONSTANTS
  r1 = r1
  k = k
  Report = {r1}
  Key = {k}
  Anchor <- AnchorDef
  Cap = 2
  MaxTroubles = 2
  MaxCrashes = 1
  MaxCommands = 1
SPECIFICATION FairSpec
INVARIANTS OneClaimant OneVerdict FiledOnce AttemptsAreCapped
 
CHECK_DEADLOCK FALSE
