CONSTANTS
  e1 = e1
  e2 = e2
  Edit = {e1, e2}
  NoRef = NoRef
  MaxFaults = 3
  MaxCrashes = 2
  MaxRuns = 4
SYMMETRY Symmetry
SPECIFICATION Spec
INVARIANTS
  WorkNeverDestroyed
CHECK_DEADLOCK FALSE
