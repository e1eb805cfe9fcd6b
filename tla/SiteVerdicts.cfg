CONSTANTS
  unit = unit
  cover = cover
  Check = {unit, cover}
  LatePolls = 1
  DiedPolls = 1
  CiPolls = 2
  MaxJobs = 2
  MaxShas = 2
  MaxRuns = 2
  MaxRechecks = 1
  MaxFaults = 1
SPECIFICATION FairSpec
INVARIANTS GateAnswersItsJob SupersededIsNotJudged OneRerunPerCommit
PROPERTIES VisitEnds
CHECK_DEADLOCK FALSE
