SPECIFICATION ProgressSpec
CONSTANTS
  Jobs <- ChainJobs
  Depth = 2
  Level <- ChainLevel
  Preds <- ChainPreds
  Downstream <- ChainDownstream
  JobAttempts = 1
  ParentAttempts = 2
INVARIANTS
  PaidAfterInputs
  SummaryIsHonest
PROPERTIES
  RunEnds
CHECK_DEADLOCK FALSE
