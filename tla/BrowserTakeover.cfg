SPECIFICATION FairSpec
CONSTANTS
  Jobs <- ChainJobs
  Preds <- ChainPreds
  Downstream <- ChainDownstream
  Sessions = {1, 2}
  Tabs = {"t1", "t2"}
  TabChoices <- OneOrTwoTabs
  JobMaxAttempts = 2
  MaxFence = 2
INVARIANTS
  SpendIsTracked
  PaidAfterInputs
PROPERTIES
  KeepsPromise
  RunEnds
CHECK_DEADLOCK FALSE
