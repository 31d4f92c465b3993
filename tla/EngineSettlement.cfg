SPECIFICATION FairSpec
CONSTANTS
  Jobs = {"a"}
  Depth = 1
  Level <- SoloLevel
  Preds <- SoloNone
  Downstream <- SoloNone
  JobAttempts = 1
  ParentAttempts = 1
PROPERTIES
  SettlementEnds
CHECK_DEADLOCK FALSE
