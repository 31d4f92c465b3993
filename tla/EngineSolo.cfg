SPECIFICATION FairSpec
CONSTANTS
  Jobs = {"a"}
  Depth = 1
  Level <- SoloLevel
  Preds <- SoloNone
  Downstream <- SoloNone
  JobAttempts = 2
  ParentAttempts = 2
INVARIANTS
  CaptureIffSucceeded
  AtMostOneSubmission
  SpendIsTracked
  AckedIsQuiet
  SuccessIsUsable
PROPERTIES
  JobOutcomeFinal
  KeepsPromise
  CreditsSettle
  CancellationAcknowledged
CHECK_DEADLOCK FALSE
