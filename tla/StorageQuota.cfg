SPECIFICATION Spec
CONSTANTS
  Uploads <- OneUpload
  Outputs <- TwoOutputs
  Jobs <- OneJob
  JobOf <- SameJob
  Size <- Bytes
  Hold <- ThreeHeld
  Limits = {4, 6}
  Sweeps = {"s1", "s2"}
INVARIANTS
  TypeOK
  UsageAddsUp
  CommittedHasObject
PROPERTIES
  QuotaKept
CHECK_DEADLOCK FALSE
