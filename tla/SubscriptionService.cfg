SPECIFICATION FairSpec
CONSTANTS
  Offers <- YearlyAndMonthly
  SignUps <- StartAny
  Month = 1
  YearMonths = 2
  Passes = {cron}
  Hooks = {w1}
  MaxTime = 2
  MaxChanges = 1
  MaxCrashes = 0
  Api = api
  None = None
  cron = cron
  w1 = w1
  w2 = w2
PROPERTIES
  DueMonthsGranted
  PaidChangesApplied
CHECK_DEADLOCK FALSE
