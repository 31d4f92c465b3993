SPECIFICATION Spec
CONSTANTS
  Offers <- MonthlyAndYearly
  SignUps <- StartSmall
  Month = 2
  YearMonths = 2
  Passes = {cron}
  Hooks = {w1}
  MaxTime = 3
  MaxChanges = 1
  MaxCrashes = 1
  Api = api
  None = None
  cron = cron
  w1 = w1
  w2 = w2
INVARIANTS
  TypeOK
  MonthsInOrder
  RowsAgree
  CeilingIsPaid
  GrantsArePaid
CHECK_DEADLOCK FALSE
