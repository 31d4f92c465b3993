SPECIFICATION SpecReserving
CONSTANTS
  Grants = {"g1", "g2", "g3"}
  PublicGrants = {"g2"}
  Amount <- MCAmount
  Runs = {"r1", "r2"}
  Jobs = {"a", "b", "c"}
  Plan <- MCPlan
  Quote <- MCQuote
  Hold <- MCHold
  Limits = {2}
  Settlers = {"s1", "s2"}
  Reversals = {"e1"}
INVARIANTS
  BooksAgree
  RowsAddUp
  ReservationsAddUp
  LoopComputesShares
PROPERTIES
  KeepsPurse
  ReservesAtOnce
CHECK_DEADLOCK FALSE
