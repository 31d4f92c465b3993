SPECIFICATION SpecAll
CONSTANTS
  Grants = {"g1", "g2"}
  PublicGrants = {}
  Amount <- MCAmount
  Runs = {"r1"}
  Jobs = {"a"}
  Plan <- MCPlan
  Quote <- OneQuote
  Hold <- MCHold
  Limits = {0}
  Settlers = {"s1"}
  Reversals = {}
  Payments = {"p1"}
  GrantsOf <- PairOf
  PartialDisputes = {}
  Workers = {"w1", "w2"}
  MaxEvents = 3
INVARIANTS
  DisputeFollowsStripe
CHECK_DEADLOCK FALSE
