SPECIFICATION SpecAll
CONSTANTS
  Grants = {"g1", "g2"}
  PublicGrants = {}
  Amount <- MCAmount
  Runs = {"r1"}
  Jobs = {"a"}
  Plan <- MCPlan
  Quote <- MCQuote
  Hold <- MCHold
  Limits = {0}
  Settlers = {"s1"}
  Reversals = {}
  Payments = {"p1", "p2"}
  GrantsOf <- MCGrantsOf
  PartialDisputes = {"p2"}
  Workers = {w1, w2}
  MaxEvents = 3
INVARIANTS
  ReversalsExact
  RefundFollowsStripe
  UnclearIsReviewed
  DisputedIsUnspendable
VIEW Progressed
SYMMETRY WorkersAlike
CHECK_DEADLOCK FALSE
