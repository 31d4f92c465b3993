-------------------------- MODULE CreditReservation ---------------------------
(***************************************************************************)
(* The credit book with the admission of a run in its steps:                *)
(* reserveRunCredits checks the account, lists the grants, computes in its  *)
(* loop what each job draws, and writes what the loop has computed.  The    *)
(* lock of the account is held meanwhile, so that only settlers that are    *)
(* still in front of the lock move in between.                             *)
(***************************************************************************)
EXTENDS CreditAccounting, CreditAllocation

VARIABLES
  serving,     \* the run that is being admitted, while the lock is held
  funding      \* the grants that were listed for it

reserving == <<serving, funding, loopVars>>

InitReserving ==
  /\ Init
  /\ serving = {} /\ funding = <<>>
  /\ quotes = <<>> /\ grants = <<>> /\ drawn = <<>>
  /\ job = 0 /\ remaining = 0 /\ grantIndex = 1 /\ currentGrantRemaining = 0

\* The members of a set of grants, one after another by their rank.
InOrder(G, rank) ==
  [k \in 1..Cardinality(G) |->
     CHOOSE g \in G : Cardinality({h \in G : rank[h] < rank[g]}) = k - 1]

Unspent == {g \in Issued : grant[g].available > 0}

\* Mutation: the oldest grant first, whatever the visibility of its outputs.
FundedByAge == InOrder(Unspent, [g \in Unspent |-> Position(issued, g)])

\* The grants that still have credits, in the order of the query.
Funded == InOrder(Unspent, DrawOrder)

\* reserveRunCredits up to its loop.
BeginReserve(r) ==
  /\ serving = {} /\ Admissible(r)
  /\ serving' = {r} /\ funding' = Funded
  /\ quotes' = [i \in DOMAIN Plan[r] |-> Quote[Plan[r][i]]]
  /\ grants' = [k \in DOMAIN Funded |-> grant[Funded[k]].available]
  /\ Total(grants') >= RunQuote[r]
  /\ job' = 0 /\ remaining' = 0
  /\ grantIndex' = 1 /\ currentGrantRemaining' = FirstOf(grants')
  /\ drawn' = [i \in DOMAIN quotes' |-> [k \in DOMAIN grants' |-> 0]]
  /\ UNCHANGED vars

\* What job j has drawn from grant g when the loop is over.
DrawnBy(r, j, g) ==
  IF g \in Range(funding) THEN drawn[Position(Plan[r], j)][Position(funding, g)] ELSE 0

\* reserveRunCredits after its loop.
FinishReserve(r) ==
  /\ serving = {r} /\ remaining = 0 /\ job = Len(quotes)
  /\ WriteReservation(r, [j \in JobsOf[r] |-> [g \in Grants |-> DrawnBy(r, j, g)]])
  /\ serving' = {} /\ funding' = <<>>
  /\ quotes' = <<>> /\ grants' = <<>> /\ drawn' = <<>>
  /\ job' = 0 /\ remaining' = 0 /\ grantIndex' = 1 /\ currentGrantRemaining' = 0

\* The transactions that wait for the lock.
Locked ==
  \/ \E g \in Grants : AppendGrant(g)
  \/ \E s \in Settlers : Settle(s)
  \/ \E g \in Grants, e \in Reversals : Reverse(g, e)

NextReserving ==
  \/ \E r \in Runs : BeginReserve(r) \/ FinishReserve(r)
  \/ serving # {} /\ LoopNext /\ UNCHANGED <<vars, serving, funding>>
  \/ serving = {} /\ Locked /\ UNCHANGED reserving
  \/ (\E s \in Settlers, j \in Jobs, o \in Outcome : BeginSettle(s, j, o)) /\ UNCHANGED reserving

SpecReserving == InitReserving /\ [][NextReserving]_<<vars, reserving>>

-----------------------------------------------------------------------------
\* An admission comes to the single step Reserve of CreditAccounting: what the loop
\* of reserveRunCredits has computed when it stops is what the quotes, laid end to
\* end, draw from the grants, private ones first, and no settlement that saw an
\* older book changes that.
ReservesAtOnce == Spec

=============================================================================
