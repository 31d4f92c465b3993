--------------------------- MODULE CreditAccounting ---------------------------
(***************************************************************************)
(* The credit book of one organization: grants, the balance projection, the *)
(* run reservations with their per-job items and per-grant allocations, the *)
(* append-only ledger, and the storage holds that travel with them.         *)
(*                                                                         *)
(* Every transaction locks the organization's account row first, so they   *)
(* run one after another; but a settlement decides whether there is        *)
(* anything to settle before it has the lock, so several settlers of the   *)
(* same job may stand in front of it with different outcomes.              *)
(***************************************************************************)
EXTENDS CreditSpans, Sequences, FiniteSets

CONSTANTS
  Grants, PublicGrants,  \* grants; those whose outputVisibility is public
  Amount,                \* Amount[g], the originalCredits of a grant
  Runs, Jobs,
  Plan,                  \* Plan[r], the jobs of a run in plan order
  Quote,                 \* Quote[j], quotedCredits
  Hold,                  \* Hold[j], the bytes held for the outputs of j
  Limits,                \* byte limits of the plans the organization may be on
  Settlers,              \* processes that may settle jobs at the same time
  Reversals              \* identities of the external events that reverse grants

JobsOf   == [r \in Runs |-> Range(Plan[r])]
RunQuote == [r \in Runs |-> SumFunctionOnSet(Quote, JobsOf[r])]

ASSUME BookAssumption ==
  /\ IsFiniteSet(Grants) /\ IsFiniteSet(Jobs)
  /\ PublicGrants \subseteq Grants
  /\ Amount \in [Grants -> Nat \ {0}]
  /\ Plan \in [Runs -> Seq(Jobs)]
  /\ \A r \in Runs : IsInjective(Plan[r])
  /\ \A r, s \in Runs : r # s => JobsOf[r] \cap JobsOf[s] = {}
  /\ Quote \in [Jobs -> Nat \ {0}]
  /\ Hold \in [Jobs -> Nat]
  /\ Limits \subseteq Nat

VARIABLES
  account,      \* managedExecutionStatus and managedExecutionReason
  issued,       \* the grants appended so far, in the order of createdAt
  grant,        \* creditGrants
  balance,      \* creditBalances
  ledger,       \* creditLedgerEntries; their key is the event with the grant
  reservation,  \* creditReservations, with the creditCost of the run
  item,         \* status of the creditReservationItems, which the jobs'
                \* creditSettlement repeats
  draw,         \* creditReservationAllocations: draw[j][g] credits of g for j
  storage,      \* organizationStorageUsage and the byte limit of the plan
  hold,         \* generationJobs.storageReservedBytes
  settler       \* settlements that saw a reserved item and wait for the lock

book == <<issued, grant, balance, ledger, reservation, item, draw>>
vars == <<account, book, storage, hold, settler>>

Outcome == {"captured", "released"}
Reason  == {"none", "payment_refunded", "payment_disputed",   \* why it is blocked
            "partial_refund_manual_review"}
Idle    == [job |-> "none"]
NoGrant == [available |-> 0, reserved |-> 0, captured |-> 0, reversed |-> 0]
NoReservation ==
  [status |-> "none", reserved |-> 0, captured |-> 0, released |-> 0, cost |-> 0]

TypeOK ==
  /\ account \in [status : {"active", "blocked_review"}, reason : Reason]
  /\ issued \in Seq(Grants)
  /\ grant \in [Grants -> [available : Nat, reserved : Nat, captured : Nat, reversed : Nat]]
  /\ balance \in [available : Nat, reserved : Nat]
  /\ reservation \in [Runs -> [status : {"none", "reserved", "partial"} \cup Outcome,
                               reserved : Nat, captured : Nat, released : Nat, cost : Nat]]
  /\ item \in [Jobs -> {"none", "reserved"} \cup Outcome]
  /\ draw \in [Jobs -> [Grants -> Nat]]
  /\ storage \in [used : Nat, reserved : Nat, limit : Limits]
  /\ hold \in [Jobs -> Nat]
  /\ settler \in [Settlers -> [job : Jobs, outcome : Outcome] \cup {Idle}]

Init ==
  /\ account = [status |-> "active", reason |-> "none"]
  /\ issued = <<>>
  /\ grant = [g \in Grants |-> NoGrant]
  /\ balance = [available |-> 0, reserved |-> 0]
  /\ ledger = {}
  /\ reservation = [r \in Runs |-> NoReservation]
  /\ item = [j \in Jobs |-> "none"]
  /\ draw = [j \in Jobs |-> [g \in Grants |-> 0]]
  /\ storage \in [used : {0}, reserved : {0}, limit : Limits]
  /\ hold = [j \in Jobs |-> 0]
  /\ settler = [s \in Settlers |-> Idle]

-----------------------------------------------------------------------------
(* Helpers.                                                                *)

Issued   == Range(issued)
RunHold  == [r \in Runs |-> SumFunctionOnSet(Hold, JobsOf[r])]

Blocked(reason) == [status |-> "blocked_review", reason |-> reason]

\* Mutation: the entry forgets the reserved credits.
EntryAvailable(event, g, available, reserved) ==
  [event |-> event, grant |-> g, available |-> available, reserved |-> 0]

Entry(event, g, available, reserved) ==
  [event |-> event, grant |-> g, available |-> available, reserved |-> reserved]
Recorded(event, g) == \E e \in ledger : e.event = event /\ e.grant = g

Position(seq, x) == CHOOSE i \in DOMAIN seq : seq[i] = x

\* Reservations draw private grants first, then by age.
DrawOrder == [g \in Issued |->
  Position(issued, g) + IF g \in PublicGrants THEN Len(issued) ELSE 0]

\* The credits that are drawn before those of g.
Ahead(g) ==
  SumFunctionOnSet([h \in Issued |-> grant[h].available],
                   {h \in Issued : DrawOrder[h] < DrawOrder[g]})

\* What the run's jobs draw from the grants: the quotes laid end to end in plan
\* order over the available credits laid end to end in draw order.
Allocation(r) ==
  LET quotes == [i \in DOMAIN Plan[r] |-> Quote[Plan[r][i]]]
      end(j) == Through(quotes, Position(Plan[r], j))
  IN [j \in JobsOf[r] |-> [g \in Grants |->
        IF g \in Issued
        THEN Overlap(end(j) - Quote[j], end(j), Ahead(g), Ahead(g) + grant[g].available)
        ELSE 0]]

-----------------------------------------------------------------------------
(* Transactions.                                                           *)

\* appendCreditGrant; a replay of the same key changes nothing.
AppendGrant(g) ==
  /\ g \notin Issued
  /\ issued' = Append(issued, g)
  /\ grant' = [grant EXCEPT ![g].available = Amount[g]]
  /\ ledger' = ledger \cup {Entry(<<"grant">>, g, Amount[g], 0)}
  /\ balance' = [balance EXCEPT !.available = @ + Amount[g]]
  /\ UNCHANGED <<account, reservation, item, draw, storage, hold, settler>>

\* The checks of reserveRunCredits; otherwise the admission is refused.
Admissible(r) ==
  /\ reservation[r].status = "none"
  /\ account.status # "blocked_review"
  /\ balance.available >= RunQuote[r]
  /\ storage.used + storage.reserved + RunHold[r] <= storage.limit

\* The writes of reserveRunCredits, when job j draws new[j][g] credits from grant g.
WriteReservation(r, new) ==
  /\ LET drawn == [g \in Grants |-> SumFunction([j \in JobsOf[r] |-> new[j][g]])]
     IN /\ draw' = [j \in Jobs |-> IF j \in JobsOf[r] THEN new[j] ELSE draw[j]]
        /\ grant' = [g \in Grants |->
             IF g \in Issued THEN [grant[g] EXCEPT !.available = @ - drawn[g],
                                                   !.reserved = @ + drawn[g]]
                             ELSE grant[g]]
        /\ ledger' = ledger \cup
             UNION {{Entry(<<"reserve", j>>, g, -new[j][g], new[j][g]) :
                       g \in {x \in Grants : new[j][x] > 0}} : j \in JobsOf[r]}
  /\ item' = [j \in Jobs |-> IF j \in JobsOf[r] THEN "reserved" ELSE item[j]]
  /\ reservation' = [reservation EXCEPT ![r] =
       [NoReservation EXCEPT !.status = "reserved", !.reserved = RunQuote[r]]]
  /\ balance' = [available |-> balance.available - RunQuote[r],
                 reserved  |-> balance.reserved + RunQuote[r]]
  /\ storage' = [storage EXCEPT !.reserved = @ + RunHold[r]]
  /\ hold' = [j \in Jobs |-> IF j \in JobsOf[r] THEN Hold[j] ELSE hold[j]]
  /\ UNCHANGED <<account, issued, settler>>

\* reserveRunCredits: the whole quote or nothing.
Reserve(r) == Admissible(r) /\ WriteReservation(r, Allocation(r))

\* settleGenerationJobCredits, before the lock: there is something to settle.
BeginSettle(s, j, o) ==
  /\ settler[s] = Idle /\ item[j] = "reserved"
  /\ settler' = [settler EXCEPT ![s] = [job |-> j, outcome |-> o]]
  /\ UNCHANGED <<account, book, storage, hold>>

\* Mutation: the larger part decides.
ReservationStatusByPart(r, reserved, captured, released) ==
  IF reserved # 0 THEN "partial"
  ELSE IF captured >= released THEN "captured"
  ELSE "released"

\* The status of a reservation with these remaining and closed parts.
ReservationStatus(r, reserved, captured, released) ==
  IF reserved # 0 THEN "partial"
  ELSE IF captured = RunQuote[r] THEN "captured"
  ELSE IF released = RunQuote[r] THEN "released"
  ELSE "partial"

\* One item is closed: its allocations, the balance, the reservation, the
\* remaining storage hold and the cost of the run move together.
CloseItem(j, o) ==
  LET r == CHOOSE x \in Runs : j \in JobsOf[x]
      res == reservation[r]
      reserved == res.reserved - Quote[j]
      captured == res.captured + IF o = "captured" THEN Quote[j] ELSE 0
      released == res.released + IF o = "released" THEN Quote[j] ELSE 0
      back == IF o = "released" THEN 1 ELSE 0
  IN /\ item' = [item EXCEPT ![j] = o]
     /\ grant' = [g \in Grants |->
          [grant[g] EXCEPT !.reserved = @ - draw[j][g],
                           !.captured = IF o = "captured" THEN @ + draw[j][g] ELSE @,
                           !.available = IF o = "released" THEN @ + draw[j][g] ELSE @]]
     /\ ledger' = ledger \cup
          {Entry(<<o, j>>, g, back * draw[j][g], -draw[j][g]) :
             g \in {x \in Grants : draw[j][x] > 0}}
     /\ balance' = [balance EXCEPT !.reserved = @ - Quote[j],
                                   !.available = IF o = "released" THEN @ + Quote[j] ELSE @]
     /\ reservation' = [reservation EXCEPT ![r] =
          [status |-> ReservationStatus(r, reserved, captured, released),
           reserved |-> reserved, captured |-> captured, released |-> released,
           cost |-> IF reserved = 0 THEN captured ELSE @.cost]]
     /\ storage' = [storage EXCEPT !.reserved = @ - hold[j]]
     /\ hold' = [hold EXCEPT ![j] = 0]

\* Mutation: the item is not read again under the lock.
SettleUnlocked(s) ==
  /\ settler[s] # Idle
  /\ settler' = [settler EXCEPT ![s] = Idle]
  /\ CloseItem(settler[s].job, settler[s].outcome)
  /\ UNCHANGED <<account, issued, draw>>

\* settleGenerationJobCredits, under the lock: the first outcome is final, a
\* later one is a replay.
Settle(s) ==
  /\ settler[s] # Idle
  /\ settler' = [settler EXCEPT ![s] = Idle]
  /\ \/ /\ item[settler[s].job] = "reserved"
        /\ CloseItem(settler[s].job, settler[s].outcome)
     \/ /\ item[settler[s].job] # "reserved"
        /\ UNCHANGED <<grant, balance, ledger, reservation, item, storage, hold>>
  /\ UNCHANGED <<account, issued, draw>>

\* reverseUnusedCreditGrant for the grants G of one payment: what is available
\* is taken back, unless this event already took it.
Reversible(G, event) == {g \in G : ~Recorded(event, g)}

\* Mutation: the credits of running jobs are taken as well.
ReverseReserved(G, event) ==
  LET R == Reversible(G, event) IN
  /\ grant' = [g \in Grants |->
       IF g \in R THEN [grant[g] EXCEPT !.available = 0,
                                        !.reversed = @ + grant[g].available
                                                       + grant[g].reserved]
                  ELSE grant[g]]
  /\ ledger' = ledger \cup {Entry(event, g, -grant[g].available, 0) :
                              g \in {x \in R : grant[x].available > 0}}
  /\ balance' = [balance EXCEPT !.available =
                   @ - SumFunction([g \in R |-> grant[g].available + grant[g].reserved])]
  /\ UNCHANGED <<issued, reservation, item, draw, storage, hold, settler>>

ReverseUnused(G, event) ==
  LET R == Reversible(G, event) IN
  /\ grant' = [g \in Grants |->
       IF g \in R THEN [grant[g] EXCEPT !.available = 0,
                                        !.reversed = @ + grant[g].available]
                  ELSE grant[g]]
  /\ ledger' = ledger \cup {Entry(event, g, -grant[g].available, 0) :
                              g \in {x \in R : grant[x].available > 0}}
  /\ balance' = [balance EXCEPT !.available =
                   @ - SumFunction([g \in R |-> grant[g].available])]
  /\ UNCHANGED <<issued, reservation, item, draw, storage, hold, settler>>

\* Mutation: credits of running jobs do not count as used.
ConsumedCaptured(G, event) == \E g \in Reversible(G, event) : grant[g].captured > 0

\* Part of what is reversed was already used: somebody has to look at it.
Consumed(G, event) ==
  \E g \in Reversible(G, event) : grant[g].captured > 0 \/ grant[g].reserved > 0

Reverse(g, event) ==
  /\ g \in Issued
  /\ ReverseUnused({g}, <<"reverse", event>>)
  /\ account' = IF Consumed({g}, <<"reverse", event>>) THEN Blocked("payment_refunded")
                                                       ELSE account

\* reinstateReversedCreditGrant: credits[g] come back to every g in its domain.
Reinstate(credits, event) ==
  LET R == Reversible(DOMAIN credits, event) IN
  /\ \A g \in R : grant[g].reversed >= credits[g]
  /\ grant' = [g \in Grants |->
       IF g \in R THEN [grant[g] EXCEPT !.available = @ + credits[g],
                                        !.reversed = @ - credits[g]]
                  ELSE grant[g]]
  /\ ledger' = ledger \cup {Entry(event, g, credits[g], 0) : g \in R}
  /\ balance' = [balance EXCEPT !.available =
                   @ + SumFunction([g \in R |-> credits[g]])]
  /\ UNCHANGED <<issued, reservation, item, draw, storage, hold, settler>>

Next ==
  \/ \E g \in Grants : AppendGrant(g)
  \/ \E r \in Runs : Reserve(r)
  \/ \E s \in Settlers, j \in Jobs, o \in Outcome : BeginSettle(s, j, o)
  \/ \E s \in Settlers : Settle(s)
  \/ \E g \in Grants, e \in Reversals : Reverse(g, e)

Spec == Init /\ [][Next]_vars

-----------------------------------------------------------------------------
(* Properties.                                                             *)

\* The three views of the credits agree after every transaction: the balance
\* projection that admission reads, the grants that fund it, and the ledger
\* (reconcileCreditBalance reports any difference).
BooksAgree ==
  /\ balance.available = SumFunction([g \in Grants |-> grant[g].available])
  /\ balance.reserved = SumFunction([g \in Grants |-> grant[g].reserved])
  /\ balance.available = SumFunction([e \in ledger |-> e.available])
  /\ balance.reserved = SumFunction([e \in ledger |-> e.reserved])

\* No transaction is aborted by the CHECK constraints of the two tables: every
\* credit of a grant is in exactly one place, and so is every credit of a quote,
\* however reservations, settlements and reversals follow one another.
RowsAddUp ==
  /\ \A g \in Issued : grant[g].available + grant[g].reserved
                       + grant[g].captured + grant[g].reversed = Amount[g]
  /\ \A r \in Runs : reservation[r].status # "none" =>
       reservation[r].reserved + reservation[r].captured
         + reservation[r].released = RunQuote[r]

\* A run's reservation adds up to its items, is closed exactly when none is
\* left, and the run is charged exactly for its captured jobs.
ReservationsAddUp ==
  \A r \in Runs :
    LET of(status) == SumFunctionOnSet(Quote, {j \in JobsOf[r] : item[j] = status})
        res == reservation[r]
    IN /\ res.reserved = of("reserved")
       /\ res.captured = of("captured") /\ res.released = of("released")
       /\ res.status \in Outcome => of(res.status) = RunQuote[r]
       /\ res.status # "none" /\ res.reserved = 0 => res.cost = res.captured
       /\ res.status # "none" => of("none") = 0

\* The book is one purse: racing settlers, replays and reversals cannot make it
\* spend a hold twice, return it twice, or do both.
Purse == INSTANCE CreditPurse WITH
  free <- balance.available, held <- balance.reserved, hold <- item
KeepsPurse == Purse!Spec

=============================================================================
