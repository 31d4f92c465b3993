--------------------------- MODULE StripeReversals ----------------------------
(***************************************************************************)
(* Refunds and disputes of the payments that bought credits.  Stripe sends  *)
(* events; each is kept in an inbox and processed by workers that claim it,  *)
(* ask Stripe for the current charge or dispute, and then move grants,      *)
(* payment and account in one transaction.  Deliveries are late, repeated   *)
(* and out of order, workers die, and a worker that was given up as stale   *)
(* may still be alive.                                                     *)
(***************************************************************************)
EXTENDS CreditAccounting

CONSTANTS
  Payments,
  GrantsOf,           \* GrantsOf[p], the grants a payment bought
  PartialDisputes,    \* payments whose dispute is over another amount
  Workers,
  MaxEvents           \* bound: how many events Stripe sends

ASSUME PaymentAssumption ==
  /\ GrantsOf \in [Payments -> SUBSET Grants]
  /\ \A p, q \in Payments : p # q => GrantsOf[p] \cap GrantsOf[q] = {}
  /\ PartialDisputes \subseteq Payments

VARIABLES
  charge,     \* at Stripe: how much of the charge was refunded
  case,       \* at Stripe: the dispute of the charge
  payment,    \* billingPayments
  dispute,    \* billingPaymentDisputes
  taken,      \* billingDisputeGrantReversals: taken[g] by the dispute of its payment
  inbox,      \* stripeWebhookEvents: processingStatus per event
  worker      \* processes that run processStripeWebhookEvent

stripe    == <<charge, case>>
projected == <<payment, dispute, taken>>
allVars   == <<vars, stripe, projected, inbox, worker>>

Refunded   == {"none", "partial", "full"}
CaseStatus == {"none", "open", "lost", "won"}       \* won: any favorable outcome
Event == [kind : {"charge.partial", "charge.full", "dispute.created", "dispute.closed"},
          payment : Payments]
Resting == [pc |-> "idle"]

InitAll ==
  /\ Init
  /\ charge = [p \in Payments |-> "none"]
  /\ case = [p \in Payments |-> "none"]
  /\ payment = [p \in Payments |-> [status |-> "none", refunded |-> "none"]]
  /\ dispute = [p \in Payments |-> "none"]
  /\ taken = [g \in Grants |-> [reversed |-> 0, reinstated |-> 0]]
  /\ inbox = [e \in Event |-> "unsent"]
  /\ worker = [w \in Workers |-> Resting]

-----------------------------------------------------------------------------
(* Stripe.                                                                 *)

\* The bound on what Stripe sends.
MaySend == Cardinality({e \in Event : inbox[e] # "unsent"}) < MaxEvents

Sent(kind, p) == [inbox EXCEPT ![[kind |-> kind, payment |-> p]] = "pending"]

\* fulfillPaidTopUpCheckout, or a paid invoice: the payment and its grants.
FulfillPayment(p) ==
  /\ payment[p].status = "none"
  /\ payment' = [payment EXCEPT ![p].status = "paid"]
  /\ \E order \in [1..Cardinality(GrantsOf[p]) -> GrantsOf[p]] :
       IsInjective(order) /\ issued' = issued \o order
  /\ grant' = [g \in Grants |-> IF g \in GrantsOf[p]
                                THEN [grant[g] EXCEPT !.available = Amount[g]] ELSE grant[g]]
  /\ ledger' = ledger \cup {Entry(<<"grant">>, g, Amount[g], 0) : g \in GrantsOf[p]}
  /\ balance' = [balance EXCEPT !.available = @ + SumFunctionOnSet(Amount, GrantsOf[p])]
  /\ UNCHANGED <<account, reservation, item, draw, storage, hold, settler,
                 stripe, dispute, taken, inbox, worker>>

\* A part or all of the charge is refunded at Stripe; refunds only grow.
RefundCharge(p, amount) ==
  /\ MaySend
  /\ charge[p] # "full" /\ amount \in {"partial", "full"} /\ amount # charge[p]
  /\ charge' = [charge EXCEPT ![p] = amount]
  /\ inbox' = Sent(IF amount = "full" THEN "charge.full" ELSE "charge.partial", p)
  /\ UNCHANGED <<vars, case, projected, worker>>

\* The dispute of a charge is opened once and closed once.
MoveCase(p, status) ==
  /\ MaySend
  /\ \/ case[p] = "none" /\ status = "open"
     \/ case[p] = "open" /\ status \in {"lost", "won"}
  /\ case' = [case EXCEPT ![p] = status]
  /\ inbox' = Sent(IF status = "open" THEN "dispute.created" ELSE "dispute.closed", p)
  /\ UNCHANGED <<vars, charge, projected, worker>>

-----------------------------------------------------------------------------
(* Webhook workers.                                                        *)

\* claimWebhookEvent; an event that is being processed can be claimed again
\* once 15 minutes have passed, whether or not its worker is alive.
ClaimEvent(w, e) ==
  /\ worker[w] = Resting
  /\ inbox[e] \in {"pending", "failed", "processing"}
  /\ inbox' = [inbox EXCEPT ![e] = "processing"]
  /\ worker' = [worker EXCEPT ![w] = [pc |-> "claimed", event |-> e]]
  /\ UNCHANGED <<vars, stripe, projected>>

IsRefund(e) == e.kind \in {"charge.partial", "charge.full"}

\* stripe.charges.retrieve or stripe.disputes.retrieve: the current resource.
RetrieveResource(w) ==
  /\ worker[w].pc = "claimed"
  /\ LET e == worker[w].event IN
     worker' = [worker EXCEPT ![w] =
       [pc |-> "read", event |-> e,
        found |-> IF IsRefund(e) THEN charge[e.payment] ELSE case[e.payment]]]
  /\ UNCHANGED <<vars, stripe, projected, inbox>>

Reading(w, p, refund) ==
  /\ worker[w].pc = "read"
  /\ worker[w].event.payment = p /\ IsRefund(worker[w].event) = refund

Became(w, pc) == worker' = [worker EXCEPT ![w] = [pc |-> pc, event |-> @.event]]

\* The projection refuses: the payment is not known yet, or the refunded amount
\* is smaller than the one recorded.
RefuseEvent(w, p) ==
  /\ worker[w].pc = "read" /\ worker[w].event.payment = p
  /\ \/ payment[p].status = "none"
     \/ /\ IsRefund(worker[w].event)
        /\ worker[w].found = "partial" /\ payment[p].refunded = "full"
  /\ Became(w, "thrown")
  /\ UNCHANGED <<vars, stripe, projected, inbox>>

Review(reason) == IF account.status = "blocked_review" THEN account ELSE Blocked(reason)

\* restoreExecutionAfterResolution, given the account and the rows as this
\* transaction has written them.
Restored(acct, payments, disputes) ==
  IF /\ acct.status = "blocked_review"
     /\ \A q \in Payments : disputes[q] \notin {"open", "lost"}
     /\ \A q \in Payments : payments[q].status # "partially_refunded"
  THEN [status |-> "active", reason |-> "none"]
  ELSE acct

\* Mutation: nothing protects a full refund on record.
PartialRefundAnyway(w, p) ==
  /\ Reading(w, p, TRUE) /\ worker[w].found = "partial"
  /\ payment[p].status # "none"
  /\ payment' = [payment EXCEPT ![p] = [status |-> "partially_refunded",
                                        refunded |-> "partial"]]
  /\ account' = Review("partial_refund_manual_review")
  /\ Became(w, "done")
  /\ UNCHANGED <<book, storage, hold, settler, stripe, dispute, taken, inbox>>

\* markPartialRefundForReview.
PartialRefund(w, p) ==
  /\ Reading(w, p, TRUE) /\ worker[w].found = "partial"
  /\ payment[p].status # "none" /\ payment[p].refunded # "full"
  /\ payment' = [payment EXCEPT ![p] = [status |-> "partially_refunded",
                                        refunded |-> "partial"]]
  /\ account' = Review("partial_refund_manual_review")
  /\ Became(w, "done")
  /\ UNCHANGED <<book, storage, hold, settler, stripe, dispute, taken, inbox>>

\* processRefundedStripeCharge, full refund: every unused credit is reversed,
\* and the account is reviewed when some had been used.
FullRefund(w, p) ==
  /\ Reading(w, p, TRUE) /\ worker[w].found = "full"
  /\ payment[p].status # "none"
  /\ LET event == <<"refund", p>>
         used  == \E g \in GrantsOf[p] : grant[g].captured > 0 \/ grant[g].reserved > 0
         acct  == IF Consumed(GrantsOf[p], event) THEN Blocked("payment_refunded") ELSE account
         paid  == [payment EXCEPT ![p] = [status |-> "refunded", refunded |-> "full"]]
     IN /\ ReverseUnused(GrantsOf[p], event)
        /\ payment' = paid
        /\ account' = IF used THEN acct ELSE Restored(acct, paid, dispute)
  /\ Became(w, "done")
  /\ UNCHANGED <<stripe, dispute, taken, inbox>>

Adverse(w, p) == Reading(w, p, FALSE) /\ worker[w].found \in {"open", "lost"}

\* An adverse dispute whose amount is not that of the payment, or whose payment
\* has been refunded.
RecordDispute(w, p) ==
  /\ Adverse(w, p) /\ payment[p].status # "none"
  /\ payment[p].status = "refunded" \/ p \in PartialDisputes
  /\ dispute' = [dispute EXCEPT ![p] = worker[w].found]
  /\ \/ payment[p].status = "refunded" /\ UNCHANGED <<payment, account>>
     \/ /\ payment[p].status # "refunded"
        /\ payment' = [payment EXCEPT ![p].status = "disputed"]
        /\ account' = Review("payment_disputed")
  /\ Became(w, "done")
  /\ UNCHANGED <<book, storage, hold, settler, stripe, taken, inbox>>

\* Mutation: the original credits are recorded as taken.
TakeDisputedOriginal(w, p) ==
  /\ Adverse(w, p)
  /\ payment[p].status \notin {"none", "refunded"} /\ p \notin PartialDisputes
  /\ LET event == <<"dispute", p>>
         G == {g \in GrantsOf[p] : taken[g].reversed = 0}
     IN /\ ReverseUnused(G, event)
        /\ taken' = [g \in Grants |-> IF g \in Reversible(G, event)
                                      THEN [taken[g] EXCEPT !.reversed = Amount[g]]
                                      ELSE taken[g]]
        /\ account' = IF Consumed(G, event) THEN Blocked("payment_disputed") ELSE account
  /\ dispute' = [dispute EXCEPT ![p] = worker[w].found]
  /\ payment' = [payment EXCEPT ![p].status = "disputed"]
  /\ Became(w, "done")
  /\ UNCHANGED <<stripe, inbox>>

\* processStripeDispute, open or lost: the unused credits of the payment are
\* taken once per dispute, exactly as recorded.
TakeDisputed(w, p) ==
  /\ Adverse(w, p)
  /\ payment[p].status \notin {"none", "refunded"} /\ p \notin PartialDisputes
  /\ LET event == <<"dispute", p>>
         G == {g \in GrantsOf[p] : taken[g].reversed = 0}
     IN /\ ReverseUnused(G, event)
        /\ taken' = [g \in Grants |-> IF g \in Reversible(G, event)
                                      THEN [taken[g] EXCEPT !.reversed = grant[g].available]
                                      ELSE taken[g]]
        /\ account' = IF Consumed(G, event) THEN Blocked("payment_disputed") ELSE account
  /\ dispute' = [dispute EXCEPT ![p] = worker[w].found]
  /\ payment' = [payment EXCEPT ![p].status = "disputed"]
  /\ Became(w, "done")
  /\ UNCHANGED <<stripe, inbox>>

\* Mutation: an earlier partial refund is forgotten.
WinDisputePaid(w, p) ==
  /\ Reading(w, p, FALSE) /\ worker[w].found = "won"
  /\ payment[p].status # "none"
  /\ LET full == payment[p].refunded = "full"
         back == {g \in GrantsOf[p] : ~full /\ taken[g].reversed > taken[g].reinstated}
         paid == [payment EXCEPT ![p].status =
                    IF full THEN "refunded"
                    ELSE "paid"]
         closed == [dispute EXCEPT ![p] = "won"]
     IN /\ Reinstate([g \in back |-> taken[g].reversed - taken[g].reinstated],
                     <<"reinstate", p>>)
        /\ taken' = [g \in Grants |-> IF g \in back
                                      THEN [taken[g] EXCEPT !.reinstated = taken[g].reversed]
                                      ELSE taken[g]]
        /\ dispute' = closed
        /\ payment' = paid
        /\ account' = IF full THEN account ELSE Restored(account, paid, closed)
  /\ Became(w, "done")
  /\ UNCHANGED <<stripe, inbox>>

\* processStripeDispute, favorable: what this dispute took comes back, unless a
\* full refund has superseded it.
WinDispute(w, p) ==
  /\ Reading(w, p, FALSE) /\ worker[w].found = "won"
  /\ payment[p].status # "none"
  /\ LET full == payment[p].refunded = "full"
         back == {g \in GrantsOf[p] : ~full /\ taken[g].reversed > taken[g].reinstated}
         paid == [payment EXCEPT ![p].status =
                    IF full THEN "refunded"
                    ELSE IF payment[p].refunded = "partial" THEN "partially_refunded"
                    ELSE "paid"]
         closed == [dispute EXCEPT ![p] = "won"]
     IN /\ Reinstate([g \in back |-> taken[g].reversed - taken[g].reinstated],
                     <<"reinstate", p>>)
        /\ taken' = [g \in Grants |-> IF g \in back
                                      THEN [taken[g] EXCEPT !.reinstated = taken[g].reversed]
                                      ELSE taken[g]]
        /\ dispute' = closed
        /\ payment' = paid
        /\ account' = IF full THEN account ELSE Restored(account, paid, closed)
  /\ Became(w, "done")
  /\ UNCHANGED <<stripe, inbox>>

\* The outcome of the work is written over whatever the row says by then.
FinishEvent(w) ==
  /\ worker[w].pc \in {"done", "thrown"}
  /\ inbox' = [inbox EXCEPT ![worker[w].event] =
                 IF worker[w].pc = "done" THEN "succeeded" ELSE "failed"]
  /\ worker' = [worker EXCEPT ![w] = Resting]
  /\ UNCHANGED <<vars, stripe, projected>>

\* The worker process dies.
LoseWorker(w) ==
  /\ worker[w] # Resting
  /\ worker' = [worker EXCEPT ![w] = Resting]
  /\ UNCHANGED <<vars, stripe, projected, inbox>>

-----------------------------------------------------------------------------
\* The part of the credit book that runs and jobs use.
Use ==
  /\ \/ \E r \in Runs : Reserve(r)
     \/ \E s \in Settlers, j \in Jobs, o \in Outcome : BeginSettle(s, j, o)
     \/ \E s \in Settlers : Settle(s)
  /\ UNCHANGED <<stripe, projected, inbox, worker>>

Work(w) ==
  \/ \E e \in Event : ClaimEvent(w, e)
  \/ RetrieveResource(w)
  \/ \E p \in Payments : \/ RefuseEvent(w, p)
                         \/ PartialRefund(w, p) \/ FullRefund(w, p)
                         \/ RecordDispute(w, p) \/ TakeDisputed(w, p) \/ WinDispute(w, p)
  \/ FinishEvent(w)

NextAll ==
  \/ Use
  \/ \E p \in Payments : \/ FulfillPayment(p)
                         \/ (\E amount \in Refunded : RefundCharge(p, amount))
                         \/ (\E status \in CaseStatus : MoveCase(p, status))
  \/ \E w \in Workers : Work(w) \/ LoseWorker(w)

SpecAll == InitAll /\ [][NextAll]_allVars

-----------------------------------------------------------------------------
(* Properties.                                                             *)

\* Every event that Stripe sent about p has been processed.
Settled(p) == \A e \in Event : e.payment = p => inbox[e] \in {"unsent", "succeeded"}

\* What is missing from a grant was taken by refund events and by the dispute of
\* its payment, less what the dispute gave back: replays, retries and the order
\* of events neither take nor return a credit twice.
ReversalsExact ==
  \A p \in Payments : \A g \in GrantsOf[p] :
    LET refunds == {e \in ledger : e.event = <<"refund", p>> /\ e.grant = g} IN
    /\ grant[g].reversed = taken[g].reversed - taken[g].reinstated
                           - SumFunction([e \in refunds |-> e.available])
    /\ taken[g].reinstated \in {0, taken[g].reversed}

\* Once the inbox is quiet, the payment says what Stripe says of the refund,
\* although charges are read before the transaction that records them.
RefundFollowsStripe ==
  \A p \in Payments : Settled(p) /\ charge[p] # "none" =>
    /\ payment[p].refunded = charge[p]
    /\ charge[p] = "full" <=> payment[p].status = "refunded"

\* Nothing is guessed: while a partial refund, or a dispute over another amount,
\* is on record, managed execution is blocked, whatever is resolved meanwhile
\* for the organization's other payments.
UnclearIsReviewed ==
  \A p \in Payments :
    \/ payment[p].refunded = "partial"
    \/ dispute[p] \in {"open", "lost"} /\ p \in PartialDisputes /\ payment[p].status # "refunded"
    => account.status = "blocked_review"

\* Credits under an adverse dispute cannot be spent: they were taken, or they
\* came back from a job after the account was blocked.  Excepted are credits that
\* a favorable outcome has already given back: a worker that read the dispute
\* before it was won and records what it read afterwards opens the record again
\* and takes nothing a second time.
DisputedIsUnspendable ==
  \A p \in Payments :
    /\ dispute[p] \in {"open", "lost"} /\ payment[p].status # "refunded"
    /\ \E g \in GrantsOf[p] : grant[g].available > 0 /\ taken[g].reinstated = 0
    => account.status = "blocked_review"

\* Once the inbox is quiet, the dispute on record is the one at Stripe ("It must
\* be safe under duplicate delivery and out-of-order events",
\* docs/credits-planning.md:1371).  It does not hold when two workers run.
DisputeFollowsStripe ==
  \A p \in Payments : Settled(p) => dispute[p] = case[p]

=============================================================================
