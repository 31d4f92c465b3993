------------------------ MODULE SubscriptionCredits ------------------------
(***************************************************************************)
(* The monthly credits of one subscription: what Stripe charges, what its  *)
(* webhooks record, the passes that grant the months that are due, and the *)
(* changes of the offer that a customer asks for.                          *)
(*                                                                         *)
(* A grant pass is not a transaction: it reads the subscription, counts    *)
(* the months that have a row, reads the payments, and then inserts the    *)
(* row of a month and appends its grant in two transactions.  The hourly   *)
(* task, the processing of an invoice and a change request run passes at   *)
(* the same time.  A change admits an intent, has Stripe charge it, and is *)
(* applied by the request or by the webhook of the invoice, whichever      *)
(* comes first.  The projection of the subscription reads Stripe before    *)
(* its transaction.                                                        *)
(*                                                                         *)
(* Time counts in ticks, Month of them make a month of every calendar.     *)
(* Stripe collects every invoice at once.  Left out: invoices that need    *)
(* the customer, failed renewals, cancellations, the recognized revenue,   *)
(* the account's projection, refunds (StripeReversals) and spending        *)
(* (CreditAccounting).                                                     *)
(***************************************************************************)
EXTENDS Integers, FiniteSets, Sequences, Functions

CONSTANTS Offers,      \* what is sold: [yearly, credits], credits per month
          SignUps,     \* the offers that the customer may begin with
          Month,       \* ticks of a month
          YearMonths,  \* months of a year
          Passes,      \* scheduled passes and those of invoice events
          Hooks,       \* workers that process subscription events
          MaxTime,     \* bound: the last tick
          MaxChanges,  \* bound: changes that are admitted
          MaxCrashes,  \* bound: passes and workers that die
          Api,         \* the change request, which runs a pass of its own
          None

ASSUME SubscriptionAssumption ==
  /\ Month \in Nat \ {0} /\ YearMonths \in Nat \ {0}
  /\ Offers \subseteq [yearly : BOOLEAN, credits : Nat \ {0}]
  /\ SignUps \subseteq Offers /\ None \notin Offers
  /\ Api \notin Passes
  /\ MaxTime \in Nat /\ MaxChanges \in Nat /\ MaxCrashes \in Nat

VARIABLES now,       \* the clock
          stripe,    \* the subscription at Stripe
          invoices,  \* the invoices Stripe has collected
          events,    \* subscription events that wait in the inbox
          sub,       \* the row of billingSubscriptions
          payments,  \* billingPayments
          periods,   \* subscriptionCreditPeriods
          grants,    \* the subscription's creditGrants
          intents,   \* billingSubscriptionChangeIntents
          pass,      \* where each pass is, and what it has read
          hook,      \* where each projection is, and what it has read
          api,       \* where the change request is
          crashes

external == <<now, stripe, invoices, events>>
credits  == <<periods, grants>>
local    == <<sub, payments, intents>>
actors   == <<pass, hook, api, crashes>>
vars     == <<external, credits, local, actors>>

-----------------------------------------------------------------------------
(* Offers and the monthly calendar *)

Length(offer) == IF offer.yearly THEN YearMonths * Month ELSE Month

Least(a, b) == IF a < b THEN a ELSE b

Most(a, b) == IF a < b THEN b ELSE a

Boundary(anchor, n) == anchor + n * Month

OrdinalAt(anchor, instant) == (instant - anchor) \div Month

ChangeMode(current, target) ==
  CASE current = target -> "current"
    [] \/ current.yearly /\ ~target.yearly
       \/ target.credits < current.credits -> "renewal"
    [] OTHER -> "immediate"

\* Mutant: the increment is the whole allowance.
ProratedWhole(current, target, instant, end) ==
  (target.credits * (end - instant)) \div Month

\* Mutant: the offers swapped.
ProratedSwapped(current, target, instant, end) ==
  ((current.credits - target.credits) * (end - instant)) \div Month

ProratedUpgrade(current, target, instant, end) ==
  (Most(0, target.credits - current.credits) * (end - instant)) \div Month

-----------------------------------------------------------------------------
(* Rows *)

IdlePass == [at |-> "idle", rev |-> 0, anchor |-> 0, through |-> 0, seen |-> 0,
             n |-> 0, pays |-> {}, credits |-> 0]

IdleHook == [at |-> "idle", read |-> None, invoice |-> 0]

IdleApi == [at |-> "idle", read |-> None, target |-> None, mode |-> "current",
            date |-> 0, adjust |-> 0, intent |-> 0, start |-> 0, end |-> 0]

Rows(rev) == {r \in periods : r.rev = rev}

Row(rev, n) == {r \in periods : r.rev = rev /\ r.n = n}

IsDue(anchor, n, instant, through) ==
  LET start == Boundary(anchor, n) IN start <= instant /\ start < through

Pending == {i \in DOMAIN intents : intents[i].status = "pending"}

Paid(i) == {k \in DOMAIN invoices :
              invoices[k].kind = "change" /\ invoices[k].meta = i}

\* appendCreditGrant on row r under a key: the grants it finds under the key
\* replay or conflict, a new one must fit under the ceiling.
Replayed(key, r, amount) ==
  \E g \in grants : /\ g.key = key /\ g.credits = amount
                    /\ g.rev = r.rev /\ g.n = r.n

Fits(key, r, amount) ==
  /\ \A g \in grants : g.key # key
  /\ r.granted + amount <= r.target - r.carried

GrantOf(key, r, amount) ==
  [key |-> key, rev |-> r.rev, n |-> r.n, credits |-> amount,
   start |-> r.start, end |-> r.end]

-----------------------------------------------------------------------------
\* The first invoice of the sign-up is collected, and the row is written.
SignUp(first) ==
  /\ stripe = [offer |-> first, start |-> 0, end |-> Length(first),
               next |-> None, nextIntent |-> 0, meta |-> 0]
  /\ invoices = <<[kind |-> "cycle", offer |-> first, start |-> 0,
                   end |-> Length(first), meta |-> 0]>>
  /\ sub = [offer |-> first, start |-> 0, end |-> Length(first), anchor |-> 0,
            rev |-> 0, through |-> 0, next |-> None]

Init ==
  /\ now = 0
  /\ \E first \in SignUps : SignUp(first)
  /\ events = 1
  /\ payments = {} /\ periods = {} /\ grants = {} /\ intents = <<>>
  /\ pass = [p \in Passes \cup {Api} |-> IdlePass]
  /\ hook = [w \in Hooks |-> IdleHook]
  /\ api = IdleApi
  /\ crashes = 0

-----------------------------------------------------------------------------
(* Stripe *)

\* At the end of a service period Stripe starts the next one, on the offer a
\* schedule names, and collects its invoice.  An invoice keeps the metadata
\* that the subscription had when it was made.
Tick ==
  /\ now < MaxTime
  /\ now' = now + 1
  /\ IF now + 1 < stripe.end
     THEN UNCHANGED <<stripe, invoices, events>>
     ELSE LET scheduled == stripe.next # None
              offer == IF scheduled THEN stripe.next ELSE stripe.offer
              meta  == IF scheduled THEN stripe.nextIntent ELSE stripe.meta
          IN /\ stripe' = [offer |-> offer, start |-> stripe.end,
                           end |-> stripe.end + Length(offer),
                           next |-> None, nextIntent |-> 0, meta |-> meta]
             /\ invoices' = Append(invoices,
                  [kind |-> "cycle", offer |-> offer, start |-> stripe.end,
                   end |-> stripe.end + Length(offer), meta |-> meta])
             /\ events' = events + 1
  /\ UNCHANGED <<credits, local, actors>>

-----------------------------------------------------------------------------
(* Webhooks *)

\* The transaction of a projection.  The schedule of months restarts when a
\* scheduled offer of another cadence has become current.
Project(read) ==
  LET activated == sub.next = read.offer
      resets    == activated /\ sub.offer.yearly # read.offer.yearly
  IN sub' = [sub EXCEPT !.offer = read.offer,
                        !.start = read.start, !.end = read.end,
                        !.anchor = IF resets THEN read.start ELSE @,
                        !.rev = IF resets THEN @ + 1 ELSE @,
                        !.next = IF activated THEN None ELSE @]

\* A subscription event: the worker retrieves the subscription from Stripe.
RetrieveSubscription(w) ==
  /\ hook[w].at = "idle" /\ events > 0
  /\ events' = events - 1
  /\ hook' = [hook EXCEPT ![w] = [at |-> "project", read |-> stripe,
                                  invoice |-> 0]]
  /\ UNCHANGED <<now, stripe, invoices, credits, local, pass, api, crashes>>

Unrecorded(k) == \A x \in payments : x.invoice # k

\* The paid invoice of a period whose metadata names a scheduled change: the
\* subscription is projected first.
RetrieveForInvoice(w, k) ==
  /\ hook[w].at = "idle"
  /\ invoices[k].kind = "cycle" /\ Unrecorded(k)
  /\ invoices[k].meta # 0
  /\ intents[invoices[k].meta].mode = "renewal"
  /\ hook' = [hook EXCEPT ![w] = [at |-> "project", read |-> stripe,
                                  invoice |-> k]]
  /\ UNCHANGED <<external, credits, local, pass, api, crashes>>

CommitProjection(w) ==
  /\ hook[w].at = "project"
  /\ Project(hook[w].read)
  /\ hook' = [hook EXCEPT ![w] = IF @.invoice = 0 THEN IdleHook
                                 ELSE [@ EXCEPT !.at = "pay", !.read = None]]
  /\ UNCHANGED <<external, credits, payments, intents, pass, api, crashes>>

\* The payment of a service period, which authorizes the grants of its months.
RecordPayment(k) ==
  /\ payments' = payments \cup
       {[invoice |-> k, offer |-> invoices[k].offer,
         start |-> invoices[k].start, end |-> invoices[k].end]}
  /\ sub' = [sub EXCEPT !.through = Most(@, invoices[k].end)]

PayInvoice(k) ==
  /\ invoices[k].kind = "cycle" /\ invoices[k].meta = 0 /\ Unrecorded(k)
  /\ RecordPayment(k)
  /\ UNCHANGED <<external, credits, intents, actors>>

PayAfterProjection(w) ==
  /\ hook[w].at = "pay"
  /\ RecordPayment(hook[w].invoice)
  /\ hook' = [hook EXCEPT ![w] = IdleHook]
  /\ UNCHANGED <<external, credits, intents, pass, api, crashes>>

\* A worker dies; the inbox hands its event to another one.
HookCrash(w) ==
  /\ crashes < MaxCrashes /\ hook[w].at # "idle"
  /\ crashes' = crashes + 1
  /\ events' = IF hook[w].invoice = 0 THEN events + 1 ELSE events
  /\ hook' = [hook EXCEPT ![w] = IdleHook]
  /\ UNCHANGED <<now, stripe, invoices, credits, local, pass, api>>

-----------------------------------------------------------------------------
(* Grant passes *)

\* The read of the subscription.  A pass that would find nothing due ends
\* without a trace and is not started.
StartedPass ==
  [IdlePass EXCEPT !.at = "plan", !.rev = sub.rev, !.anchor = sub.anchor,
                   !.through = sub.through, !.seen = now]

SomeDue == IsDue(sub.anchor, Cardinality(Rows(sub.rev)), now, sub.through)

PassStart(p) ==
  /\ p \in Passes /\ pass[p].at = "idle" /\ SomeDue
  /\ pass' = [pass EXCEPT ![p] = StartedPass]
  /\ UNCHANGED <<external, credits, local, hook, api, crashes>>

\* Pass q at month n, or at its end when that month is not due.
AtMonth(q, n) ==
  IF IsDue(q.anchor, n, q.seen, q.through)
  THEN [q EXCEPT !.at = "month", !.n = n, !.credits = 0] ELSE IdlePass

\* Mutant: the month after the next one.
PassPlanPast(p) ==
  /\ pass[p].at = "plan"
  /\ pass' = [pass EXCEPT
       ![p] = AtMonth([@ EXCEPT !.pays = payments],
                      Cardinality(Rows(pass[p].rev)) + 1)]
  /\ UNCHANGED <<external, credits, local, hook, api, crashes>>

\* Resumes after the months that have a row, and reads the payments.
PassPlan(p) ==
  /\ pass[p].at = "plan"
  /\ pass' = [pass EXCEPT
       ![p] = AtMonth([@ EXCEPT !.pays = payments],
                      Cardinality(Rows(pass[p].rev)))]
  /\ UNCHANGED <<external, credits, local, hook, api, crashes>>

\* Mutant: service that has begun counts for the whole month.
CoveringBegun(q) == {x \in q.pays : x.start <= Boundary(q.anchor, q.n)}

\* Mutant: service must last longer than the month.
CoveringBeyond(q) ==
  {x \in q.pays : /\ x.start <= Boundary(q.anchor, q.n)
                  /\ x.end > Boundary(q.anchor, q.n + 1)}

Covering(q) ==
  {x \in q.pays : /\ x.start <= Boundary(q.anchor, q.n)
                  /\ x.end >= Boundary(q.anchor, q.n + 1)}

\* A month that no payment covers ends the pass.
PassUncovered(p) ==
  /\ pass[p].at = "month" /\ Covering(pass[p]) = {}
  /\ pass' = [pass EXCEPT ![p] = IdlePass]
  /\ UNCHANGED <<external, credits, local, hook, api, crashes>>

\* ensureSubscriptionCreditPeriod: the row of the month, inserted unless it
\* exists.  A row with a lower target is an error.
PassMonth(p) ==
  LET q == pass[p] IN
  /\ q.at = "month"
  /\ \E x \in Covering(q) :
       /\ \A y \in Covering(q) : y.start <= x.start
       /\ LET fresh == [rev |-> q.rev, n |-> q.n,
                        start |-> Boundary(q.anchor, q.n),
                        end |-> Boundary(q.anchor, q.n + 1),
                        target |-> x.offer.credits, carried |-> 0,
                        granted |-> 0]
              found == Row(q.rev, q.n)
              row   == IF found = {} THEN fresh ELSE CHOOSE r \in found : TRUE
              amount == Least(x.offer.credits,
                              row.target - row.carried - row.granted)
          IN /\ periods' = periods \cup {row}
             /\ pass' = [pass EXCEPT ![p] =
                  IF row.target < x.offer.credits THEN IdlePass
                  ELSE IF amount <= 0 THEN AtMonth(q, q.n + 1)
                  ELSE [q EXCEPT !.at = "append", !.credits = amount]]
  /\ UNCHANGED <<external, grants, local, hook, api, crashes>>

\* appendCreditGrant of the month, a transaction of its own.
PassAppend(p) ==
  LET q   == pass[p]
      key == <<"month", Boundary(q.anchor, q.n)>>
  IN /\ q.at = "append"
     /\ \E r \in Row(q.rev, q.n) :
          IF Fits(key, r, q.credits)
          THEN /\ periods' = (periods \ {r})
                    \cup {[r EXCEPT !.granted = @ + q.credits]}
               /\ grants' = grants \cup {GrantOf(key, r, q.credits)}
               /\ pass' = [pass EXCEPT ![p] = AtMonth(q, q.n + 1)]
          ELSE /\ UNCHANGED credits
               /\ pass' = [pass EXCEPT ![p] =
                    IF Replayed(key, r, q.credits) THEN AtMonth(q, q.n + 1)
                    ELSE IdlePass]
     /\ UNCHANGED <<external, local, hook, api, crashes>>

\* A pass dies.  Its next run starts from what is committed.
PassCrash(p) ==
  /\ crashes < MaxCrashes /\ pass[p].at # "idle"
  /\ crashes' = crashes + 1
  /\ pass' = [pass EXCEPT ![p] = IdlePass]
  /\ api' = IF p = Api THEN IdleApi ELSE api
  /\ UNCHANGED <<external, credits, local, hook>>

-----------------------------------------------------------------------------
(* A change of the offer *)

\* loadChangeContext: what a change needs of the local subscription, and the
\* pass it runs before it compares with Stripe.
Available(target) ==
  /\ sub.through > now /\ sub.next = None
  /\ ChangeMode(sub.offer, target) # "current"

ApiPass == IF SomeDue THEN [pass EXCEPT ![Api] = StartedPass] ELSE pass

\* A request, new or repeated after it broke off before Stripe charged it.
ChangeRequest(target) ==
  /\ api.at = "idle" /\ Available(target)
  /\ \/ Pending = {} /\ Len(intents) < MaxChanges
     \/ \E i \in Pending : /\ intents[i].mode = "immediate"
                           /\ intents[i].to = target /\ Paid(i) = {}
  /\ api' = [IdleApi EXCEPT !.at = "context", !.read = sub, !.target = target,
                            !.mode = ChangeMode(sub.offer, target)]
  /\ pass' = ApiPass
  /\ UNCHANGED <<external, credits, local, hook, crashes>>

StripeAgrees ==
  /\ stripe.offer = api.read.offer /\ stripe.next = None
  /\ stripe.start = api.read.start /\ stripe.end = api.read.end

\* The credits that the preview promises for the rest of the month.
CreditsForChange(date) ==
  LET ordinal == OrdinalAt(api.read.anchor, date)
      current == api.read.offer
  IN IF ~current.yearly /\ api.target.yearly
     THEN {Most(0, api.target.credits - r.carried - r.granted) :
             r \in Row(api.read.rev, ordinal)}
     ELSE {ProratedUpgrade(current, api.target, date,
                           Boundary(api.read.anchor, ordinal + 1))}

\* The date of an immediate change was fixed by an earlier preview.
ChangePreview ==
  /\ api.at = "context" /\ pass[Api].at = "idle"
  /\ StripeAgrees
  /\ IF api.mode = "renewal"
     THEN api' = [api EXCEPT !.at = "previewed"]
     ELSE \E date \in Most(api.read.start, api.read.anchor)..now :
            /\ date < api.read.end
            /\ \E amount \in CreditsForChange(date) :
                 api' = [api EXCEPT !.at = "previewed", !.date = date,
                                    !.adjust = amount]
  /\ UNCHANGED <<external, credits, local, pass, hook, crashes>>

\* The context is loaded a second time before the change is admitted.
ChangeReload ==
  /\ api.at = "previewed" /\ Available(api.target)
  /\ api' = [api EXCEPT !.at = "reloaded", !.read = sub]
  /\ pass' = ApiPass
  /\ UNCHANGED <<external, credits, local, hook, crashes>>

ChangeConfirm ==
  /\ api.at = "reloaded" /\ pass[Api].at = "idle" /\ StripeAgrees
  /\ api' = [api EXCEPT !.at = "admit"]
  /\ UNCHANGED <<external, credits, local, pass, hook, crashes>>

\* admitSubscriptionChangeIntent: checks the subscription again, under locks.
\* The intent of a repeated request keeps its increment.
ChangeAdmit ==
  /\ api.at = "admit" /\ Available(api.target)
  /\ ChangeMode(sub.offer, api.target) = api.mode
  /\ IF Pending = {}
     THEN intents' = Append(intents,
            [status |-> "pending", mode |-> api.mode, from |-> sub.offer,
             to |-> api.target, start |-> sub.start, end |-> sub.end,
             date |-> api.date, adjust |-> api.adjust, since |-> now])
     ELSE /\ \E i \in Pending : /\ intents[i].mode = api.mode
                                /\ intents[i].to = api.target
                                /\ intents[i].date = api.date
          /\ UNCHANGED intents
  /\ api' = [api EXCEPT !.at = "stripe", !.intent = Len(intents'),
                        !.end = sub.end]
  /\ UNCHANGED <<external, credits, sub, payments, pass, hook, crashes>>

\* Stripe swaps the price, restarts the cycle when the cadence changes,
\* collects the difference and keeps the intent as metadata.  When the intent
\* keeps the cadence it is asked to leave the cycle unchanged, which it refuses
\* when its own offer has the other cadence.
ChangeCharge ==
  LET i      == api.intent
      to     == api.target
      resets == stripe.offer.yearly # to.yearly
      start  == IF resets THEN now ELSE stripe.start
      end    == IF resets THEN now + Length(to) ELSE stripe.end
  IN /\ api.at = "stripe" /\ api.mode = "immediate"
     /\ stripe.next = None /\ intents[i].date >= stripe.start
     /\ resets => intents[i].from.yearly # to.yearly
     /\ stripe' = [stripe EXCEPT !.offer = to, !.start = start, !.end = end,
                                 !.meta = i]
     /\ invoices' = Append(invoices,
          [kind |-> "change", offer |-> to,
           start |-> IF resets THEN now ELSE intents[i].date,
           end |-> end, meta |-> i])
     /\ events' = events + 1
     /\ api' = [api EXCEPT !.at = "apply", !.start = start, !.end = end]
     /\ UNCHANGED <<now, credits, local, pass, hook, crashes>>

\* annualRevenueForGrantPeriod: what is granted for an annual invoice has a
\* share in it only in a month of the service that the invoice paid for.
InPaidYear(i, r) ==
  intents[i].to.yearly =>
    \E k \in Paid(i) : invoices[k].start < r.end /\ r.start < invoices[k].end

\* Mutant: the row does not count the grant.
WithChangeGrantUncounted(i, rows, r) ==
  IF intents[i].adjust = 0
  THEN /\ periods' = rows \cup {r}
       /\ UNCHANGED grants
  ELSE LET key == <<"change", i>> IN
       /\ Fits(key, r, intents[i].adjust) /\ InPaidYear(i, r)
       /\ periods' = rows \cup {r}
       /\ grants' = grants \cup {GrantOf(key, r, intents[i].adjust)}

\* appendCreditGrant of a change, inside the transaction that applies it.
WithChangeGrant(i, rows, r) ==
  IF intents[i].adjust = 0
  THEN /\ periods' = rows \cup {r}
       /\ UNCHANGED grants
  ELSE LET key == <<"change", i>> IN
       /\ Fits(key, r, intents[i].adjust) /\ InPaidYear(i, r)
       /\ periods' = rows \cup {[r EXCEPT !.granted = @ + intents[i].adjust]}
       /\ grants' = grants \cup {GrantOf(key, r, intents[i].adjust)}

\* Within a cadence the ceiling of the current month rises, provided that the
\* month has been granted.
RaiseMonth(i) ==
  \E r \in Row(sub.rev, OrdinalAt(sub.anchor, intents[i].date)) :
    /\ r.carried + r.granted >= 1
    /\ WithChangeGrant(i, periods \ {r},
                       [r EXCEPT !.target = @ + intents[i].adjust])

\* From monthly to annual a new schedule of months starts, which carries what
\* the overlapping month has been granted.
Carried(i, r) == Least(intents[i].to.credits, r.carried + r.granted)

FirstMonth(i, r, start) ==
  [rev |-> sub.rev + 1, n |-> 0, start |-> start,
   end |-> Boundary(start, 1), target |-> intents[i].to.credits,
   carried |-> Carried(i, r), granted |-> 0]

RestartMonths(i, start) ==
  \E r \in Row(sub.rev, OrdinalAt(sub.anchor, intents[i].date)) :
    /\ intents[i].adjust = intents[i].to.credits - Carried(i, r)
    /\ WithChangeGrant(i, periods, FirstMonth(i, r, start))

\* applyPaidSubscriptionChange, with the service period of the subscription
\* as the caller has read it from Stripe.
ApplyPaid(i, start, end) ==
  LET to     == intents[i].to
      resets == intents[i].from.yearly # to.yearly
  IN /\ i \in Pending /\ i = Len(intents)
     /\ IF resets THEN RestartMonths(i, start) ELSE RaiseMonth(i)
     /\ \E k \in Paid(i) :
          payments' = payments \cup
            {[invoice |-> k, offer |-> to, start |-> invoices[k].start,
              end |-> invoices[k].end]}
     /\ sub' = [sub EXCEPT !.offer = to, !.start = start, !.end = end,
                           !.anchor = IF resets THEN start ELSE @,
                           !.rev = IF resets THEN @ + 1 ELSE @,
                           !.through = Most(@, end), !.next = None]
     /\ intents' = [intents EXCEPT ![i].status = "applied"]

ChangeApply ==
  /\ api.at = "apply" /\ api.mode = "immediate"
  /\ ApplyPaid(api.intent, api.start, api.end)
  /\ api' = IdleApi
  /\ UNCHANGED <<external, pass, hook, crashes>>

\* Mutant: only while the request holds its lease.
InvoiceApplyLeased(k) ==
  /\ invoices[k].kind = "change" /\ api.intent = invoices[k].meta
  /\ stripe.meta = invoices[k].meta /\ stripe.offer = invoices[k].offer
  /\ ApplyPaid(invoices[k].meta, stripe.start, stripe.end)
  /\ UNCHANGED <<external, actors>>

\* The webhook of the paid invoice, or a replay of the request, applies the
\* change as long as Stripe still has it.
InvoiceApply(k) ==
  /\ invoices[k].kind = "change"
  /\ stripe.meta = invoices[k].meta /\ stripe.offer = invoices[k].offer
  /\ ApplyPaid(invoices[k].meta, stripe.start, stripe.end)
  /\ UNCHANGED <<external, actors>>

\* resumeRenewalSchedule: any later request goes on with a pending change at
\* the renewal, at the boundary that the subscription has by then.
ChangeResume(i) ==
  /\ api.at = "idle" /\ i \in Pending /\ intents[i].mode = "renewal"
  /\ api' = [IdleApi EXCEPT !.at = "stripe", !.target = intents[i].to,
                            !.mode = "renewal", !.intent = i, !.end = sub.end]
  /\ UNCHANGED <<external, credits, local, pass, hook, crashes>>

\* A change at the renewal becomes a schedule at Stripe.
ChangeSchedule ==
  /\ api.at = "stripe" /\ api.mode = "renewal"
  /\ stripe.next = None \/ stripe.nextIntent = api.intent
  /\ stripe.end = api.end
  /\ stripe' = [stripe EXCEPT !.next = api.target, !.nextIntent = api.intent]
  /\ api' = [api EXCEPT !.at = "apply"]
  /\ UNCHANGED <<now, invoices, events, credits, local, pass, hook, crashes>>

\* applyRenewalSubscriptionChange, by the request or by the webhook of the
\* schedule, which must not have run yet.
ApplyRenewal(i) ==
  /\ i \in Pending /\ i = Len(intents) /\ intents[i].mode = "renewal"
  /\ sub.offer = intents[i].from
  /\ sub.start = intents[i].start /\ sub.end = intents[i].end
  /\ sub' = [sub EXCEPT !.next = intents[i].to]
  /\ intents' = [intents EXCEPT ![i].status = "applied"]

ChangeComplete ==
  /\ api.at = "apply" /\ api.mode = "renewal" /\ ApplyRenewal(api.intent)
  /\ api' = IdleApi
  /\ UNCHANGED <<external, credits, payments, pass, hook, crashes>>

ScheduleApply(i) ==
  /\ i = stripe.nextIntent /\ stripe.end = intents[i].end
  /\ ApplyRenewal(i)
  /\ UNCHANGED <<external, credits, payments, actors>>

\* A check fails, Stripe refuses, or the process dies.
ChangeGiveUp ==
  /\ api.at # "idle" /\ pass[Api].at = "idle"
  /\ api' = IdleApi
  /\ UNCHANGED <<external, credits, local, pass, hook, crashes>>

\* failAbandonedSubscriptionChange: another request fails an immediate change
\* that has expired and that Stripe has not charged.
ChangeAbandon(i) ==
  /\ i \in Pending /\ intents[i].mode = "immediate"
  /\ now > intents[i].since /\ Paid(i) = {} /\ api.at = "idle"
  /\ intents' = [intents EXCEPT ![i].status = "failed"]
  /\ UNCHANGED <<external, credits, sub, payments, actors>>

-----------------------------------------------------------------------------
Pass(p) == \/ PassPlan(p) \/ PassUncovered(p) \/ PassMonth(p) \/ PassAppend(p)

Hook(w) == RetrieveSubscription(w) \/ CommitProjection(w) \/ PayAfterProjection(w)

Invoice(k) == PayInvoice(k) \/ InvoiceApply(k) \/ \E w \in Hooks : RetrieveForInvoice(w, k)

Next ==
  \/ Tick
  \/ \E w \in Hooks : Hook(w) \/ HookCrash(w)
  \/ \E k \in DOMAIN invoices : Invoice(k)
  \/ \E p \in Passes : PassStart(p)
  \/ \E p \in Passes \cup {Api} : Pass(p) \/ PassCrash(p)
  \/ \E target \in Offers : ChangeRequest(target)
  \/ ChangePreview \/ ChangeReload \/ ChangeConfirm \/ ChangeAdmit
  \/ ChangeCharge \/ ChangeApply
  \/ ChangeSchedule \/ ChangeComplete \/ ChangeGiveUp
  \/ \E i \in DOMAIN intents :
       ChangeResume(i) \/ ScheduleApply(i) \/ ChangeAbandon(i)

Spec == Init /\ [][Next]_vars

\* Events are redelivered until they succeed, the hourly task starts a pass
\* again and again, and what runs goes on.  A change request may always stop.
Fairness ==
  /\ WF_vars(Tick)
  /\ \A w \in Hooks : WF_vars(Hook(w))
  /\ WF_vars(\E k \in DOMAIN invoices : PayInvoice(k))
  /\ WF_vars(\E k \in DOMAIN invoices : InvoiceApply(k))
  /\ WF_vars(\E k \in DOMAIN invoices, w \in Hooks : RetrieveForInvoice(w, k))
  /\ \A p \in Passes : WF_vars(PassStart(p))
  /\ \A p \in Passes \cup {Api} : WF_vars(Pass(p))

FairSpec == Spec /\ Fairness

-----------------------------------------------------------------------------
(* Properties *)

StripeType ==
  [offer : Offers, start : Nat, end : Nat, next : Offers \cup {None},
   nextIntent : Nat, meta : Nat]

InvoiceType ==
  [kind : {"cycle", "change"}, offer : Offers, start : Nat, end : Nat,
   meta : Nat]

SubType ==
  [offer : Offers, start : Nat, end : Nat, anchor : Nat, rev : Nat,
   through : Nat, next : Offers \cup {None}]

PaymentType == [invoice : Nat, offer : Offers, start : Nat, end : Nat]

PeriodType ==
  [rev : Nat, n : Nat, start : Nat, end : Nat, target : Nat, carried : Nat,
   granted : Nat]

IntentType ==
  [status : {"pending", "applied", "failed"}, mode : {"immediate", "renewal"},
   from : Offers, to : Offers, start : Nat, end : Nat, date : Nat,
   adjust : Nat, since : Nat]

PassType ==
  [at : {"idle", "plan", "month", "append"}, rev : Nat, anchor : Nat,
   through : Nat, seen : Nat, n : Nat, pays : SUBSET PaymentType,
   credits : Nat]

HookType ==
  [at : {"idle", "project", "pay"}, read : StripeType \cup {None},
   invoice : Nat]

ApiType ==
  [at : {"idle", "context", "previewed", "reloaded", "admit", "stripe", "apply"},
   read : SubType \cup {None}, target : Offers \cup {None},
   mode : {"current", "immediate", "renewal"}, date : Nat, adjust : Nat,
   intent : Nat, start : Nat, end : Nat]

\* Types of all variables: no credit count, ceiling or increment is negative
\* (the safe integers that packages/billing computes with).
TypeOK ==
  /\ now \in Nat /\ events \in Nat /\ crashes \in 0..MaxCrashes
  /\ stripe \in StripeType /\ invoices \in Seq(InvoiceType)
  /\ sub \in SubType /\ payments \subseteq PaymentType
  /\ periods \subseteq PeriodType /\ intents \in Seq(IntentType)
  /\ pass \in [Passes \cup {Api} -> PassType]
  /\ hook \in [Hooks -> HookType] /\ api \in ApiType

\* The rows of a schedule are its months 0 .. n without a gap or a double, so
\* that counting them finds the next one (reconcileSubscriptionGrantPeriods
\* resumes from the count).
MonthsInOrder ==
  \A r \in periods :
    /\ \A k \in 0..r.n : Row(r.rev, k) # {}
    /\ \A s \in Rows(r.rev) :
         /\ s.n = r.n => s = r
         /\ s.start - r.start = (s.n - r.n) * Month

SumCredits(G) == SumFunction([g \in G |-> g.credits])

\* What a row says was granted is what the grants of the month add up to, and
\* with what it carries it stays under the ceiling.
RowsAgree ==
  \A r \in periods :
    /\ r.granted = SumCredits({g \in grants : g.rev = r.rev /\ g.n = r.n})
    /\ r.carried + r.granted <= r.target

\* A month in which more can be granted than it carries from the schedule
\* before never has a ceiling above the allowance of an offer that was paid
\* for a part of that month, however often changes raise it.
CeilingIsPaid ==
  \A r \in periods : r.carried < r.target =>
    \E x \in payments : /\ x.start < r.end /\ r.start < x.end
                        /\ r.target <= x.offer.credits

\* A month is granted only inside service that has been paid and recorded.
GrantsArePaid ==
  \A g \in grants :
    \E x \in payments : x.start < g.end /\ g.end <= x.end

\* A change from monthly to annual that every delivery refuses: the month it fills
\* was granted since the preview fixed the increment, ...
Outdated(i) ==
  /\ ~intents[i].from.yearly /\ intents[i].to.yearly
  /\ \A r \in Row(sub.rev, OrdinalAt(sub.anchor, intents[i].date)) :
       intents[i].adjust # intents[i].to.credits - Carried(i, r)

\* ... or the year it paid for is over, with an increment still to be granted.
YearOver(i) ==
  /\ ~intents[i].from.yearly /\ intents[i].to.yearly /\ intents[i].adjust > 0
  /\ \A k \in Paid(i) : invoices[k].end <= stripe.start

\* A change that Stripe has collected is applied, from monthly to annual too, by
\* whatever request or webhook gets to it (docs: "collect exact proration, apply
\* immediately", "collect immediately, reset the billing/credit schedule").  The
\* exceptions are named: Outdated and YearOver.
PaidChangesApplied ==
  \A i \in 1..MaxChanges :
    (i \in DOMAIN intents /\ Paid(i) # {}) ~>
      /\ i \in DOMAIN intents
      /\ intents[i].status = "applied" \/ Outdated(i) \/ YearOver(i)

\* A month that is due, where recorded payments cover every month up to there.
Owed(n) ==
  /\ IsDue(sub.anchor, n, now, sub.through)
  /\ \A m \in 0..n : \E x \in payments :
       /\ x.start <= Boundary(sub.anchor, m)
       /\ Boundary(sub.anchor, m + 1) <= x.end

\* The passes catch up: again and again every month of the current schedule that is
\* due and paid for has been granted, also after a change has begun another schedule.
DueMonthsGranted ==
  []<>(\A n \in 0..now : Owed(n) =>
         \E r \in Row(sub.rev, n) : r.carried + r.granted > 0)

=============================================================================
