--------------------- MODULE SubscriptionCreditsProofs ---------------------
(***************************************************************************)
(* The months of a subscription's schedules, for any offers, calendar and  *)
(* number of passes and workers.                                           *)
(*                                                                         *)
(* The types come first.  The invariant of the months then names the       *)
(* anchor of every schedule there has been (A): the rows of a schedule are *)
(* months from that anchor, without gap or double, and a pass at a month   *)
(* has all the earlier ones behind it.  The invariant of the rows says     *)
(* that a row agrees with its grants.                                      *)
(*                                                                         *)
(* The last part is about money.  ServiceInv says what Stripe sells and    *)
(* bills: paces, invoices, the change an intent and the API hold.  PaidInv *)
(* says what the payments cover: a pass that will grant a month, a change  *)
(* that will raise one, and every month that has been granted.             *)
(***************************************************************************)
EXTENDS SubscriptionCredits, Sums

-----------------------------------------------------------------------------
(* Numbers *)

LEMMA LengthNat ==
  ASSUME NEW offer \in Offers
  PROVE  Length(offer) \in Nat
BY SubscriptionAssumption DEF Length

\* The month an instant lies in, counted from its anchor.
LEMMA OrdinalBounds ==
  ASSUME NEW anchor \in Nat, NEW instant \in Nat, anchor <= instant
  PROVE  /\ OrdinalAt(anchor, instant) \in Nat
         /\ instant <= Boundary(anchor, OrdinalAt(anchor, instant) + 1)
         /\ Boundary(anchor, OrdinalAt(anchor, instant) + 1) \in Nat
<1> DEFINE a == instant - anchor
           q == a \div Month
<1>1. a \in Nat /\ Month \in Nat \ {0}
  BY SubscriptionAssumption
<1>2. q \in Nat /\ a < Month * q + Month
  BY <1>1
<1>3. Month * q + Month = (q + 1) * Month /\ (q + 1) * Month \in Nat
  <2> HIDE DEF q
  <2> QED BY <1>1, <1>2
<1> HIDE DEF q
<1>4. OrdinalAt(anchor, instant) = q
  BY DEF OrdinalAt, q
<1>5. a < (q + 1) * Month
  BY <1>2, <1>3
<1> QED
  <2> DEFINE x == (q + 1) * Month
  <2>1. x \in Nat /\ a < x /\ a = instant - anchor
    BY <1>3, <1>5
  <2>2. Boundary(anchor, OrdinalAt(anchor, instant) + 1) = anchor + x
    BY <1>4 DEF Boundary
  <2> HIDE DEF x, a
  <2> QED BY <2>1, <2>2, <1>2, <1>4

LEMMA ProratedNat ==
  ASSUME NEW current \in Offers, NEW target \in Offers,
         NEW instant \in Nat, NEW end \in Nat, instant <= end
  PROVE  ProratedUpgrade(current, target, instant, end) \in Nat
<1> DEFINE d == target.credits - current.credits
           g == Most(0, d)
           l == end - instant
<1>1. d \in Int
  BY SubscriptionAssumption
<1>2. g \in Nat
  <2> HIDE DEF d
  <2> QED BY <1>1 DEF Most
<1>3. l \in Nat
  OBVIOUS
<1>4. g * l \in Nat
  <2> HIDE DEF g, l
  <2> QED BY <1>2, <1>3
<1>5. \A x \in Nat : x \div Month \in Nat
  BY SubscriptionAssumption
<1> HIDE DEF g, l
<1> QED BY <1>4, <1>5 DEF ProratedUpgrade, g, l, d

-----------------------------------------------------------------------------
(* Types *)

\* What a hook and a request have read is there in the states that use it.
HookReads ==
  \A w \in Hooks :
    /\ hook[w].at = "project" => hook[w].read \in StripeType
    /\ hook[w].invoice # 0 => hook[w].invoice \in DOMAIN invoices
    /\ hook[w].at = "pay" => hook[w].invoice # 0

ApiReads ==
  /\ api.at # "idle" => api.target \in Offers /\ api.mode # "current"
  /\ api.at \in {"context", "previewed", "reloaded", "admit"}
       => api.read \in SubType
  /\ api.at \in {"stripe", "apply"} => api.intent \in DOMAIN intents

FinitePeriods == IsFiniteSet(periods)

TypesInv == TypeOK /\ FinitePeriods /\ HookReads /\ ApiReads

LEMMA TypesInit == Init => TypesInv
<1> SUFFICES ASSUME Init PROVE TypesInv
  OBVIOUS
<1>0. PICK first \in SignUps : SignUp(first)
  BY DEF Init
<1>1. Length(first) \in Nat /\ first \in Offers
  BY LengthNat, SubscriptionAssumption
<1>2. IdlePass \in PassType /\ IdleHook \in HookType /\ IdleApi \in ApiType
  BY DEF IdlePass, IdleHook, IdleApi, PassType, HookType, ApiType
<1>3. stripe \in StripeType /\ sub \in SubType /\ invoices \in Seq(InvoiceType)
  BY <1>0, <1>1 DEF SignUp, StripeType, SubType, InvoiceType
<1>4. TypeOK
  BY <1>2, <1>3, SubscriptionAssumption DEF Init, TypeOK
<1>5. HookReads /\ ApiReads
  BY DEF Init, HookReads, ApiReads, IdleHook, IdleApi
<1>6. FinitePeriods
  BY FS_EmptySet DEF Init, FinitePeriods
<1> QED BY <1>4, <1>5, <1>6 DEF TypesInv

LEMMA TickTypes == TypesInv /\ Tick => TypesInv'
<1> SUFFICES ASSUME TypesInv, Tick PROVE TypesInv'
  OBVIOUS
<1> USE DEF TypesInv
<1>1. /\ UNCHANGED <<sub, payments, intents, periods, grants>>
      /\ UNCHANGED <<pass, hook, api, crashes>>
      /\ now' \in Nat
  BY DEF Tick, credits, local, actors, TypeOK
<1>2. CASE UNCHANGED <<stripe, invoices, events>>
  BY <1>1, <1>2 DEF TypeOK, FinitePeriods, HookReads, ApiReads
<1>3. CASE ~(now + 1 < stripe.end)
  <2> DEFINE scheduled == stripe.next # None
             offer == IF scheduled THEN stripe.next ELSE stripe.offer
             meta  == IF scheduled THEN stripe.nextIntent ELSE stripe.meta
             inv == [kind |-> "cycle", offer |-> offer, start |-> stripe.end,
                     end |-> stripe.end + Length(offer), meta |-> meta]
  <2>1. /\ stripe' = [offer |-> offer, start |-> stripe.end,
                      end |-> stripe.end + Length(offer),
                      next |-> None, nextIntent |-> 0, meta |-> meta]
        /\ invoices' = Append(invoices, inv)
        /\ events' = events + 1
    BY <1>3 DEF Tick
  <2>2. offer \in Offers /\ meta \in Nat /\ stripe.end \in Nat
    BY DEF TypeOK, StripeType
  <2>3. stripe.end + Length(offer) \in Nat
    <3> HIDE DEF offer
    <3> QED BY <2>2, LengthNat
  <2> HIDE DEF offer, meta
  <2>4. stripe' \in StripeType /\ inv \in InvoiceType
    BY <2>1, <2>2, <2>3 DEF StripeType, InvoiceType
  <2> HIDE DEF inv
  <2>5. /\ invoices' \in Seq(InvoiceType)
        /\ DOMAIN invoices \subseteq DOMAIN invoices'
    BY <2>1, <2>4 DEF TypeOK
  <2>6. TypeOK'
    BY <1>1, <2>1, <2>4, <2>5 DEF TypeOK
  <2>7. FinitePeriods' /\ HookReads' /\ ApiReads'
    BY <1>1, <2>5 DEF FinitePeriods, HookReads, ApiReads
  <2> QED BY <2>6, <2>7
<1> QED BY <1>2, <1>3 DEF Tick

LEMMA MostNat ==
  ASSUME NEW a \in Nat, NEW b \in Nat
  PROVE  Most(a, b) \in Nat
BY DEF Most

LEMMA RecordTypes ==
  ASSUME TypesInv, NEW k \in DOMAIN invoices, RecordPayment(k)
  PROVE  payments' \subseteq PaymentType /\ sub' \in SubType
<1> DEFINE x == [invoice |-> k, offer |-> invoices[k].offer,
                 start |-> invoices[k].start, end |-> invoices[k].end]
<1>1. k \in Nat /\ invoices[k] \in InvoiceType
  BY DEF TypesInv, TypeOK
<1>2. x \in PaymentType
  BY <1>1 DEF InvoiceType, PaymentType
<1>3. payments' = payments \cup {x}
  BY DEF RecordPayment
<1>4. sub \in SubType /\ payments \subseteq PaymentType
  BY DEF TypesInv, TypeOK
<1>5. Most(sub.through, invoices[k].end) \in Nat
  BY <1>1, <1>4, MostNat DEF SubType, InvoiceType
<1>6. sub' = [sub EXCEPT !.through = Most(@, invoices[k].end)]
  BY DEF RecordPayment
<1> HIDE DEF x
<1> QED BY <1>2, <1>3, <1>4, <1>5, <1>6 DEF SubType

LEMMA ProjectTypes ==
  ASSUME TypesInv, NEW read \in StripeType, Project(read)
  PROVE  sub' \in SubType
<1> DEFINE activated == sub.next = read.offer
           resets    == activated /\ sub.offer.yearly # read.offer.yearly
<1>1. sub' = [sub EXCEPT !.offer = read.offer,
                         !.start = read.start, !.end = read.end,
                         !.anchor = IF resets THEN read.start ELSE @,
                         !.rev = IF resets THEN @ + 1 ELSE @,
                         !.next = IF activated THEN None ELSE @]
  BY DEF Project
<1>2. sub \in SubType
  BY DEF TypesInv, TypeOK
<1> HIDE DEF activated, resets
<1>3. /\ read.offer \in Offers /\ read.start \in Nat /\ read.end \in Nat
      /\ (IF resets THEN read.start ELSE sub.anchor) \in Nat
      /\ (IF resets THEN sub.rev + 1 ELSE sub.rev) \in Nat
      /\ (IF activated THEN None ELSE sub.next) \in Offers \cup {None}
  BY <1>2 DEF SubType, StripeType
<1> QED BY <1>1, <1>2, <1>3 DEF SubType

LEMMA HookTypes ==
  ASSUME TypesInv, NEW w \in Hooks, Hook(w) \/ HookCrash(w)
  PROVE  TypesInv'
<1> USE DEF TypesInv
<1>1. /\ IdleHook \in HookType /\ IdleHook.at = "idle" /\ IdleHook.invoice = 0
      /\ hook \in [Hooks -> HookType] /\ hook[w] \in HookType
  BY DEF TypeOK, IdleHook, HookType
<1>2. CASE RetrieveSubscription(w)
  <2>1. [at |-> "project", read |-> stripe, invoice |-> 0] \in HookType
    BY DEF TypeOK, HookType
  <2> QED BY <1>2, <2>1 DEF RetrieveSubscription, credits, local, TypeOK,
                            FinitePeriods, HookReads, ApiReads
<1>3. CASE CommitProjection(w)
  <2>1. hook[w].read \in StripeType
    BY <1>3 DEF CommitProjection, HookReads
  <2>2. sub' \in SubType
    BY <1>3, <2>1, ProjectTypes DEF CommitProjection
  <2>3. hook'[w] = IF hook[w].invoice = 0 THEN IdleHook
                   ELSE [hook[w] EXCEPT !.at = "pay", !.read = None]
    BY <1>1, <1>3 DEF CommitProjection
  <2>4. /\ hook'[w] \in HookType /\ hook'[w].at # "project"
        /\ hook'[w].invoice = hook[w].invoice
        /\ hook'[w].at = "pay" => hook'[w].invoice # 0
    BY <1>1, <2>3 DEF HookType
  <2>5. hook' = [hook EXCEPT ![w] = hook'[w]]
    BY <1>1, <1>3 DEF CommitProjection
  <2>6. UNCHANGED <<now, stripe, invoices, events, periods, grants, payments,
                    intents, pass, api, crashes>>
    BY <1>3 DEF CommitProjection, external, credits
  <2>7. hook' \in [Hooks -> HookType]
    BY <1>1, <2>4, <2>5
  <2>8. TypeOK'
    BY <2>2, <2>6, <2>7 DEF TypeOK
  <2>9. FinitePeriods' /\ HookReads' /\ ApiReads'
    BY <1>1, <2>4, <2>5, <2>6 DEF FinitePeriods, HookReads, ApiReads
  <2> QED BY <2>8, <2>9
<1>4. CASE PayAfterProjection(w)
  <2>1. hook[w].invoice \in DOMAIN invoices
    BY <1>4 DEF PayAfterProjection, HookReads
  <2>2. payments' \subseteq PaymentType /\ sub' \in SubType
    BY <1>4, <2>1, RecordTypes DEF PayAfterProjection
  <2> QED BY <1>1, <1>4, <2>2 DEF PayAfterProjection, external, credits, TypeOK,
                                  FinitePeriods, HookReads, ApiReads
<1>5. CASE HookCrash(w)
  <2>1. crashes' \in 0..MaxCrashes /\ events' \in Nat
    BY <1>5, SubscriptionAssumption DEF HookCrash, TypeOK
  <2> QED BY <1>1, <1>5, <2>1 DEF HookCrash, credits, local, TypeOK,
                                  FinitePeriods, HookReads, ApiReads
<1> QED BY <1>2, <1>3, <1>4, <1>5 DEF Hook

LEMMA InvoiceTypes ==
  ASSUME TypesInv, NEW k \in DOMAIN invoices,
         PayInvoice(k) \/ \E w \in Hooks : RetrieveForInvoice(w, k)
  PROVE  TypesInv'
<1> USE DEF TypesInv
<1>1. CASE PayInvoice(k)
  <2>1. payments' \subseteq PaymentType /\ sub' \in SubType
    BY <1>1, RecordTypes DEF PayInvoice
  <2> QED BY <1>1, <2>1 DEF PayInvoice, external, credits, actors, TypeOK,
                            FinitePeriods, HookReads, ApiReads
<1>2. ASSUME NEW w \in Hooks, RetrieveForInvoice(w, k)
      PROVE  TypesInv'
  <2>1. [at |-> "project", read |-> stripe, invoice |-> k] \in HookType
    BY DEF TypeOK, HookType
  <2>2. hook \in [Hooks -> HookType]
    BY DEF TypeOK
  <2> QED BY <1>2, <2>1, <2>2 DEF RetrieveForInvoice, external, credits, local,
                                  TypeOK, FinitePeriods, HookReads, ApiReads
<1> QED BY <1>1, <1>2

-----------------------------------------------------------------------------
(* Types of the grant passes *)

LEMMA StartedType ==
  ASSUME TypesInv
  PROVE  StartedPass \in PassType
BY DEF TypesInv, TypeOK, StartedPass, IdlePass, PassType, SubType

LEMMA AtMonthType ==
  ASSUME NEW q \in PassType, NEW n \in Nat
  PROVE  AtMonth(q, n) \in PassType
BY DEF AtMonth, IdlePass, PassType

LEMMA BoundaryNat ==
  ASSUME NEW anchor \in Nat, NEW n \in Nat
  PROVE  Boundary(anchor, n) \in Nat
<1>1. n * Month \in Nat
  BY SubscriptionAssumption
<1> QED BY <1>1 DEF Boundary

\* A pass that moves on and leaves the rest alone.
LEMMA PassOnlyTypes ==
  ASSUME TypesInv, NEW p \in Passes \cup {Api}, NEW q \in PassType,
         pass' = [pass EXCEPT ![p] = q],
         UNCHANGED <<external, credits, local, hook, api, crashes>>
  PROVE  TypesInv'
BY DEF TypesInv, external, credits, local, TypeOK, FinitePeriods, HookReads,
       ApiReads

\* What a pass does at a month: the row it leaves behind, and where it goes.
LEMMA PassMonthEffect ==
  ASSUME TypesInv, NEW p \in Passes \cup {Api}, PassMonth(p)
  PROVE  \E row \in PeriodType, s \in PassType :
           /\ periods' = periods \cup {row}
           /\ row.rev = pass[p].rev /\ row.n = pass[p].n
           /\ \/ row \in periods
              \/ /\ Row(pass[p].rev, pass[p].n) = {}
                 /\ row.start = Boundary(pass[p].anchor, pass[p].n)
                 /\ row.end = Boundary(pass[p].anchor, pass[p].n + 1)
                 /\ row.granted = 0 /\ row.carried = 0
                 /\ \E x \in Covering(pass[p]) : row.target = x.offer.credits
           /\ pass' = [pass EXCEPT ![p] = s]
           /\ \/ s = IdlePass
              \/ s = AtMonth(pass[p], pass[p].n + 1)
              \/ \E c : s = [pass[p] EXCEPT !.at = "append", !.credits = c]
<1> DEFINE q == pass[p]
<1>1. /\ q \in PassType /\ periods \subseteq PeriodType
      /\ pass \in [Passes \cup {Api} -> PassType]
  BY DEF TypesInv, TypeOK
<1>2. PICK x \in Covering(q) :
        LET fresh == [rev |-> q.rev, n |-> q.n,
                      start |-> Boundary(q.anchor, q.n),
                      end |-> Boundary(q.anchor, q.n + 1),
                      target |-> x.offer.credits, carried |-> 0,
                      granted |-> 0]
            found == Row(q.rev, q.n)
            row   == IF found = {} THEN fresh ELSE CHOOSE r \in found : TRUE
            amount == Least(x.offer.credits,
                            row.target - row.carried - row.granted)
        IN /\ periods' = periods \cup {row}
           /\ pass' = [pass EXCEPT ![p] =
                IF row.target < x.offer.credits THEN IdlePass
                ELSE IF amount <= 0 THEN AtMonth(q, q.n + 1)
                ELSE [q EXCEPT !.at = "append", !.credits = amount]]
  BY DEF PassMonth
<1> DEFINE fresh == [rev |-> q.rev, n |-> q.n,
                     start |-> Boundary(q.anchor, q.n),
                     end |-> Boundary(q.anchor, q.n + 1),
                     target |-> x.offer.credits, carried |-> 0, granted |-> 0]
           found == Row(q.rev, q.n)
           row   == IF found = {} THEN fresh ELSE CHOOSE r \in found : TRUE
           amount == Least(x.offer.credits,
                           row.target - row.carried - row.granted)
<1>3. x.offer.credits \in Nat
  BY <1>1, SubscriptionAssumption DEF Covering, PassType, PaymentType
<1>4. fresh \in PeriodType
  <2>1. q.rev \in Nat /\ q.n \in Nat /\ q.anchor \in Nat /\ q.n + 1 \in Nat
    BY <1>1 DEF PassType
  <2>2. Boundary(q.anchor, q.n) \in Nat /\ Boundary(q.anchor, q.n + 1) \in Nat
    BY <2>1, BoundaryNat
  <2> QED BY <1>3, <2>1, <2>2 DEF PeriodType
<1>5. row \in PeriodType
  <2> HIDE DEF fresh, q
  <2> QED BY <1>1, <1>4 DEF Row
<1>6. /\ fresh.rev = q.rev /\ fresh.n = q.n
      /\ fresh.start = Boundary(q.anchor, q.n)
      /\ fresh.end = Boundary(q.anchor, q.n + 1)
      /\ fresh.target = x.offer.credits
      /\ fresh.granted = 0 /\ fresh.carried = 0
  OBVIOUS
<1>7. /\ row.rev = q.rev /\ row.n = q.n
      /\ \/ row \in periods
         \/ /\ found = {} /\ row.start = Boundary(q.anchor, q.n)
            /\ row.end = Boundary(q.anchor, q.n + 1)
            /\ row.granted = 0 /\ row.carried = 0
            /\ row.target = x.offer.credits
  <2> HIDE DEF fresh, q
  <2> QED BY <1>6 DEF Row
<1>8. periods' = periods \cup {row}
      /\ pass' = [pass EXCEPT ![p] =
           IF row.target < x.offer.credits THEN IdlePass
           ELSE IF amount <= 0 THEN AtMonth(q, q.n + 1)
           ELSE [q EXCEPT !.at = "append", !.credits = amount]]
  BY <1>2
<1> HIDE DEF row
<1>9. amount \in Int
  BY <1>3, <1>5 DEF Least, PeriodType
<1> HIDE DEF amount, q
<1>10. /\ IdlePass \in PassType
       /\ AtMonth(q, q.n + 1) \in PassType
       /\ ~(amount <= 0) => [q EXCEPT !.at = "append", !.credits = amount] \in PassType
  <2>1. IdlePass \in PassType
    BY DEF IdlePass, PassType
  <2>2. q.n + 1 \in Nat
    BY <1>1 DEF PassType
  <2>3. AtMonth(q, q.n + 1) \in PassType
    BY <1>1, <2>2, AtMonthType
  <2>4. ~(amount <= 0) => [q EXCEPT !.at = "append", !.credits = amount] \in PassType
    <3>1. SUFFICES ASSUME ~(amount <= 0)
                   PROVE  [q EXCEPT !.at = "append", !.credits = amount] \in PassType
      OBVIOUS
    <3>2. amount \in Nat
      BY <1>9, <3>1
    <3> QED BY <1>1, <3>2 DEF PassType
  <2> QED BY <2>1, <2>3, <2>4
<1>11. \E s \in PassType :
        /\ pass' = [pass EXCEPT ![p] = s]
        /\ \/ s = IdlePass
           \/ s = AtMonth(q, q.n + 1)
           \/ \E c : s = [q EXCEPT !.at = "append", !.credits = c]
  <2>1. CASE row.target < x.offer.credits
    <3>1. pass' = [pass EXCEPT ![p] = IdlePass]
      BY <1>8, <2>1
    <3> QED BY <1>10, <3>1
  <2>2. CASE ~(row.target < x.offer.credits) /\ amount <= 0
    <3>1. pass' = [pass EXCEPT ![p] = AtMonth(q, q.n + 1)]
      BY <1>8, <2>2
    <3> QED BY <1>10, <3>1
  <2>3. CASE ~(row.target < x.offer.credits) /\ ~(amount <= 0)
    <3> DEFINE t == [q EXCEPT !.at = "append", !.credits = amount]
    <3>1. pass' = [pass EXCEPT ![p] = t] /\ t \in PassType
      BY <1>8, <1>10, <2>3
    <3>2. \E c : t = [q EXCEPT !.at = "append", !.credits = c]
      OBVIOUS
    <3> HIDE DEF t
    <3> QED BY <3>1, <3>2
  <2> QED BY <2>1, <2>2, <2>3
<1>12. PICK s \in PassType :
        /\ pass' = [pass EXCEPT ![p] = s]
        /\ \/ s = IdlePass
           \/ s = AtMonth(q, q.n + 1)
           \/ \E c : s = [q EXCEPT !.at = "append", !.credits = c]
  BY <1>11
<1>13. periods' = periods \cup {row}
  BY <1>8
<1> QED BY <1>5, <1>12, <1>13, <1>7 DEF q

LEMMA PassMonthTypes ==
  ASSUME TypesInv, NEW p \in Passes \cup {Api}, PassMonth(p)
  PROVE  TypesInv'
<1>1. PICK row \in PeriodType, s \in PassType :
        /\ periods' = periods \cup {row}
        /\ pass' = [pass EXCEPT ![p] = s]
  BY PassMonthEffect
<1>2. UNCHANGED <<external, grants, local, hook, api, crashes>>
  BY DEF PassMonth
<1>3. TypeOK'
  BY <1>1, <1>2 DEF TypesInv, TypeOK, external, local
<1>4. FinitePeriods'
  BY <1>1, FS_AddElement DEF TypesInv, FinitePeriods
<1> QED BY <1>2, <1>3, <1>4 DEF TypesInv, external, local, HookReads, ApiReads

LEMMA PassAppendTypes ==
  ASSUME TypesInv, NEW p \in Passes \cup {Api}, PassAppend(p)
  PROVE  TypesInv'
<1> DEFINE q   == pass[p]
           key == <<"month", Boundary(q.anchor, q.n)>>
<1>1. /\ q \in PassType /\ periods \subseteq PeriodType
      /\ pass \in [Passes \cup {Api} -> PassType]
  BY DEF TypesInv, TypeOK
<1>2. PICK r \in Row(q.rev, q.n) :
        IF Fits(key, r, q.credits)
        THEN /\ periods' = (periods \ {r})
                  \cup {[r EXCEPT !.granted = @ + q.credits]}
             /\ grants' = grants \cup {GrantOf(key, r, q.credits)}
             /\ pass' = [pass EXCEPT ![p] = AtMonth(q, q.n + 1)]
        ELSE /\ UNCHANGED credits
             /\ pass' = [pass EXCEPT ![p] =
                  IF Replayed(key, r, q.credits) THEN AtMonth(q, q.n + 1)
                  ELSE IdlePass]
  BY DEF PassAppend
<1> HIDE DEF key, q
<1>3. [r EXCEPT !.granted = @ + q.credits] \in PeriodType
  BY <1>1 DEF Row, PassType, PeriodType
<1>4. periods' \subseteq PeriodType
  BY <1>1, <1>2, <1>3 DEF credits
<1>5. PICK s \in PassType : pass' = [pass EXCEPT ![p] = s]
  <2>1. IdlePass \in PassType
    BY DEF IdlePass, PassType
  <2>2. q.n + 1 \in Nat
    BY <1>1 DEF PassType
  <2>3. AtMonth(q, q.n + 1) \in PassType
    BY <1>1, <2>2, AtMonthType
  <2> QED BY <1>2, <2>1, <2>3
<1>6. UNCHANGED <<external, local, hook, api, crashes>>
  BY DEF PassAppend
<1>7. TypeOK'
  BY <1>1, <1>4, <1>5, <1>6 DEF TypesInv, TypeOK, external, local
<1>8. FinitePeriods'
  <2>1. /\ IsFiniteSet(periods \ {r})
        /\ IsFiniteSet((periods \ {r}) \cup {[r EXCEPT !.granted = @ + q.credits]})
    BY FS_RemoveElement, FS_AddElement DEF TypesInv, FinitePeriods
  <2> QED BY <1>2, <2>1 DEF TypesInv, FinitePeriods, credits
<1> QED BY <1>6, <1>7, <1>8 DEF TypesInv, external, local, HookReads, ApiReads

LEMMA RowsFinite ==
  ASSUME TypesInv, NEW rev
  PROVE  IsFiniteSet(Rows(rev)) /\ Cardinality(Rows(rev)) \in Nat
BY FS_Subset, FS_CardinalityType DEF TypesInv, FinitePeriods, Rows

LEMMA PassTypes ==
  ASSUME TypesInv, NEW p \in Passes \cup {Api},
         Pass(p) \/ PassStart(p) \/ PassCrash(p)
  PROVE  TypesInv'
<1>1. IdlePass \in PassType /\ pass[p] \in PassType
  BY DEF IdlePass, PassType, TypesInv, TypeOK
<1>2. CASE PassPlan(p)
  <2> DEFINE n == Cardinality(Rows(pass[p].rev))
             q == [pass[p] EXCEPT !.pays = payments]
  <2>1. n \in Nat
    BY RowsFinite
  <2>2. q \in PassType
    BY <1>1 DEF TypesInv, TypeOK, PassType
  <2>3. pass' = [pass EXCEPT ![p] = AtMonth(q, n)]
    BY <1>2 DEF PassPlan
  <2> HIDE DEF n, q
  <2>4. AtMonth(q, n) \in PassType
    BY <2>1, <2>2, AtMonthType
  <2> QED BY <1>2, <2>3, <2>4, PassOnlyTypes DEF PassPlan
<1>3. CASE PassUncovered(p)
  BY <1>1, <1>3, PassOnlyTypes DEF PassUncovered
<1>4. CASE PassMonth(p)
  BY <1>4, PassMonthTypes
<1>5. CASE PassAppend(p)
  BY <1>5, PassAppendTypes
<1>6. CASE PassStart(p)
  BY <1>6, StartedType, PassOnlyTypes DEF PassStart
<1>7. CASE PassCrash(p)
  <2>1. crashes' \in 0..MaxCrashes
    BY <1>7, SubscriptionAssumption DEF PassCrash, TypesInv, TypeOK
  <2>2. IdleApi \in ApiType /\ IdleApi.at = "idle"
    BY DEF IdleApi, ApiType
  <2>3. UNCHANGED <<now, stripe, invoices, events, periods, grants, sub,
                    payments, intents, hook>>
    BY <1>7 DEF PassCrash, external, credits, local
  <2>4. TypeOK'
    BY <1>1, <1>7, <2>1, <2>2, <2>3 DEF PassCrash, TypesInv, TypeOK
  <2>5. FinitePeriods' /\ HookReads' /\ ApiReads'
    BY <1>7, <2>2, <2>3 DEF PassCrash, TypesInv, FinitePeriods, HookReads,
                            ApiReads
  <2> QED BY <2>4, <2>5 DEF TypesInv
<1> QED BY <1>2, <1>3, <1>4, <1>5, <1>6, <1>7 DEF Pass

-----------------------------------------------------------------------------
(* Types of the change requests *)

LEMMA ApiPassType ==
  ASSUME TypesInv
  PROVE  ApiPass \in [Passes \cup {Api} -> PassType]
BY StartedType DEF ApiPass, TypesInv, TypeOK

\* A request that moves on to a step with what it has read.
LEMMA ApiOnlyTypes ==
  ASSUME TypesInv, api' \in ApiType, ApiReads',
         pass' \in [Passes \cup {Api} -> PassType],
         UNCHANGED <<external, credits, local, hook, crashes>>
  PROVE  TypesInv'
BY DEF TypesInv, external, credits, local, TypeOK, FinitePeriods, HookReads

LEMMA ModeKinds ==
  ASSUME NEW current, NEW target
  PROVE  ChangeMode(current, target) \in {"current", "immediate", "renewal"}
<1> DEFINE later == \/ current.yearly /\ ~target.yearly
                    \/ target.credits < current.credits
<1>1. ChangeMode(current, target) =
        CASE current = target -> "current" [] later -> "renewal"
          [] OTHER -> "immediate"
  BY DEF ChangeMode
<1> HIDE DEF later
<1>2. CASE current = target /\ ~later
  BY <1>1, <1>2
<1>3. CASE later
  BY <1>1, <1>3
<1>4. CASE ~(current = target) /\ ~later
  BY <1>1, <1>4
<1> QED BY <1>2, <1>3, <1>4

LEMMA ChangeReadTypes ==
  ASSUME TypesInv,
         \/ \E target \in Offers : ChangeRequest(target)
         \/ ChangePreview \/ ChangeReload \/ ChangeConfirm
  PROVE  TypesInv'
<1>1. /\ api \in ApiType /\ sub \in SubType /\ now \in Nat
      /\ pass \in [Passes \cup {Api} -> PassType]
      /\ IdleApi \in ApiType
  BY DEF TypesInv, TypeOK, IdleApi, ApiType
<1>2. ASSUME NEW target \in Offers, ChangeRequest(target)
      PROVE  TypesInv'
  <2>1. ChangeMode(sub.offer, target) \in {"immediate", "renewal"}
    BY <1>2, ModeKinds DEF ChangeRequest, Available
  <2>2. api' = [IdleApi EXCEPT !.at = "context", !.read = sub,
                  !.target = target, !.mode = ChangeMode(sub.offer, target)]
    BY <1>2 DEF ChangeRequest
  <2>3. /\ api' \in ApiType
        /\ api'.at = "context" /\ api'.read = sub /\ api'.target = target
        /\ api'.mode # "current"
    <3> HIDE DEF ChangeMode
    <3> QED BY <1>1, <2>1, <2>2 DEF ApiType
  <2>4. ApiReads'
    BY <1>1, <2>3 DEF ApiReads
  <2> QED BY <1>2, <2>3, <2>4, ApiPassType, ApiOnlyTypes DEF ChangeRequest
<1>3. CASE ChangePreview
  <2>1. api.at = "context" /\ api.read \in SubType
    BY <1>3 DEF ChangePreview, TypesInv, ApiReads
  <2>2. api.target \in Offers /\ api.mode # "current"
    BY <2>1 DEF TypesInv, ApiReads
  <2>3. \E date \in Nat, amount \in Nat :
          api' = [api EXCEPT !.at = "previewed", !.date = date,
                             !.adjust = amount]
    <3>1. CASE api.mode = "renewal"
      <4>1. api' = [api EXCEPT !.at = "previewed", !.date = api.date,
                               !.adjust = api.adjust]
        BY <1>1, <1>3, <3>1 DEF ChangePreview, ApiType
      <4> QED BY <1>1, <4>1 DEF ApiType
    <3>2. CASE api.mode # "renewal"
      <4>1. PICK date \in Most(api.read.start, api.read.anchor)..now :
              \E amount \in CreditsForChange(date) :
                api' = [api EXCEPT !.at = "previewed", !.date = date,
                                   !.adjust = amount]
        BY <1>3, <3>2 DEF ChangePreview
      <4>2. PICK amount \in CreditsForChange(date) :
              api' = [api EXCEPT !.at = "previewed", !.date = date,
                                 !.adjust = amount]
        BY <4>1
      <4>3. date \in Nat /\ api.read.anchor \in Nat /\ api.read.anchor <= date
        BY <1>1, <2>1 DEF SubType, Most
      <4>4. amount \in Nat
        <5> DEFINE ordinal == OrdinalAt(api.read.anchor, date)
                   current == api.read.offer
        <5>1. current \in Offers
          BY <2>1 DEF SubType
        <5>2. CASE ~current.yearly /\ api.target.yearly
          <6>1. PICK r \in Row(api.read.rev, ordinal) :
                  amount = Most(0, api.target.credits - r.carried - r.granted)
            BY <5>2 DEF CreditsForChange
          <6>2. r \in PeriodType
            BY DEF Row, TypesInv, TypeOK
          <6>3. api.target.credits - r.carried - r.granted \in Int
            BY <2>2, <6>2, SubscriptionAssumption DEF PeriodType
          <6> QED BY <6>1, <6>3 DEF Most
        <5>3. CASE ~(~current.yearly /\ api.target.yearly)
          <6>1. amount = ProratedUpgrade(current, api.target, date,
                                         Boundary(api.read.anchor, ordinal + 1))
            BY <5>3 DEF CreditsForChange
          <6>2. /\ date <= Boundary(api.read.anchor, ordinal + 1)
                /\ Boundary(api.read.anchor, ordinal + 1) \in Nat
            BY <4>3, OrdinalBounds
          <6> QED BY <2>2, <4>3, <5>1, <6>1, <6>2, ProratedNat
        <5> QED BY <5>2, <5>3
      <4> QED BY <4>2, <4>3, <4>4
    <3> QED BY <3>1, <3>2
  <2>4. /\ api' \in ApiType /\ api'.at = "previewed"
        /\ api'.read = api.read /\ api'.target = api.target
        /\ api'.mode = api.mode
    BY <1>1, <2>3 DEF ApiType
  <2>5. ApiReads'
    BY <2>1, <2>2, <2>4 DEF ApiReads
  <2> QED BY <1>1, <1>3, <2>4, <2>5, ApiOnlyTypes DEF ChangePreview
<1>4. CASE ChangeReload
  <2>1. api.target \in Offers /\ api.mode # "current"
    BY <1>4 DEF ChangeReload, TypesInv, ApiReads
  <2>2. /\ api' \in ApiType /\ api'.at = "reloaded" /\ api'.read = sub
        /\ api'.target = api.target /\ api'.mode = api.mode
    BY <1>1, <1>4 DEF ChangeReload, ApiType
  <2>3. ApiReads'
    BY <1>1, <2>1, <2>2 DEF ApiReads
  <2> QED BY <1>4, <2>2, <2>3, ApiPassType, ApiOnlyTypes DEF ChangeReload
<1>5. CASE ChangeConfirm
  <2>1. /\ api.target \in Offers /\ api.mode # "current"
        /\ api.read \in SubType
    BY <1>5 DEF ChangeConfirm, TypesInv, ApiReads
  <2>2. /\ api' \in ApiType /\ api'.at = "admit" /\ api'.read = api.read
        /\ api'.target = api.target /\ api'.mode = api.mode
    BY <1>1, <1>5 DEF ChangeConfirm, ApiType
  <2>3. ApiReads'
    BY <2>1, <2>2 DEF ApiReads
  <2> QED BY <1>1, <1>5, <2>2, <2>3, ApiOnlyTypes DEF ChangeConfirm
<1> QED BY <1>2, <1>3, <1>4, <1>5

LEMMA IntentAt ==
  ASSUME TypesInv, NEW i \in DOMAIN intents
  PROVE  /\ intents[i] \in IntentType
         /\ intents[i].adjust \in Nat /\ intents[i].date \in Nat
         /\ intents[i].from \in Offers /\ intents[i].to \in Offers
<1>1. intents \in Seq(IntentType)
  BY DEF TypesInv, TypeOK
<1>2. intents[i] \in IntentType
  BY <1>1
<1> QED BY <1>2 DEF IntentType

LEMMA ChangeAdmitTypes == TypesInv /\ ChangeAdmit => TypesInv'
<1> SUFFICES ASSUME TypesInv, ChangeAdmit PROVE TypesInv'
  OBVIOUS
<1>1. /\ api \in ApiType /\ sub \in SubType /\ now \in Nat
      /\ intents \in Seq(IntentType)
      /\ api.target \in Offers /\ api.mode \in {"immediate", "renewal"}
  BY DEF ChangeAdmit, TypesInv, TypeOK, ApiReads, ApiType
<1> DEFINE x == [status |-> "pending", mode |-> api.mode, from |-> sub.offer,
                 to |-> api.target, start |-> sub.start, end |-> sub.end,
                 date |-> api.date, adjust |-> api.adjust, since |-> now]
<1>2. x \in IntentType
  BY <1>1 DEF SubType, ApiType, IntentType
<1>3. \/ intents' = Append(intents, x)
      \/ Pending # {} /\ intents' = intents
  BY DEF ChangeAdmit
<1> HIDE DEF x
<1>4. intents' \in Seq(IntentType) /\ Len(intents') \in DOMAIN intents'
  <2>1. CASE intents' = Append(intents, x)
    BY <1>1, <1>2, <2>1
  <2>2. CASE Pending # {} /\ intents' = intents
    BY <1>1, <2>2 DEF Pending
  <2> QED BY <1>3, <2>1, <2>2
<1>5. api' = [api EXCEPT !.at = "stripe", !.intent = Len(intents'),
                         !.end = sub.end]
  BY DEF ChangeAdmit
<1>6. /\ api' \in ApiType /\ api'.at = "stripe" /\ api'.intent = Len(intents')
      /\ api'.target = api.target /\ api'.mode = api.mode
  <2>1. Len(intents') \in Nat /\ sub.end \in Nat
    BY <1>1, <1>4 DEF SubType
  <2> QED BY <1>1, <1>5, <2>1 DEF ApiType
<1>7. UNCHANGED <<now, stripe, invoices, events, periods, grants, sub,
                  payments, pass, hook, crashes>>
  BY DEF ChangeAdmit, external, credits
<1>8. TypeOK'
  BY <1>4, <1>6, <1>7 DEF TypesInv, TypeOK
<1>9. FinitePeriods' /\ HookReads' /\ ApiReads'
  BY <1>1, <1>4, <1>6, <1>7 DEF TypesInv, FinitePeriods, HookReads, ApiReads
<1> QED BY <1>8, <1>9 DEF TypesInv

LEMMA ChangeChargeTypes == TypesInv /\ ChangeCharge => TypesInv'
<1> SUFFICES ASSUME TypesInv, ChangeCharge PROVE TypesInv'
  OBVIOUS
<1> DEFINE i      == api.intent
           to     == api.target
           resets == stripe.offer.yearly # to.yearly
           start  == IF resets THEN now ELSE stripe.start
           end    == IF resets THEN now + Length(to) ELSE stripe.end
           from   == IF resets THEN now ELSE intents[i].date
           x      == [kind |-> "change", offer |-> to, start |-> from,
                      end |-> end, meta |-> i]
<1>1. /\ api \in ApiType /\ stripe \in StripeType /\ now \in Nat
      /\ intents \in Seq(IntentType) /\ invoices \in Seq(InvoiceType)
      /\ to \in Offers /\ i \in DOMAIN intents /\ api.mode # "current"
  BY DEF ChangeCharge, TypesInv, TypeOK, ApiReads
<1>2. /\ stripe' = [stripe EXCEPT !.offer = to, !.start = start, !.end = end,
                                  !.meta = i]
      /\ invoices' = Append(invoices, x)
      /\ events' = events + 1
      /\ api' = [api EXCEPT !.at = "apply", !.start = start, !.end = end]
  BY DEF ChangeCharge
<1>3. start \in Nat /\ end \in Nat /\ from \in Nat /\ i \in Nat
  <2>1. now + Length(to) \in Nat
    BY <1>1, LengthNat
  <2>2. intents[i].date \in Nat
    BY <1>1, IntentAt
  <2> QED BY <1>1, <2>1, <2>2 DEF StripeType
<1> HIDE DEF start, end, from
<1>4. stripe' \in StripeType
  BY <1>1, <1>2, <1>3 DEF StripeType
<1>5. x \in InvoiceType
  BY <1>1, <1>3 DEF InvoiceType
<1> HIDE DEF x
<1>6. /\ invoices' \in Seq(InvoiceType)
      /\ DOMAIN invoices \subseteq DOMAIN invoices'
  BY <1>1, <1>2, <1>5
<1>7. /\ api' \in ApiType /\ api'.at = "apply" /\ api'.intent = i
      /\ api'.target = to /\ api'.mode = api.mode
  BY <1>1, <1>2, <1>3 DEF ApiType
<1>8. UNCHANGED <<now, periods, grants, sub, payments, intents, pass, hook,
                  crashes>>
  BY DEF ChangeCharge, credits, local
<1>9. TypeOK'
  BY <1>2, <1>4, <1>6, <1>7, <1>8 DEF TypesInv, TypeOK
<1>10. FinitePeriods' /\ HookReads' /\ ApiReads'
  BY <1>1, <1>6, <1>7, <1>8 DEF TypesInv, FinitePeriods, HookReads, ApiReads
<1> QED BY <1>9, <1>10 DEF TypesInv

LEMMA ChangeGrantTypes ==
  ASSUME TypesInv, NEW i \in DOMAIN intents,
         NEW rows \in SUBSET PeriodType, IsFiniteSet(rows),
         NEW r \in PeriodType, WithChangeGrant(i, rows, r)
  PROVE  periods' \subseteq PeriodType /\ FinitePeriods'
<1>1. intents[i].adjust \in Nat
  BY IntentAt
<1> DEFINE s == [r EXCEPT !.granted = @ + intents[i].adjust]
<1>2. s \in PeriodType
  BY <1>1 DEF PeriodType
<1>3. periods' = rows \cup {r} \/ periods' = rows \cup {s}
  BY DEF WithChangeGrant
<1> HIDE DEF s
<1> QED BY <1>2, <1>3, FS_AddElement DEF FinitePeriods

LEMMA ApplyPaidTypes ==
  ASSUME TypesInv, NEW i, NEW start \in Nat, NEW end \in Nat,
         ApplyPaid(i, start, end)
  PROVE  /\ sub' \in SubType /\ payments' \subseteq PaymentType
         /\ periods' \subseteq PeriodType /\ FinitePeriods'
         /\ intents' \in Seq(IntentType) /\ DOMAIN intents' = DOMAIN intents
<1> DEFINE to     == intents[i].to
           resets == intents[i].from.yearly # to.yearly
<1>1. /\ i \in DOMAIN intents /\ intents[i] \in IntentType
      /\ intents \in Seq(IntentType) /\ sub \in SubType
      /\ periods \subseteq PeriodType /\ payments \subseteq PaymentType
      /\ to \in Offers
  BY IntentAt DEF ApplyPaid, Pending, TypesInv, TypeOK
<1>2. /\ sub' = [sub EXCEPT !.offer = to, !.start = start, !.end = end,
                            !.anchor = IF resets THEN start ELSE @,
                            !.rev = IF resets THEN @ + 1 ELSE @,
                            !.through = Most(@, end), !.next = None]
      /\ intents' = [intents EXCEPT ![i].status = "applied"]
  BY DEF ApplyPaid
<1>3. sub' \in SubType
  <2> HIDE DEF resets
  <2>1. sub.through \in Nat /\ sub.anchor \in Nat /\ sub.rev \in Nat
    BY <1>1 DEF SubType
  <2>2. Most(sub.through, end) \in Nat
    BY <2>1, MostNat
  <2>3. /\ (IF resets THEN start ELSE sub.anchor) \in Nat
        /\ (IF resets THEN sub.rev + 1 ELSE sub.rev) \in Nat
    BY <2>1
  <2> QED BY <1>1, <1>2, <2>2, <2>3 DEF SubType
<1>4. payments' \subseteq PaymentType
  <2>1. PICK k \in Paid(i) :
          payments' = payments \cup
            {[invoice |-> k, offer |-> to, start |-> invoices[k].start,
              end |-> invoices[k].end]}
    BY DEF ApplyPaid
  <2>2. k \in Nat /\ invoices[k] \in InvoiceType
    BY DEF Paid, TypesInv, TypeOK
  <2>3. [invoice |-> k, offer |-> to, start |-> invoices[k].start,
         end |-> invoices[k].end] \in PaymentType
    BY <1>1, <2>2 DEF InvoiceType, PaymentType
  <2> QED BY <1>1, <2>1, <2>3
<1>5. intents' \in Seq(IntentType) /\ DOMAIN intents' = DOMAIN intents
  <2>1. [intents[i] EXCEPT !.status = "applied"] \in IntentType
    BY <1>1 DEF IntentType
  <2> QED BY <1>1, <1>2, <2>1
<1>6. periods' \subseteq PeriodType /\ FinitePeriods'
  <2>1. CASE RestartMonths(i, start)
    <3>1. PICK r \in periods :
            /\ r \in Row(sub.rev, OrdinalAt(sub.anchor, intents[i].date))
            /\ WithChangeGrant(i, periods, FirstMonth(i, r, start))
      BY <2>1 DEF RestartMonths, Row
    <3>2. Carried(i, r) \in Nat
      BY <1>1, SubscriptionAssumption DEF Carried, Least, PeriodType
    <3>3. FirstMonth(i, r, start) \in PeriodType
      <4>1. Boundary(start, 1) \in Nat
        BY BoundaryNat
      <4>2. sub.rev + 1 \in Nat
        BY <1>1 DEF SubType
      <4>3. to.credits \in Nat
        BY <1>1, SubscriptionAssumption
      <4> QED BY <3>2, <4>1, <4>3, <4>2 DEF FirstMonth, PeriodType
    <3> QED BY <1>1, <3>1, <3>3, ChangeGrantTypes DEF TypesInv, FinitePeriods
  <2>2. CASE RaiseMonth(i)
    <3>1. PICK r \in periods :
            WithChangeGrant(i, periods \ {r},
                            [r EXCEPT !.target = @ + intents[i].adjust])
      BY <2>2 DEF RaiseMonth, Row
    <3>2. [r EXCEPT !.target = @ + intents[i].adjust] \in PeriodType
      <4>1. intents[i].adjust \in Nat
        BY <1>1, IntentAt
      <4> QED BY <1>1, <4>1 DEF PeriodType
    <3>3. IsFiniteSet(periods \ {r}) /\ periods \ {r} \subseteq PeriodType
      BY <1>1, FS_RemoveElement DEF TypesInv, FinitePeriods
    <3> QED BY <1>1, <3>1, <3>2, <3>3, ChangeGrantTypes
  <2> QED BY <2>1, <2>2 DEF ApplyPaid
<1> QED BY <1>3, <1>4, <1>5, <1>6

LEMMA ApplyTypes ==
  TypesInv /\ (ChangeApply \/ \E k \in DOMAIN invoices : InvoiceApply(k))
    => TypesInv'
<1>1. ASSUME TypesInv, ChangeApply PROVE TypesInv'
  <2>1. /\ api \in ApiType /\ api.start \in Nat /\ api.end \in Nat
        /\ IdleApi \in ApiType /\ IdleApi.at = "idle"
    BY <1>1 DEF TypesInv, TypeOK, ApiType, IdleApi
  <2>2. ApplyPaid(api.intent, api.start, api.end) /\ api' = IdleApi
    BY <1>1 DEF ChangeApply
  <2>3. /\ sub' \in SubType /\ payments' \subseteq PaymentType
        /\ periods' \subseteq PeriodType /\ FinitePeriods'
        /\ intents' \in Seq(IntentType)
    BY <1>1, <2>1, <2>2, ApplyPaidTypes
  <2>4. UNCHANGED <<now, stripe, invoices, events, pass, hook, crashes>>
    BY <1>1 DEF ChangeApply, external
  <2>5. TypeOK'
    BY <1>1, <2>1, <2>2, <2>3, <2>4 DEF TypesInv, TypeOK
  <2>6. HookReads' /\ ApiReads'
    BY <1>1, <2>1, <2>2, <2>4 DEF TypesInv, HookReads, ApiReads
  <2> QED BY <2>3, <2>5, <2>6 DEF TypesInv
<1>2. ASSUME TypesInv, NEW k \in DOMAIN invoices, InvoiceApply(k)
      PROVE  TypesInv'
  <2> DEFINE i == invoices[k].meta
  <2>1. stripe.start \in Nat /\ stripe.end \in Nat
    BY <1>2 DEF TypesInv, TypeOK, StripeType
  <2>2. ApplyPaid(i, stripe.start, stripe.end)
    BY <1>2 DEF InvoiceApply
  <2>3. /\ sub' \in SubType /\ payments' \subseteq PaymentType
        /\ periods' \subseteq PeriodType /\ FinitePeriods'
        /\ intents' \in Seq(IntentType) /\ DOMAIN intents' = DOMAIN intents
    BY <1>2, <2>1, <2>2, ApplyPaidTypes
  <2>4. UNCHANGED <<now, stripe, invoices, events, pass, hook, api, crashes>>
    BY <1>2 DEF InvoiceApply, external, actors
  <2>5. TypeOK'
    BY <1>2, <2>3, <2>4 DEF TypesInv, TypeOK
  <2>6. HookReads' /\ ApiReads'
    BY <1>2, <2>3, <2>4 DEF TypesInv, HookReads, ApiReads
  <2> QED BY <2>3, <2>5, <2>6 DEF TypesInv
<1> QED BY <1>1, <1>2

LEMMA ApplyRenewalTypes ==
  ASSUME TypesInv, NEW i, ApplyRenewal(i)
  PROVE  /\ sub' \in SubType
         /\ intents' \in Seq(IntentType) /\ DOMAIN intents' = DOMAIN intents
<1>1. /\ i \in DOMAIN intents /\ sub \in SubType /\ intents \in Seq(IntentType)
  BY DEF ApplyRenewal, Pending, TypesInv, TypeOK
<1>2. intents[i] \in IntentType /\ intents[i].to \in Offers
  BY <1>1, IntentAt
<1>3. [intents[i] EXCEPT !.status = "applied"] \in IntentType
  BY <1>2 DEF IntentType
<1>4. /\ sub' = [sub EXCEPT !.next = intents[i].to]
      /\ intents' = [intents EXCEPT ![i].status = "applied"]
  BY DEF ApplyRenewal
<1>5. sub' \in SubType
  BY <1>1, <1>2, <1>4 DEF SubType
<1> QED BY <1>1, <1>3, <1>4, <1>5

LEMMA ChangeEndTypes ==
  ASSUME TypesInv,
         \/ ChangeSchedule \/ ChangeComplete \/ ChangeGiveUp
         \/ \E i \in DOMAIN intents :
              ChangeResume(i) \/ ScheduleApply(i) \/ ChangeAbandon(i)
  PROVE  TypesInv'
<1>1. /\ IdleApi \in ApiType /\ IdleApi.at = "idle"
      /\ api \in ApiType /\ stripe \in StripeType /\ sub \in SubType
      /\ pass \in [Passes \cup {Api} -> PassType]
      /\ intents \in Seq(IntentType)
  BY DEF IdleApi, ApiType, TypesInv, TypeOK
<1>2. CASE ChangeSchedule
  <2>1. /\ api.target \in Offers /\ api.intent \in DOMAIN intents
        /\ api.mode = "renewal"
    BY <1>2 DEF ChangeSchedule, TypesInv, ApiReads
  <2>2. stripe' \in StripeType
    BY <1>1, <1>2, <2>1 DEF ChangeSchedule, StripeType, ApiType
  <2>3. /\ api' \in ApiType /\ api'.target = api.target
        /\ api'.mode = api.mode /\ api'.intent = api.intent /\ api'.at = "apply"
    BY <1>1, <1>2 DEF ChangeSchedule, ApiType
  <2>4. UNCHANGED <<now, invoices, events, periods, grants, sub, payments,
                    intents, pass, hook, crashes>>
    BY <1>2 DEF ChangeSchedule, credits, local
  <2>5. TypeOK'
    BY <2>2, <2>3, <2>4 DEF TypesInv, TypeOK
  <2> QED BY <2>1, <2>3, <2>4, <2>5 DEF TypesInv, FinitePeriods, HookReads,
                                        ApiReads
<1>3. CASE ChangeComplete
  <2>1. sub' \in SubType /\ intents' \in Seq(IntentType)
    BY <1>3, ApplyRenewalTypes DEF ChangeComplete
  <2>2. /\ api' = IdleApi
        /\ UNCHANGED <<now, stripe, invoices, events, periods, grants,
                       payments, pass, hook, crashes>>
    BY <1>3 DEF ChangeComplete, external, credits
  <2>3. TypeOK'
    BY <1>1, <2>1, <2>2 DEF TypesInv, TypeOK
  <2> QED BY <1>1, <2>2, <2>3 DEF TypesInv, FinitePeriods, HookReads, ApiReads
<1>4. CASE ChangeGiveUp
  <2>1. ApiReads'
    BY <1>1, <1>4 DEF ChangeGiveUp, ApiReads
  <2> QED BY <1>1, <1>4, <2>1, ApiOnlyTypes DEF ChangeGiveUp
<1>5. ASSUME NEW i \in DOMAIN intents, ChangeResume(i)
      PROVE  TypesInv'
  <2>1. intents[i].to \in Offers /\ sub.end \in Nat /\ i \in Nat
    BY <1>1, IntentAt DEF SubType
  <2>2. /\ api' \in ApiType /\ api'.at = "stripe" /\ api'.intent = i
        /\ api'.target \in Offers /\ api'.mode = "renewal"
    BY <1>1, <1>5, <2>1 DEF ChangeResume, ApiType
  <2>3. ApiReads'
    BY <1>5, <2>2 DEF ChangeResume, local, ApiReads
  <2> QED BY <1>1, <1>5, <2>2, <2>3, ApiOnlyTypes DEF ChangeResume
<1>6. ASSUME NEW i \in DOMAIN intents, ScheduleApply(i)
      PROVE  TypesInv'
  <2>1. /\ sub' \in SubType /\ intents' \in Seq(IntentType)
        /\ DOMAIN intents' = DOMAIN intents
    BY <1>6, ApplyRenewalTypes DEF ScheduleApply
  <2>2. UNCHANGED <<now, stripe, invoices, events, periods, grants, payments,
                    pass, hook, api, crashes>>
    BY <1>6 DEF ScheduleApply, external, credits, actors
  <2>3. TypeOK'
    BY <2>1, <2>2 DEF TypesInv, TypeOK
  <2> QED BY <2>1, <2>2, <2>3 DEF TypesInv, FinitePeriods, HookReads, ApiReads
<1>7. ASSUME NEW i \in DOMAIN intents, ChangeAbandon(i)
      PROVE  TypesInv'
  <2>1. [intents[i] EXCEPT !.status = "failed"] \in IntentType
    BY IntentAt DEF IntentType
  <2>2. intents' \in Seq(IntentType) /\ DOMAIN intents' = DOMAIN intents
    BY <1>1, <1>7, <2>1 DEF ChangeAbandon
  <2>3. UNCHANGED <<now, stripe, invoices, events, periods, grants, sub,
                    payments, pass, hook, api, crashes>>
    BY <1>7 DEF ChangeAbandon, external, credits, actors
  <2>4. TypeOK'
    BY <2>2, <2>3 DEF TypesInv, TypeOK
  <2> QED BY <2>2, <2>3, <2>4 DEF TypesInv, FinitePeriods, HookReads, ApiReads
<1> QED BY <1>2, <1>3, <1>4, <1>5, <1>6, <1>7

LEMMA TypesStutter == TypesInv /\ UNCHANGED vars => TypesInv'
BY DEF TypesInv, vars, external, credits, local, actors, TypeOK,
       FinitePeriods, HookReads, ApiReads

LEMMA TypesStep == TypesInv /\ [Next]_vars => TypesInv'
<1> SUFFICES ASSUME TypesInv, [Next]_vars PROVE TypesInv'
  OBVIOUS
<1>1. CASE Tick
  BY <1>1, TickTypes
<1>2. ASSUME NEW w \in Hooks, Hook(w) \/ HookCrash(w) PROVE TypesInv'
  BY <1>2, HookTypes
<1>3. ASSUME NEW k \in DOMAIN invoices, Invoice(k) PROVE TypesInv'
  BY <1>3, InvoiceTypes, ApplyTypes DEF Invoice
<1>4. ASSUME NEW p \in Passes, PassStart(p) PROVE TypesInv'
  BY <1>4, PassTypes
<1>5. ASSUME NEW p \in Passes \cup {Api}, Pass(p) \/ PassCrash(p)
      PROVE  TypesInv'
  BY <1>5, PassTypes
<1>6. CASE \/ \E target \in Offers : ChangeRequest(target)
           \/ ChangePreview \/ ChangeReload \/ ChangeConfirm
  BY <1>6, ChangeReadTypes
<1>7. CASE ChangeAdmit
  BY <1>7, ChangeAdmitTypes
<1>8. CASE ChangeCharge
  BY <1>8, ChangeChargeTypes
<1>9. CASE ChangeApply
  BY <1>9, ApplyTypes
<1>10. CASE \/ ChangeSchedule \/ ChangeComplete \/ ChangeGiveUp
            \/ \E i \in DOMAIN intents :
                 ChangeResume(i) \/ ScheduleApply(i) \/ ChangeAbandon(i)
  BY <1>10, ChangeEndTypes
<1>11. CASE UNCHANGED vars
  BY <1>11, TypesStutter
<1> QED BY <1>1, <1>2, <1>3, <1>4, <1>5, <1>6, <1>7, <1>8, <1>9, <1>10, <1>11
        DEF Next

LEMMA TypesAlways == Spec => []TypesInv
BY TypesInit, TypesStep, PTL DEF Spec

\* Type correctness, for any offers, calendar, passes and workers: a pass
\* that dies, a change applied late or a renewal in between never makes a
\* count of credits negative (appendCreditGrant, proratedUpgradeCredits).
THEOREM SubscriptionTypes == Spec => []TypeOK
<1>1. TypesInv => TypeOK
  BY DEF TypesInv
<1> QED BY <1>1, TypesAlways, PTL

-----------------------------------------------------------------------------
(* The months of a schedule *)

\* The rows of each schedule are months from its anchor, all of them up to
\* the last, each once.
RowsInOrder(A) ==
  \A r \in periods :
    /\ r.rev <= sub.rev
    /\ r.start = Boundary(A[r.rev], r.n)
    /\ \A k \in 0..r.n : Row(r.rev, k) # {}
    /\ \A s \in Row(r.rev, r.n) : s = r

\* A pass works on a schedule that is or was current, and has all the months
\* before its own behind it.
PassInOrder(A, q) ==
  q.at # "idle" =>
    /\ q.rev <= sub.rev /\ q.anchor = A[q.rev]
    /\ q.at \in {"month", "append"} =>
         \A k \in Nat : k < q.n => Row(q.rev, k) # {}

MonthsFrom(A) ==
  /\ sub.anchor = A[sub.rev]
  /\ RowsInOrder(A)
  /\ \A p \in Passes \cup {Api} : PassInOrder(A, pass[p])

MonthsInv == \E A \in [Nat -> Nat] : MonthsFrom(A)

\* Counting the rows of a schedule finds the first month that has none.
LEMMA CountFindsNext ==
  ASSUME TypesInv, NEW A \in [Nat -> Nat], RowsInOrder(A), NEW rev \in Nat,
         NEW k \in Nat, k < Cardinality(Rows(rev))
  PROVE  Row(rev, k) # {}
<1> SUFFICES ASSUME Row(rev, k) = {} PROVE FALSE
  OBVIOUS
<1> DEFINE f == [r \in Rows(rev) |-> r.n]
<1>1. \A r \in Rows(rev) : r \in periods /\ r.rev = rev /\ r.n \in Nat
  BY DEF Rows, TypesInv, TypeOK, PeriodType
<1>2. \A r \in Rows(rev) : r.n < k
  <2> SUFFICES ASSUME NEW r \in Rows(rev), ~(r.n < k) PROVE FALSE
    OBVIOUS
  <2>1. r.n \in Nat /\ k \in 0..r.n
    BY <1>1
  <2>2. Row(r.rev, k) # {}
    BY <1>1, <2>1 DEF RowsInOrder
  <2> QED BY <1>1, <2>2
<1>3. \A r \in Rows(rev) : f[r] \in 0..(k - 1)
  BY <1>1, <1>2
<1>4. f \in [Rows(rev) -> 0..(k - 1)]
  BY <1>3
<1>5. ASSUME NEW r \in Rows(rev), NEW s \in Rows(rev), f[r] = f[s]
      PROVE  r = s
  <2>1. s \in Row(r.rev, r.n)
    BY <1>1, <1>5 DEF Row
  <2> QED BY <1>1, <2>1 DEF RowsInOrder
<1>6. f \in Injection(Rows(rev), 0..(k - 1))
  <2> HIDE DEF f
  <2> QED BY <1>4, <1>5 DEF Injection, IsInjective
<1>7. IsFiniteSet(0..(k - 1)) /\ Cardinality(0..(k - 1)) <= k
  <2> DEFINE b == k - 1
  <2>1. b \in Int /\ 0 \in Int /\ k \in Nat /\ b = k - 1
    OBVIOUS
  <2> HIDE DEF b
  <2>2. /\ IsFiniteSet(0..b)
        /\ Cardinality(0..b) = IF 0 > b THEN 0 ELSE b - 0 + 1
    BY <2>1, FS_Interval
  <2>3. Cardinality(0..b) <= k
    BY <2>1, <2>2
  <2> QED BY <2>1, <2>2, <2>3
<1>8. Cardinality(Rows(rev)) <= Cardinality(0..(k - 1))
  BY <1>6, <1>7, FS_Injection
<1>9. Cardinality(0..(k - 1)) \in Nat /\ Cardinality(Rows(rev)) \in Nat
  BY <1>7, RowsFinite, FS_CardinalityType
<1> QED BY <1>7, <1>8, <1>9

LEMMA InsertKeepsOrder ==
  ASSUME TypesInv, NEW A \in [Nat -> Nat], RowsInOrder(A), NEW r \in PeriodType,
         periods' = periods \cup {r}, sub.rev <= sub'.rev, sub'.rev \in Nat,
         r.rev <= sub'.rev, r.start = Boundary(A[r.rev], r.n),
         Row(r.rev, r.n) = {},
         \A k \in Nat : k < r.n => Row(r.rev, k) # {}
  PROVE  RowsInOrder(A)'
<1>1. periods \subseteq PeriodType /\ sub \in SubType
  BY DEF TypesInv, TypeOK
<1>2. \A rev, k : Row(rev, k) # {} => Row(rev, k)' # {}
  BY DEF Row
<1>3. Row(r.rev, r.n)' = {r}
  BY DEF Row
<1>4. ASSUME NEW s \in periods'
      PROVE  /\ s.rev <= sub'.rev
             /\ s.start = Boundary(A[s.rev], s.n)
             /\ \A k \in 0..s.n : Row(s.rev, k)' # {}
             /\ \A t \in Row(s.rev, s.n)' : t = s
  <2>1. CASE s = r
    <3>1. ASSUME NEW k \in 0..r.n PROVE Row(r.rev, k)' # {}
      BY <1>2, <1>3, <3>1 DEF PeriodType
    <3> QED BY <1>3, <2>1, <3>1
  <2>2. CASE s # r
    <3>1. s \in periods
      BY <2>2
    <3>2. /\ s.rev <= sub.rev
          /\ s.start = Boundary(A[s.rev], s.n)
          /\ \A k \in 0..s.n : Row(s.rev, k) # {}
          /\ \A t \in Row(s.rev, s.n) : t = s
      BY <3>1 DEF RowsInOrder
    <3>3. ~(s.rev = r.rev /\ s.n = r.n)
      BY <3>1 DEF Row
    <3>4. Row(s.rev, s.n)' = Row(s.rev, s.n)
      BY <3>3 DEF Row
    <3>5. s.rev <= sub'.rev
      BY <1>1, <3>1, <3>2 DEF PeriodType, SubType
    <3> QED BY <1>2, <3>2, <3>4, <3>5
  <2> QED BY <2>1, <2>2
<1> QED BY <1>4 DEF RowsInOrder

\* A row that is written again keeps its month.
LEMMA ReplaceKeepsOrder ==
  ASSUME TypesInv, NEW A \in [Nat -> Nat], RowsInOrder(A), NEW r \in periods, NEW s,
         s.rev = r.rev, s.n = r.n, s.start = r.start,
         periods' = (periods \ {r}) \cup {s}, sub'.rev = sub.rev
  PROVE  /\ RowsInOrder(A)'
         /\ \A rev, k : Row(rev, k) # {} => Row(rev, k)' # {}
<1>1. \A rev, k : Row(rev, k) # {} => Row(rev, k)' # {}
  <2> SUFFICES ASSUME NEW rev, NEW k, NEW t \in Row(rev, k)
               PROVE  Row(rev, k)' # {}
    OBVIOUS
  <2>1. CASE t = r
    <3>1. s \in Row(rev, k)'
      BY <2>1 DEF Row
    <3> QED BY <3>1
  <2>2. CASE t # r
    <3>1. t \in Row(rev, k)'
      BY <2>2 DEF Row
    <3> QED BY <3>1
  <2> QED BY <2>1, <2>2
<1>2. ASSUME NEW x \in periods'
      PROVE  /\ x.rev <= sub'.rev
             /\ x.start = Boundary(A[x.rev], x.n)
             /\ \A k \in 0..x.n : Row(x.rev, k)' # {}
             /\ \A t \in Row(x.rev, x.n)' : t = x
  <2>1. PICK y \in periods : /\ y.rev = x.rev /\ y.n = x.n /\ y.start = x.start
                             /\ x = IF y = r THEN s ELSE y
    BY <1>2
  <2>2. /\ y.rev <= sub.rev
        /\ y.start = Boundary(A[y.rev], y.n)
        /\ \A k \in 0..y.n : Row(y.rev, k) # {}
        /\ \A t \in Row(y.rev, y.n) : t = y
    BY DEF RowsInOrder
  <2>3. ASSUME NEW t \in Row(x.rev, x.n)' PROVE t = x
    <3>1. PICK z \in periods : /\ z.rev = t.rev /\ z.n = t.n
                               /\ t = IF z = r THEN s ELSE z
      BY <2>3 DEF Row
    <3>2. z \in Row(y.rev, y.n)
      BY <2>1, <2>3, <3>1 DEF Row
    <3>3. z = y
      BY <2>2, <3>2
    <3> QED BY <2>1, <3>1, <3>3
  <2> QED BY <1>1, <2>1, <2>2, <2>3
<1> QED BY <1>1, <1>2 DEF RowsInOrder

LEMMA PassMoves ==
  ASSUME NEW A, NEW q, PassInOrder(A, q), sub'.rev = sub.rev,
         \A rev, k : Row(rev, k) # {} => Row(rev, k)' # {}
  PROVE  PassInOrder(A, q)'
BY DEF PassInOrder

\* A pass that goes to the next month when its own has a row.
LEMMA AtMonthInOrder ==
  ASSUME TypesInv, NEW A, NEW q \in PassType, NEW n \in Nat,
         q.rev <= sub.rev, q.anchor = A[q.rev],
         \A k \in Nat : k < n => Row(q.rev, k) # {}
  PROVE  PassInOrder(A, AtMonth(q, n))
<1>1. CASE AtMonth(q, n) = IdlePass
  BY <1>1 DEF PassInOrder, IdlePass
<1>2. CASE AtMonth(q, n) = [q EXCEPT !.at = "month", !.n = n, !.credits = 0]
  <2> DEFINE s == AtMonth(q, n)
  <2>1. s.rev = q.rev /\ s.anchor = q.anchor /\ s.n = n
    BY <1>2 DEF PassType
  <2> HIDE DEF s
  <2> QED BY <2>1 DEF PassInOrder, s
<1> QED BY <1>1, <1>2 DEF AtMonth

LEMMA MonthsInit == Init => MonthsInv
<1> SUFFICES ASSUME Init PROVE MonthsInv
  OBVIOUS
<1> DEFINE A == [k \in Nat |-> 0]
<1>1. A \in [Nat -> Nat]
  OBVIOUS
<1>0. PICK first \in SignUps : SignUp(first)
  BY DEF Init
<1>2. MonthsFrom(A)
  BY <1>0 DEF Init, SignUp, MonthsFrom, RowsInOrder, PassInOrder, IdlePass
<1> QED BY <1>1, <1>2 DEF MonthsInv

\* Steps that leave the rows, the schedule and the passes alone.
LEMMA QuietKeepsMonths ==
  ASSUME MonthsInv, UNCHANGED <<periods, pass>>,
         sub'.rev = sub.rev, sub'.anchor = sub.anchor
  PROVE  MonthsInv'
<1>1. PICK A \in [Nat -> Nat] : MonthsFrom(A)
  BY DEF MonthsInv
<1>2. MonthsFrom(A)'
  BY <1>1 DEF MonthsFrom, RowsInOrder, PassInOrder, Row
<1> QED BY <1>2 DEF MonthsInv

\* Steps of passes that leave the rows alone.
LEMMA PassKeepsMonths ==
  ASSUME TypesInv, NEW A \in [Nat -> Nat], MonthsFrom(A), NEW p \in Passes \cup {Api},
         NEW q, PassInOrder(A, q), pass' = [pass EXCEPT ![p] = q],
         UNCHANGED <<periods, sub>>
  PROVE  MonthsInv'
<1>1. DOMAIN pass = Passes \cup {Api}
  BY DEF TypesInv, TypeOK
<1>2. \A r \in Passes \cup {Api} : pass'[r] = IF r = p THEN q ELSE pass[r]
  BY <1>1
<1>3. ASSUME NEW r \in Passes \cup {Api}
      PROVE  PassInOrder(A, pass[r])'
  <2>1. pass'[r] = q \/ pass'[r] = pass[r]
    BY <1>2
  <2>2. PassInOrder(A, pass[r])
    BY DEF MonthsFrom
  <2> QED BY <2>1, <2>2 DEF PassInOrder, Row
<1>4. RowsInOrder(A)' /\ sub'.anchor = A[sub'.rev]
  BY DEF MonthsFrom, RowsInOrder, Row
<1> QED BY <1>3, <1>4 DEF MonthsInv, MonthsFrom

LEMMA IdleInOrder ==
  ASSUME NEW A
  PROVE  PassInOrder(A, IdlePass)
BY DEF PassInOrder, IdlePass

LEMMA PassPlanMonths ==
  ASSUME TypesInv, MonthsInv, NEW p \in Passes \cup {Api}, PassPlan(p)
  PROVE  MonthsInv'
<1>1. PICK A \in [Nat -> Nat] : MonthsFrom(A)
  BY DEF MonthsInv
<1> DEFINE n == Cardinality(Rows(pass[p].rev))
           q == [pass[p] EXCEPT !.pays = payments]
<1>2. /\ pass[p] \in PassType /\ pass[p].at = "plan"
      /\ PassInOrder(A, pass[p])
  BY <1>1 DEF PassPlan, TypesInv, TypeOK, MonthsFrom
<1>3. /\ q \in PassType /\ q.rev = pass[p].rev /\ q.anchor = pass[p].anchor
      /\ q.rev \in Nat
  BY <1>2 DEF TypesInv, TypeOK, PassType
<1>4. n \in Nat
  BY RowsFinite
<1>5. \A k \in Nat : k < n => Row(q.rev, k) # {}
  BY <1>1, <1>3, CountFindsNext DEF MonthsFrom
<1>6. q.rev <= sub.rev /\ q.anchor = A[q.rev]
  BY <1>2, <1>3 DEF PassInOrder
<1>7. /\ pass' = [pass EXCEPT ![p] = AtMonth(q, n)]
      /\ UNCHANGED <<periods, sub>>
  BY DEF PassPlan, credits, local
<1> HIDE DEF n, q
<1>8. PassInOrder(A, AtMonth(q, n))
  BY <1>3, <1>4, <1>5, <1>6, AtMonthInOrder
<1> QED BY <1>1, <1>7, <1>8, PassKeepsMonths

LEMMA BelowNext ==
  ASSUME NEW k \in Nat, NEW n \in Nat, k < n + 1
  PROVE  k < n \/ k = n
OBVIOUS

\* The rows change and one pass goes to a month all of whose predecessors
\* have a row by then.
LEMMA RowsAndPassKeepMonths ==
  ASSUME TypesInv, NEW A \in [Nat -> Nat], MonthsFrom(A),
         NEW p \in Passes \cup {Api}, NEW q \in PassType, NEW s,
         q.rev <= sub.rev, q.anchor = A[q.rev], q.at = "month" \/ q.at = "append",
         \A k \in Nat : k < q.n => Row(q.rev, k) # {},
         \/ s = IdlePass
         \/ /\ s = AtMonth(q, q.n + 1)
            /\ Row(q.rev, q.n)' # {}
         \/ \E c : s = [q EXCEPT !.at = "append", !.credits = c],
         pass' = [pass EXCEPT ![p] = s], sub' = sub,
         RowsInOrder(A)',
         \A rev, k : Row(rev, k) # {} => Row(rev, k)' # {}
  PROVE  MonthsInv'
<1>1. DOMAIN pass = Passes \cup {Api}
  BY DEF TypesInv, TypeOK
<1>2. s.at # "idle" =>
        /\ s.rev <= sub'.rev /\ s.anchor = A[s.rev]
        /\ s.at \in {"month", "append"} =>
             \A k \in Nat : k < s.n => Row(s.rev, k)' # {}
  <2>1. CASE s = IdlePass
    BY <2>1 DEF IdlePass
  <2>2. CASE /\ s = [q EXCEPT !.at = "month", !.n = q.n + 1, !.credits = 0]
             /\ Row(q.rev, q.n)' # {}
    <3>1. s.rev = q.rev /\ s.anchor = q.anchor /\ s.n = q.n + 1
      BY <2>2 DEF PassType
    <3>2. ASSUME NEW k \in Nat, k < s.n PROVE Row(s.rev, k)' # {}
      <4>1. q.n \in Nat
        BY DEF PassType
      <4>2. k < q.n + 1
        BY <3>1, <3>2
      <4>3. k < q.n \/ k = q.n
        BY <4>1, <4>2, BelowNext
      <4> QED BY <2>2, <3>1, <4>3
    <3> QED BY <3>1, <3>2
  <2>3. CASE \E c : s = [q EXCEPT !.at = "append", !.credits = c]
    <3>1. s.rev = q.rev /\ s.anchor = q.anchor /\ s.n = q.n
      BY <2>3 DEF PassType
    <3> QED BY <3>1
  <2> QED BY <2>1, <2>2, <2>3 DEF AtMonth
<1>3. ASSUME NEW r \in Passes \cup {Api}
      PROVE  PassInOrder(A, pass[r])'
  <2>1. CASE r = p
    <3>1. pass'[r] = s
      BY <1>1, <2>1
    <3> QED BY <1>2, <3>1 DEF PassInOrder
  <2>2. CASE r # p
    <3>1. pass'[r] = pass[r] /\ PassInOrder(A, pass[r])
      BY <1>1, <2>2 DEF MonthsFrom
    <3> QED BY <3>1 DEF PassInOrder
  <2> QED BY <2>1, <2>2
<1>4. sub'.anchor = A[sub'.rev]
  BY DEF MonthsFrom
<1> QED BY <1>3, <1>4 DEF MonthsInv, MonthsFrom

LEMMA PassMonthMonths ==
  ASSUME TypesInv, MonthsInv, NEW p \in Passes \cup {Api}, PassMonth(p)
  PROVE  MonthsInv'
<1>1. PICK A \in [Nat -> Nat] : MonthsFrom(A)
  BY DEF MonthsInv
<1>2. PICK q \in PassType : /\ q = pass[p] /\ q.at = "month"
                            /\ PassInOrder(A, q)
  BY <1>1 DEF PassMonth, TypesInv, TypeOK, MonthsFrom
<1>3. /\ q.rev <= sub.rev /\ q.anchor = A[q.rev]
      /\ \A k \in Nat : k < q.n => Row(q.rev, k) # {}
  BY <1>2 DEF PassInOrder
<1>4. PICK row \in PeriodType, s \in PassType :
        /\ periods' = periods \cup {row}
        /\ row.rev = pass[p].rev /\ row.n = pass[p].n
        /\ \/ row \in periods
           \/ /\ Row(pass[p].rev, pass[p].n) = {}
              /\ row.start = Boundary(pass[p].anchor, pass[p].n)
              /\ row.end = Boundary(pass[p].anchor, pass[p].n + 1)
              /\ row.granted = 0 /\ row.carried = 0
              /\ \E x \in Covering(pass[p]) : row.target = x.offer.credits
        /\ pass' = [pass EXCEPT ![p] = s]
        /\ \/ s = IdlePass
           \/ s = AtMonth(pass[p], pass[p].n + 1)
           \/ \E c : s = [pass[p] EXCEPT !.at = "append", !.credits = c]
  BY PassMonthEffect
<1>5. /\ row.rev = q.rev /\ row.n = q.n
      /\ \/ row \in periods
         \/ /\ Row(q.rev, q.n) = {}
            /\ row.start = Boundary(q.anchor, q.n)
  BY <1>2, <1>4
<1>6. \/ s = IdlePass
      \/ s = AtMonth(q, q.n + 1)
      \/ \E c : s = [q EXCEPT !.at = "append", !.credits = c]
  BY <1>2, <1>4
<1>7. sub' = sub /\ sub.rev \in Nat
  BY DEF PassMonth, local, TypesInv, TypeOK, SubType
<1>8. RowsInOrder(A)'
  <2>1. CASE row \in periods
    <3>1. periods' = periods
      BY <1>4, <2>1
    <3> QED BY <1>1, <1>7, <3>1 DEF MonthsFrom, RowsInOrder, Row
  <2>2. CASE /\ Row(q.rev, q.n) = {}
             /\ row.start = Boundary(q.anchor, q.n)
    <3>1. sub'.rev \in Nat /\ sub.rev <= sub'.rev
      BY <1>7
    <3>2. /\ row.rev <= sub'.rev
          /\ row.start = Boundary(A[row.rev], row.n)
          /\ Row(row.rev, row.n) = {}
          /\ \A k \in Nat : k < row.n => Row(row.rev, k) # {}
      BY <1>3, <1>7, <1>5, <2>2
    <3>3. periods' = periods \cup {row}
      BY <1>4
    <3> QED BY <1>1, <3>1, <3>2, <3>3, InsertKeepsOrder DEF MonthsFrom
  <2> QED BY <1>5, <2>1, <2>2
<1>9. /\ Row(q.rev, q.n)' # {}
      /\ \A rev, k : Row(rev, k) # {} => Row(rev, k)' # {}
  BY <1>4, <1>5 DEF Row
<1> QED BY <1>1, <1>2, <1>3, <1>4, <1>7, <1>8, <1>9, <1>6,
           RowsAndPassKeepMonths

LEMMA PassAppendMonths ==
  ASSUME TypesInv, MonthsInv, NEW p \in Passes \cup {Api}, PassAppend(p)
  PROVE  MonthsInv'
<1>1. PICK A \in [Nat -> Nat] : MonthsFrom(A)
  BY DEF MonthsInv
<1>2. PICK q \in PassType : /\ q = pass[p] /\ q.at = "append"
                            /\ PassInOrder(A, q)
  BY <1>1 DEF PassAppend, TypesInv, TypeOK, MonthsFrom
<1> DEFINE key == <<"month", Boundary(q.anchor, q.n)>>
<1>3. /\ q.rev <= sub.rev /\ q.anchor = A[q.rev]
      /\ \A k \in Nat : k < q.n => Row(q.rev, k) # {}
  BY <1>2 DEF PassInOrder
<1>4. PICK r \in Row(q.rev, q.n) :
        IF Fits(key, r, q.credits)
        THEN /\ periods' = (periods \ {r})
                  \cup {[r EXCEPT !.granted = @ + q.credits]}
             /\ grants' = grants \cup {GrantOf(key, r, q.credits)}
             /\ pass' = [pass EXCEPT ![p] = AtMonth(q, q.n + 1)]
        ELSE /\ UNCHANGED credits
             /\ pass' = [pass EXCEPT ![p] =
                  IF Replayed(key, r, q.credits) THEN AtMonth(q, q.n + 1)
                  ELSE IdlePass]
  BY <1>2 DEF PassAppend
<1>5. sub' = sub
  BY DEF PassAppend, local
<1> HIDE DEF key
<1>6. r \in periods /\ r.rev = q.rev /\ r.n = q.n /\ r \in PeriodType
  BY DEF Row, TypesInv, TypeOK
<1> DEFINE t == [r EXCEPT !.granted = @ + q.credits]
<1>7. t.rev = r.rev /\ t.n = r.n /\ t.start = r.start
  BY <1>6 DEF PeriodType
<1>8. periods' = periods \/ periods' = (periods \ {r}) \cup {t}
  BY <1>4 DEF credits
<1> HIDE DEF t
<1>9. RowsInOrder(A)' /\ \A rev, k : Row(rev, k) # {} => Row(rev, k)' # {}
  <2>1. CASE periods' = periods
    BY <1>1, <1>5, <2>1 DEF MonthsFrom, RowsInOrder, Row
  <2>2. CASE periods' = (periods \ {r}) \cup {t}
    BY <1>1, <1>5, <1>6, <1>7, <2>2, ReplaceKeepsOrder DEF MonthsFrom
  <2> QED BY <1>8, <2>1, <2>2
<1>10. Row(q.rev, q.n)' # {}
  BY <1>9
<1>11. PICK s : /\ \/ s = IdlePass
                   \/ /\ s = AtMonth(q, q.n + 1)
                      /\ Row(q.rev, q.n)' # {}
                /\ pass' = [pass EXCEPT ![p] = s]
  BY <1>4, <1>10
<1> QED BY <1>1, <1>2, <1>3, <1>5, <1>9, <1>11, RowsAndPassKeepMonths

LEMMA StartedInOrder ==
  ASSUME NEW A \in [Nat -> Nat], TypesInv, MonthsFrom(A)
  PROVE  PassInOrder(A, StartedPass)
<1>1. /\ StartedPass.rev = sub.rev /\ StartedPass.anchor = sub.anchor
      /\ StartedPass.at = "plan"
  BY DEF StartedPass, IdlePass
<1>2. sub.rev \in Nat
  BY DEF TypesInv, TypeOK, SubType
<1> HIDE DEF StartedPass
<1> QED BY <1>1, <1>2 DEF PassInOrder, MonthsFrom

\* A pass that starts or stops.
LEMMA PassEndsMonths ==
  ASSUME TypesInv, MonthsInv, NEW p \in Passes \cup {Api},
         \/ pass' = [pass EXCEPT ![p] = IdlePass]
         \/ pass' = [pass EXCEPT ![p] = StartedPass],
         UNCHANGED <<periods, sub>>
  PROVE  MonthsInv'
<1>1. PICK A \in [Nat -> Nat] : MonthsFrom(A)
  BY DEF MonthsInv
<1>2. PICK q : PassInOrder(A, q) /\ pass' = [pass EXCEPT ![p] = q]
  BY <1>1, IdleInOrder, StartedInOrder
<1> QED BY <1>1, <1>2, PassKeepsMonths

LEMMA PassMonths ==
  ASSUME TypesInv, MonthsInv, NEW p \in Passes \cup {Api},
         Pass(p) \/ PassStart(p) \/ PassCrash(p)
  PROVE  MonthsInv'
<1>1. CASE PassPlan(p)
  BY <1>1, PassPlanMonths
<1>2. CASE PassUncovered(p)
  BY <1>2, PassEndsMonths DEF PassUncovered, credits, local
<1>3. CASE PassMonth(p)
  BY <1>3, PassMonthMonths
<1>4. CASE PassAppend(p)
  BY <1>4, PassAppendMonths
<1>5. CASE PassStart(p)
  BY <1>5, PassEndsMonths DEF PassStart, credits, local
<1>6. CASE PassCrash(p)
  BY <1>6, PassEndsMonths DEF PassCrash, credits, local
<1> QED BY <1>1, <1>2, <1>3, <1>4, <1>5, <1>6 DEF Pass

\* The current schedule is replaced by a new one, which may have its first
\* month at once.
LEMMA NewScheduleKeepsMonths ==
  ASSUME TypesInv, MonthsInv, sub'.rev = sub.rev + 1, sub'.anchor \in Nat,
         \/ periods' = periods
         \/ \E r \in PeriodType : /\ periods' = periods \cup {r}
                                  /\ r.rev = sub.rev + 1 /\ r.n = 0
                                  /\ r.start = sub'.anchor,
         pass' = pass
  PROVE  MonthsInv'
<1>1. PICK A \in [Nat -> Nat] : MonthsFrom(A)
  BY DEF MonthsInv
<1>2. PICK top \in Nat, anchor \in Nat :
        sub.rev = top /\ sub'.anchor = anchor /\ sub'.rev = top + 1
  BY DEF TypesInv, TypeOK, SubType
<1> DEFINE B == [A EXCEPT ![top + 1] = anchor]
<1>3. /\ B \in [Nat -> Nat] /\ B[top + 1] = anchor
      /\ \A k \in Nat : k <= top => B[k] = A[k]
  BY <1>2
<1> HIDE DEF B
<1>4. \A r \in periods : r \in PeriodType /\ r.rev \in Nat /\ r.rev <= top
  BY <1>1, <1>2 DEF MonthsFrom, RowsInOrder, TypesInv, TypeOK, PeriodType
<1>5. RowsInOrder(B)
  BY <1>1, <1>3, <1>4 DEF MonthsFrom, RowsInOrder
<1>6. RowsInOrder(B)'
  <2>1. CASE periods' = periods
    <3>1. \A r \in periods : r.rev <= top + 1
      BY <1>2, <1>4
    <3> QED BY <1>2, <1>5, <2>1, <3>1 DEF RowsInOrder, Row
  <2>2. ASSUME NEW r \in PeriodType, periods' = periods \cup {r},
               r.rev = sub.rev + 1, r.n = 0, r.start = sub'.anchor
        PROVE  RowsInOrder(B)'
    <3>1. r.rev = top + 1 /\ r.start = anchor
      BY <1>2, <2>2
    <3>2. r.start = Boundary(B[r.rev], r.n)
      BY <1>2, <1>3, <2>2, <3>1, SubscriptionAssumption DEF Boundary
    <3>3. Row(r.rev, r.n) = {}
      BY <1>2, <1>4, <3>1 DEF Row
    <3>4. \A k \in Nat : k < r.n => Row(r.rev, k) # {}
      BY <2>2
    <3>5. sub.rev <= sub'.rev /\ sub'.rev \in Nat /\ r.rev <= sub'.rev
      BY <1>2, <3>1
    <3> QED BY <1>3, <1>5, <2>2, <3>2, <3>3, <3>4, <3>5, InsertKeepsOrder
  <2> QED BY <2>1, <2>2
<1>7. \A rev, k : Row(rev, k) # {} => Row(rev, k)' # {}
  BY DEF Row
<1>8. ASSUME NEW p \in Passes \cup {Api}
      PROVE  PassInOrder(B, pass[p])'
  <2>1. PassInOrder(A, pass[p]) /\ pass[p] \in PassType
    BY <1>1 DEF MonthsFrom, TypesInv, TypeOK
  <2>2. PICK q \in PassType : q = pass[p]
    BY <2>1
  <2>3. SUFFICES ASSUME q.at # "idle"
                 PROVE  /\ q.rev <= sub'.rev /\ q.anchor = B[q.rev]
                        /\ q.at \in {"month", "append"} =>
                             \A k \in Nat : k < q.n => Row(q.rev, k)' # {}
    BY <2>2 DEF PassInOrder
  <2>4. /\ q.rev <= top /\ q.anchor = A[q.rev] /\ q.rev \in Nat
        /\ q.at \in {"month", "append"} =>
             \A k \in Nat : k < q.n => Row(q.rev, k) # {}
    BY <1>2, <2>1, <2>2, <2>3 DEF PassInOrder, PassType
  <2>5. q.rev <= sub'.rev /\ q.anchor = B[q.rev]
    BY <1>2, <1>3, <2>4
  <2> QED BY <1>7, <2>4, <2>5
<1>9. sub'.anchor = B[sub'.rev]
  BY <1>2, <1>3
<1> QED BY <1>3, <1>6, <1>8, <1>9 DEF MonthsInv, MonthsFrom

LEMMA ProjectMonths ==
  ASSUME TypesInv, MonthsInv, NEW read \in StripeType, Project(read),
         UNCHANGED <<periods, pass>>
  PROVE  MonthsInv'
<1> DEFINE resets == sub.next = read.offer /\ sub.offer.yearly # read.offer.yearly
<1>1. sub \in SubType /\ read.start \in Nat
  BY DEF TypesInv, TypeOK, StripeType
<1>2. /\ sub'.anchor = IF resets THEN read.start ELSE sub.anchor
      /\ sub'.rev = IF resets THEN sub.rev + 1 ELSE sub.rev
  BY <1>1 DEF Project, SubType
<1>3. CASE resets
  BY <1>1, <1>2, <1>3, NewScheduleKeepsMonths
<1>4. CASE ~resets
  BY <1>2, <1>4, QuietKeepsMonths
<1> QED BY <1>3, <1>4

LEMMA PaymentMonths ==
  ASSUME TypesInv, MonthsInv, NEW k, RecordPayment(k),
         UNCHANGED <<periods, pass>>
  PROVE  MonthsInv'
<1>1. sub'.rev = sub.rev /\ sub'.anchor = sub.anchor
  BY DEF RecordPayment, TypesInv, TypeOK, SubType
<1> QED BY <1>1, QuietKeepsMonths

LEMMA HookMonths ==
  ASSUME TypesInv, MonthsInv, NEW w \in Hooks, Hook(w) \/ HookCrash(w)
  PROVE  MonthsInv'
<1>1. CASE RetrieveSubscription(w)
  BY <1>1, QuietKeepsMonths DEF RetrieveSubscription, credits, local
<1>2. CASE CommitProjection(w)
  <2>1. hook[w].read \in StripeType
    BY <1>2 DEF CommitProjection, TypesInv, HookReads
  <2> QED BY <1>2, <2>1, ProjectMonths DEF CommitProjection, credits
<1>3. CASE PayAfterProjection(w)
  BY <1>3, PaymentMonths DEF PayAfterProjection, credits
<1>4. CASE HookCrash(w)
  BY <1>4, QuietKeepsMonths DEF HookCrash, credits, local
<1> QED BY <1>1, <1>2, <1>3, <1>4 DEF Hook

LEMMA ChangeGrantRow ==
  ASSUME NEW i, NEW rows, NEW r \in PeriodType, WithChangeGrant(i, rows, r),
         intents[i].adjust \in Nat
  PROVE  \E s \in PeriodType :
           /\ periods' = rows \cup {s}
           /\ s.rev = r.rev /\ s.n = r.n /\ s.start = r.start
<1> DEFINE s == [r EXCEPT !.granted = @ + intents[i].adjust]
<1>1. /\ s \in PeriodType
      /\ s.rev = r.rev /\ s.n = r.n /\ s.start = r.start
  BY DEF PeriodType
<1>2. periods' = rows \cup {r} \/ periods' = rows \cup {s}
  BY DEF WithChangeGrant
<1> HIDE DEF s
<1> QED BY <1>1, <1>2

LEMMA RaiseKeepsMonths ==
  ASSUME TypesInv, MonthsInv, NEW i \in DOMAIN intents, RaiseMonth(i),
         sub'.rev = sub.rev, sub'.anchor = sub.anchor, pass' = pass
  PROVE  MonthsInv'
<1>1. PICK A \in [Nat -> Nat] : MonthsFrom(A)
  BY DEF MonthsInv
<1>2. PICK r \in periods :
        WithChangeGrant(i, periods \ {r},
                        [r EXCEPT !.target = @ + intents[i].adjust])
  BY DEF RaiseMonth, Row
<1>3. r \in PeriodType /\ intents[i].adjust \in Nat
  BY IntentAt DEF TypesInv, TypeOK
<1> DEFINE t == [r EXCEPT !.target = @ + intents[i].adjust]
<1>4. /\ t \in PeriodType
      /\ t.rev = r.rev /\ t.n = r.n /\ t.start = r.start
  BY <1>3 DEF PeriodType
<1> HIDE DEF t
<1>5. WithChangeGrant(i, periods \ {r}, t)
  BY <1>2 DEF t
<1>6. PICK s \in PeriodType :
        /\ periods' = (periods \ {r}) \cup {s}
        /\ s.rev = t.rev /\ s.n = t.n /\ s.start = t.start
  BY <1>3, <1>4, <1>5, ChangeGrantRow
<1>7. s.rev = r.rev /\ s.n = r.n /\ s.start = r.start
  BY <1>4, <1>6
<1>8. /\ RowsInOrder(A)'
      /\ \A rev, k : Row(rev, k) # {} => Row(rev, k)' # {}
  BY <1>1, <1>6, <1>7, ReplaceKeepsOrder DEF MonthsFrom
<1>9. ASSUME NEW p \in Passes \cup {Api}
      PROVE  PassInOrder(A, pass[p])'
  <2>1. PassInOrder(A, pass[p])
    BY <1>1 DEF MonthsFrom
  <2> QED BY <1>8, <2>1 DEF PassInOrder
<1>10. sub'.anchor = A[sub'.rev]
  BY <1>1 DEF MonthsFrom
<1> QED BY <1>1, <1>8, <1>9, <1>10 DEF MonthsInv, MonthsFrom

LEMMA RestartKeepsMonths ==
  ASSUME TypesInv, MonthsInv, NEW i \in DOMAIN intents, NEW start \in Nat,
         RestartMonths(i, start), sub'.rev = sub.rev + 1, sub'.anchor = start,
         pass' = pass
  PROVE  MonthsInv'
<1>1. PICK r \in periods : WithChangeGrant(i, periods, FirstMonth(i, r, start))
  BY DEF RestartMonths, Row
<1>2. /\ r \in PeriodType /\ intents[i].adjust \in Nat
      /\ intents[i].to.credits \in Nat /\ sub.rev + 1 \in Nat
      /\ Boundary(start, 1) \in Nat
  <2>1. r \in PeriodType /\ sub.rev \in Nat
    BY DEF TypesInv, TypeOK, SubType
  <2>2. intents[i].adjust \in Nat /\ intents[i].to \in Offers
    BY IntentAt
  <2>3. intents[i].to.credits \in Nat
    BY <2>2, SubscriptionAssumption
  <2>4. Boundary(start, 1) \in Nat
    BY BoundaryNat
  <2> QED BY <2>1, <2>2, <2>3, <2>4
<1>3. Carried(i, r) \in Nat
  BY <1>2 DEF Carried, Least, PeriodType
<1>4. /\ FirstMonth(i, r, start) \in PeriodType
      /\ FirstMonth(i, r, start).rev = sub.rev + 1
      /\ FirstMonth(i, r, start).n = 0
      /\ FirstMonth(i, r, start).start = start
  BY <1>2, <1>3 DEF FirstMonth, PeriodType
<1>5. PICK x \in PeriodType : x = FirstMonth(i, r, start)
  BY <1>4
<1>6. /\ WithChangeGrant(i, periods, x)
      /\ x.rev = sub.rev + 1 /\ x.n = 0 /\ x.start = start
  BY <1>1, <1>4, <1>5
<1>7. PICK s \in PeriodType :
        /\ periods' = periods \cup {s}
        /\ s.rev = x.rev /\ s.n = x.n /\ s.start = x.start
  BY <1>2, <1>6, ChangeGrantRow
<1>8. s.rev = sub.rev + 1 /\ s.n = 0 /\ s.start = sub'.anchor
  BY <1>6, <1>7
<1> QED BY <1>7, <1>8, NewScheduleKeepsMonths

LEMMA ApplyPaidMonths ==
  ASSUME TypesInv, MonthsInv, NEW i, NEW start \in Nat, NEW end \in Nat,
         ApplyPaid(i, start, end), pass' = pass
  PROVE  MonthsInv'
<1> DEFINE resets == intents[i].from.yearly # intents[i].to.yearly
<1>1. i \in DOMAIN intents /\ sub \in SubType
  BY DEF ApplyPaid, Pending, TypesInv, TypeOK
<1>2. /\ sub'.anchor = IF resets THEN start ELSE sub.anchor
      /\ sub'.rev = IF resets THEN sub.rev + 1 ELSE sub.rev
  BY <1>1 DEF ApplyPaid, SubType
<1>3. IF resets THEN RestartMonths(i, start) ELSE RaiseMonth(i)
  BY DEF ApplyPaid
<1> HIDE DEF resets
<1>4. CASE resets
  BY <1>1, <1>2, <1>3, <1>4, RestartKeepsMonths
<1>5. CASE ~resets
  BY <1>1, <1>2, <1>3, <1>5, RaiseKeepsMonths
<1> QED BY <1>4, <1>5

LEMMA ApplyMonths ==
  ASSUME TypesInv, MonthsInv,
         ChangeApply \/ \E k \in DOMAIN invoices : InvoiceApply(k)
  PROVE  MonthsInv'
<1>1. CASE ChangeApply
  <2>1. api.intent \in Nat /\ api.start \in Nat /\ api.end \in Nat
    BY DEF TypesInv, TypeOK, ApiType
  <2>2. PICK i \in Nat, start \in Nat, end \in Nat : ApplyPaid(i, start, end)
    BY <1>1, <2>1 DEF ChangeApply
  <2> QED BY <1>1, <2>2, ApplyPaidMonths DEF ChangeApply
<1>2. ASSUME NEW k \in DOMAIN invoices, InvoiceApply(k)
      PROVE  MonthsInv'
  <2>1. stripe.start \in Nat /\ stripe.end \in Nat
    BY DEF TypesInv, TypeOK, StripeType
  <2>2. invoices[k].meta \in Nat
    <3>1. invoices[k] \in InvoiceType
      BY DEF TypesInv, TypeOK
    <3> QED BY <3>1 DEF InvoiceType
  <2>3. PICK i \in Nat, start \in Nat, end \in Nat : ApplyPaid(i, start, end)
    BY <1>2, <2>1, <2>2 DEF InvoiceApply
  <2> QED BY <1>2, <2>3, ApplyPaidMonths DEF InvoiceApply, actors
<1> QED BY <1>1, <1>2

LEMMA ApplyRenewalMonths ==
  ASSUME TypesInv, MonthsInv, NEW i, ApplyRenewal(i),
         UNCHANGED <<periods, pass>>
  PROVE  MonthsInv'
<1>1. sub'.rev = sub.rev /\ sub'.anchor = sub.anchor
  BY DEF ApplyRenewal, TypesInv, TypeOK, SubType
<1> QED BY <1>1, QuietKeepsMonths

\* The steps of a change request before it is applied.
LEMMA RequestMonths ==
  ASSUME TypesInv, MonthsInv,
         \/ \E target \in Offers : ChangeRequest(target)
         \/ ChangePreview \/ ChangeReload \/ ChangeConfirm \/ ChangeAdmit
         \/ ChangeCharge \/ ChangeSchedule \/ ChangeGiveUp
  PROVE  MonthsInv'
<1>1. /\ UNCHANGED <<periods, sub>>
      /\ pass' = pass \/ pass' = ApiPass
  BY DEF ChangeRequest, ChangePreview, ChangeReload, ChangeConfirm,
         ChangeAdmit, ChangeCharge, ChangeSchedule, ChangeGiveUp, credits,
         local
<1>2. CASE pass' = pass
  BY <1>1, <1>2, QuietKeepsMonths
<1>3. CASE pass' = [pass EXCEPT ![Api] = StartedPass]
  BY <1>1, <1>3, PassEndsMonths
<1> QED BY <1>1, <1>2, <1>3 DEF ApiPass

LEMMA MonthsStep ==
  ASSUME TypesInv, MonthsInv, [Next]_vars
  PROVE  MonthsInv'
<1>1. CASE Tick
  BY <1>1, QuietKeepsMonths DEF Tick, credits, local, actors
<1>2. ASSUME NEW w \in Hooks, Hook(w) \/ HookCrash(w) PROVE MonthsInv'
  BY <1>2, HookMonths
<1>3. ASSUME NEW k \in DOMAIN invoices, Invoice(k) PROVE MonthsInv'
  <2>1. CASE PayInvoice(k)
    BY <2>1, PaymentMonths DEF PayInvoice, credits, actors
  <2>2. CASE InvoiceApply(k)
    BY <2>2, ApplyMonths
  <2>3. ASSUME NEW w \in Hooks, RetrieveForInvoice(w, k) PROVE MonthsInv'
    BY <2>3, QuietKeepsMonths DEF RetrieveForInvoice, credits, local
  <2> QED BY <1>3, <2>1, <2>2, <2>3 DEF Invoice
<1>4. ASSUME NEW p \in Passes, PassStart(p) PROVE MonthsInv'
  BY <1>4, PassMonths
<1>5. ASSUME NEW p \in Passes \cup {Api}, Pass(p) \/ PassCrash(p)
      PROVE  MonthsInv'
  BY <1>5, PassMonths
<1>6. CASE \/ \E target \in Offers : ChangeRequest(target)
           \/ ChangePreview \/ ChangeReload \/ ChangeConfirm \/ ChangeAdmit
           \/ ChangeCharge \/ ChangeSchedule \/ ChangeGiveUp
  BY <1>6, RequestMonths
<1>7. CASE ChangeApply
  BY <1>7, ApplyMonths
<1>8. CASE ChangeComplete
  BY <1>8, ApplyRenewalMonths DEF ChangeComplete, credits
<1>9. ASSUME NEW i \in DOMAIN intents,
             ChangeResume(i) \/ ScheduleApply(i) \/ ChangeAbandon(i)
      PROVE  MonthsInv'
  <2>1. CASE ChangeResume(i)
    BY <2>1, QuietKeepsMonths DEF ChangeResume, credits, local
  <2>2. CASE ScheduleApply(i)
    BY <2>2, ApplyRenewalMonths DEF ScheduleApply, credits, actors
  <2>3. CASE ChangeAbandon(i)
    BY <2>3, QuietKeepsMonths DEF ChangeAbandon, credits, actors
  <2> QED BY <1>9, <2>1, <2>2, <2>3
<1>10. CASE UNCHANGED vars
  BY <1>10, QuietKeepsMonths DEF vars, credits, local, actors
<1> QED BY <1>1, <1>2, <1>3, <1>4, <1>5, <1>6, <1>7, <1>8, <1>9, <1>10 DEF Next

LEMMA MonthsApart ==
  ASSUME NEW anchor \in Nat, NEW m \in Nat, NEW n \in Nat
  PROVE  Boundary(anchor, m) - Boundary(anchor, n) = (m - n) * Month
<1>1. Month \in Nat /\ m * Month \in Int /\ n * Month \in Int
  BY SubscriptionAssumption
<1>2. (m - n) * Month = m * Month - n * Month
  BY <1>1
<1> DEFINE a == m * Month
           b == n * Month
<1>3. (anchor + a) - (anchor + b) = a - b
  <2> HIDE DEF a, b
  <2> QED BY <1>1 DEF a, b
<1> QED BY <1>2, <1>3 DEF Boundary

LEMMA MonthsInvInOrder ==
  ASSUME TypesInv, MonthsInv
  PROVE  MonthsInOrder
<1>1. PICK A \in [Nat -> Nat] : MonthsFrom(A)
  BY DEF MonthsInv
<1>2. ASSUME NEW r \in periods
      PROVE  /\ \A k \in 0..r.n : Row(r.rev, k) # {}
             /\ \A s \in Row(r.rev, r.n) : s = r
             /\ r.start = Boundary(A[r.rev], r.n)
             /\ r.rev \in Nat /\ r.n \in Nat
  BY <1>1 DEF MonthsFrom, RowsInOrder, TypesInv, TypeOK, PeriodType
<1>3. ASSUME NEW r \in periods, NEW s \in Rows(r.rev)
      PROVE  /\ s.n = r.n => s = r
             /\ s.start - r.start = (s.n - r.n) * Month
  <2>1. s \in periods /\ s.rev = r.rev
    BY <1>3 DEF Rows
  <2>2. s.n = r.n => s \in Row(r.rev, r.n)
    BY <2>1 DEF Row
  <2>3. s.start = Boundary(A[r.rev], s.n) /\ s.n \in Nat
    BY <1>2, <2>1
  <2>4. A[r.rev] \in Nat
    BY <1>2
  <2>5. s.start - r.start = (s.n - r.n) * Month
    BY <1>2, <2>3, <2>4, MonthsApart
  <2> QED BY <1>2, <2>2, <2>5
<1> QED BY <1>2, <1>3 DEF MonthsInOrder

\* The months of every schedule are in order and without gap or double, for
\* any number of passes and workers, although a pass counts the rows, inserts
\* the next one and goes on in separate transactions, and changes and
\* renewals start new schedules meanwhile
\* (reconcileSubscriptionGrantPeriods, ensureSubscriptionCreditPeriod).
THEOREM MonthsStayInOrder == Spec => []MonthsInOrder
<1>1. Init => TypesInv /\ MonthsInv
  BY TypesInit, MonthsInit
<1>2. TypesInv /\ MonthsInv /\ [Next]_vars => (TypesInv /\ MonthsInv)'
  BY TypesStep, MonthsStep
<1>3. TypesInv /\ MonthsInv => MonthsInOrder
  BY MonthsInvInOrder
<1> QED BY <1>1, <1>2, <1>3, PTL DEF Spec

-----------------------------------------------------------------------------
(* What the rows say was granted *)

\* The grants of a month.
MonthGrants(rev, n) == {g \in grants : g.rev = rev /\ g.n = n}

\* Every grant belongs to a month that has a row.
GrantsShape ==
  /\ IsFiniteSet(grants)
  /\ \A g \in grants : g.credits \in Int /\ Row(g.rev, g.n) # {}

RowsInv == GrantsShape /\ RowsAgree

LEMMA RowsAgreeIs ==
  RowsAgree <=> \A r \in periods : /\ r.granted = SumCredits(MonthGrants(r.rev, r.n))
                                   /\ r.carried + r.granted <= r.target
BY DEF RowsAgree, MonthGrants

LEMMA NoCredits == SumCredits({}) = 0
<1> DEFINE f == [g \in {} |-> g.credits]
<1>1. DOMAIN f = {}
  OBVIOUS
<1> HIDE DEF f
<1>2. SumFunctionOnSet(f, {}) = 0
  BY SumEmpty
<1> QED BY <1>1, <1>2 DEF SumCredits, SumFunction, f

\* A new grant adds its credits.
LEMMA AddGrant ==
  ASSUME NEW G, IsFiniteSet(G), NEW g, g \notin G, \A x \in G \cup {g} : x.credits \in Int
  PROVE  SumCredits(G \cup {g}) = SumCredits(G) + g.credits
<1> DEFINE f == [x \in G \cup {g} |-> x.credits]
           h == [x \in G |-> x.credits]
<1>1. /\ DOMAIN f = G \cup {g} /\ DOMAIN h = G
      /\ f[g] = g.credits /\ \A x \in G : f[x] = h[x]
      /\ \A x \in G \cup {g} : f[x] \in Int
      /\ \A x \in G : h[x] \in Int
  OBVIOUS
<1>2. SumCredits(G \cup {g}) = SumFunctionOnSet(f, G \cup {g}) /\ SumCredits(G) = SumFunctionOnSet(h, G)
  BY <1>1 DEF SumCredits, SumFunction
<1> HIDE DEF f, h
<1>3. Ints(f, G \cup {g}) /\ Ints(h, G)
  BY <1>1 DEF Ints
<1>4. SumFunctionOnSet(f, G \cup {g}) = f[g] + SumFunctionOnSet(f, G)
  BY <1>3, SumAdd
<1>5. SumFunctionOnSet(f, G) = SumFunctionOnSet(h, G)
  BY <1>1, SumEqual
<1>6. SumFunctionOnSet(h, G) \in Int
  BY <1>3, SumInt
<1>7. g.credits \in Int
  OBVIOUS
<1> QED BY <1>1, <1>2, <1>4, <1>5, <1>6, <1>7

\* A month has one row.
OneRow == \A r \in periods : \A t \in Row(r.rev, r.n) : t = r

LEMMA MonthsOneRow ==
  ASSUME MonthsInv
  PROVE  OneRow /\ \A r \in periods : r.rev <= sub.rev
BY DEF MonthsInv, MonthsFrom, RowsInOrder, OneRow

\* R is the row that s takes the place of, or nothing when its month has no row;
\* base is what had been granted.
Replaces(R, s, base) ==
  \/ R = {} /\ Row(s.rev, s.n) = {} /\ base = 0
  \/ \E r \in periods : R = {r} /\ r.rev = s.rev /\ r.n = s.n /\ base = r.granted

\* The transaction appends g to the month of s.
Appends(g, s, base) ==
  /\ g \notin grants /\ grants' = grants \cup {g}
  /\ g.rev = s.rev /\ g.n = s.n /\ g.credits \in Nat
  /\ s.granted = base + g.credits

\* A row is written, and what it counts more is a new grant of its month.
LEMMA MonthWritten ==
  ASSUME RowsInv, OneRow, NEW R, NEW s \in PeriodType, NEW base \in Nat,
         periods' = (periods \ R) \cup {s}, Replaces(R, s, base),
         s.carried + s.granted <= s.target,
         \/ grants' = grants /\ s.granted = base
         \/ \E g : Appends(g, s, base)
  PROVE  RowsInv'
<1> DEFINE G == MonthGrants(s.rev, s.n)
<1>1. base = SumCredits(G)
  <2>1. CASE R = {} /\ Row(s.rev, s.n) = {} /\ base = 0
    <3>1. G = {}
      BY <2>1 DEF MonthGrants, RowsInv, GrantsShape
    <3> QED BY <2>1, <3>1, NoCredits
  <2>2. ASSUME NEW r \in periods, r.rev = s.rev, r.n = s.n, base = r.granted
        PROVE  base = SumCredits(G)
    BY <2>2, RowsAgreeIs DEF RowsInv
  <2> QED BY <2>1, <2>2 DEF Replaces
<1>2. \A rev, n : Row(rev, n) # {} => Row(rev, n)' # {}
  BY DEF Row, Replaces
<1>3. Row(s.rev, s.n)' # {}
  BY DEF Row
<1>4. IsFiniteSet(G) /\ \A g \in G : g.credits \in Int
  BY FS_Subset DEF MonthGrants, RowsInv, GrantsShape
<1>5. GrantsShape'
  <2>1. CASE grants' = grants
    BY <1>2, <2>1 DEF RowsInv, GrantsShape
  <2>2. ASSUME NEW g, Appends(g, s, base) PROVE GrantsShape'
    <3>1. IsFiniteSet(grants \cup {g})
      BY FS_AddElement DEF RowsInv, GrantsShape
    <3> QED BY <1>2, <1>3, <2>2, <3>1 DEF RowsInv, GrantsShape, Appends
  <2> QED BY <2>1, <2>2
<1>6. s.granted = SumCredits(MonthGrants(s.rev, s.n)')
  <2>1. CASE grants' = grants /\ s.granted = base
    <3>1. MonthGrants(s.rev, s.n)' = G
      BY <2>1 DEF MonthGrants
    <3> QED BY <1>1, <2>1, <3>1
  <2>2. ASSUME NEW g, Appends(g, s, base)
        PROVE  s.granted = SumCredits(MonthGrants(s.rev, s.n)')
    <3>1. MonthGrants(s.rev, s.n)' = G \cup {g} /\ g \notin G
      BY <2>2 DEF MonthGrants, Appends
    <3>2. g.credits \in Nat /\ s.granted = base + g.credits
      BY <2>2 DEF Appends
    <3> HIDE DEF G
    <3>3. SumCredits(G \cup {g}) = SumCredits(G) + g.credits
      BY <1>4, <3>1, <3>2, AddGrant
    <3> QED BY <1>1, <3>1, <3>2, <3>3
  <2> QED BY <2>1, <2>2
<1>7. ASSUME NEW t \in periods', t # s
      PROVE  t.granted = SumCredits(MonthGrants(t.rev, t.n)') /\ t.carried + t.granted <= t.target
  <2>1. t \in periods /\ t \notin R
    BY <1>7
  <2>2. ~(t.rev = s.rev /\ t.n = s.n)
    BY <2>1 DEF Replaces, OneRow, Row
  <2>3. MonthGrants(t.rev, t.n)' = MonthGrants(t.rev, t.n)
    <3>1. CASE grants' = grants
      BY <3>1 DEF MonthGrants
    <3>2. ASSUME NEW g, Appends(g, s, base)
          PROVE  MonthGrants(t.rev, t.n)' = MonthGrants(t.rev, t.n)
      BY <2>2, <3>2 DEF MonthGrants, Appends
    <3> QED BY <3>1, <3>2
  <2> QED BY <2>1, <2>3, RowsAgreeIs DEF RowsInv
<1> HIDE DEF G
<1>8. \A t \in periods' : /\ t.granted = SumCredits(MonthGrants(t.rev, t.n)')
                          /\ t.carried + t.granted <= t.target
  BY <1>6, <1>7
<1>9. RowsAgree'
  BY <1>8 DEF RowsAgree, MonthGrants
<1> QED BY <1>5, <1>9 DEF RowsInv

LEMMA RowsInit == Init => RowsInv
BY FS_EmptySet DEF Init, RowsInv, GrantsShape, RowsAgree

LEMMA QuietKeepsRows ==
  ASSUME RowsInv, UNCHANGED credits
  PROVE  RowsInv'
BY DEF credits, RowsInv, GrantsShape, RowsAgree, Row

LEMMA PassMonthRows ==
  ASSUME TypesInv, MonthsInv, RowsInv, NEW p \in Passes \cup {Api}, PassMonth(p)
  PROVE  RowsInv'
<1>1. PICK row \in PeriodType :
        /\ periods' = periods \cup {row}
        /\ \/ row \in periods
           \/ Row(row.rev, row.n) = {} /\ row.granted = 0 /\ row.carried = 0
  BY PassMonthEffect
<1>2. UNCHANGED grants
  BY DEF PassMonth
<1>3. CASE row \in periods
  <2>1. periods' = periods
    BY <1>1, <1>3
  <2> QED BY <1>2, <2>1, QuietKeepsRows DEF credits
<1>4. CASE Row(row.rev, row.n) = {} /\ row.granted = 0 /\ row.carried = 0
  <2>1. periods' = (periods \ {}) \cup {row} /\ Replaces({}, row, 0)
    BY <1>1, <1>4 DEF Replaces
  <2>2. row.carried + row.granted <= row.target
    BY <1>4 DEF PeriodType
  <2> QED BY <1>2, <1>4, <2>1, <2>2, MonthWritten, MonthsOneRow
<1> QED BY <1>1, <1>3, <1>4

\* The transaction of appendCreditGrant, once the ceiling has been checked.
LEMMA GrantFits ==
  ASSUME NEW key, NEW r \in PeriodType, NEW s \in PeriodType, NEW a \in Nat,
         Fits(key, r, a), grants' = grants \cup {GrantOf(key, r, a)},
         s = [r EXCEPT !.granted = @ + a]
  PROVE  /\ Appends(GrantOf(key, r, a), s, r.granted)
         /\ s.rev = r.rev /\ s.n = r.n /\ s.carried + s.granted <= s.target
<1>1. /\ s.rev = r.rev /\ s.n = r.n /\ s.carried = r.carried /\ s.target = r.target
      /\ s.granted = r.granted + a
  BY DEF PeriodType
<1>2. /\ r.granted \in Nat /\ r.carried \in Nat /\ r.target \in Nat
      /\ r.granted + a <= r.target - r.carried
  BY DEF PeriodType, Fits
<1>3. /\ GrantOf(key, r, a).key = key /\ GrantOf(key, r, a).rev = r.rev
      /\ GrantOf(key, r, a).n = r.n /\ GrantOf(key, r, a).credits = a
  BY DEF GrantOf
<1>4. GrantOf(key, r, a) \notin grants
  BY <1>3 DEF Fits
<1>5. s.carried + s.granted <= s.target
  BY <1>1, <1>2
<1> QED BY <1>1, <1>3, <1>4, <1>5 DEF Appends

\* A row stays a row when more is granted in its month, or its target is raised.
LEMMA RowGrown ==
  ASSUME NEW r \in PeriodType, NEW a \in Nat
  PROVE  /\ \E s \in PeriodType : s = [r EXCEPT !.granted = @ + a]
         /\ \E s \in PeriodType : s = [r EXCEPT !.target = @ + a]
<1>1. /\ r.rev \in Nat /\ r.n \in Nat /\ r.start \in Nat /\ r.end \in Nat
      /\ r.granted \in Nat /\ r.carried \in Nat /\ r.target \in Nat
  BY DEF PeriodType
<1>2. r.granted + a \in Nat /\ r.target + a \in Nat
  BY <1>1
<1>3. [r EXCEPT !.granted = r.granted + a] \in PeriodType
  BY <1>2 DEF PeriodType
<1>4. [r EXCEPT !.target = r.target + a] \in PeriodType
  BY <1>2 DEF PeriodType
<1> QED BY <1>3, <1>4

LEMMA PassAppendRows ==
  ASSUME TypesInv, MonthsInv, RowsInv, NEW p \in Passes \cup {Api}, PassAppend(p)
  PROVE  RowsInv'
<1> DEFINE key == <<"month", Boundary(pass[p].anchor, pass[p].n)>>
           a == pass[p].credits
<1>1. a \in Nat
  BY DEF TypesInv, TypeOK, PassType
<1>2. PICK r \in Row(pass[p].rev, pass[p].n) :
        \/ /\ Fits(key, r, a)
           /\ periods' = (periods \ {r}) \cup {[r EXCEPT !.granted = @ + a]}
           /\ grants' = grants \cup {GrantOf(key, r, a)}
        \/ UNCHANGED credits
  BY DEF PassAppend
<1>3. r \in periods /\ r \in PeriodType
  BY DEF Row, TypesInv, TypeOK
<1> HIDE DEF key, a
<1>4. CASE UNCHANGED credits
  BY <1>4, QuietKeepsRows
<1>5. CASE /\ Fits(key, r, a)
           /\ periods' = (periods \ {r}) \cup {[r EXCEPT !.granted = @ + a]}
           /\ grants' = grants \cup {GrantOf(key, r, a)}
  <2>1. PICK s \in PeriodType : s = [r EXCEPT !.granted = @ + a]
    BY <1>1, <1>3, RowGrown
  <2>2. /\ Appends(GrantOf(key, r, a), s, r.granted)
        /\ s.rev = r.rev /\ s.n = r.n /\ s.carried + s.granted <= s.target
    BY <1>1, <1>3, <1>5, <2>1, GrantFits
  <2>3. Replaces({r}, s, r.granted) /\ r.granted \in Nat
    BY <1>3, <2>2 DEF Replaces, PeriodType
  <2>4. periods' = (periods \ {r}) \cup {s}
    BY <1>5, <2>1
  <2> QED BY <2>2, <2>3, <2>4, MonthWritten, MonthsOneRow
<1> QED BY <1>2, <1>4, <1>5

\* The row that a change writes, with its grant.
LEMMA ChangeGrantRows ==
  ASSUME RowsInv, OneRow, NEW i, intents[i].adjust \in Nat, NEW R, NEW x \in PeriodType,
         WithChangeGrant(i, periods \ R, x), Replaces(R, x, x.granted),
         intents[i].adjust = 0 => x.carried + x.granted <= x.target
  PROVE  RowsInv'
<1> DEFINE a == intents[i].adjust
           key == <<"change", i>>
<1>1. x.granted \in Nat /\ a \in Nat
  BY DEF PeriodType
<1>2. \/ /\ a = 0 /\ periods' = (periods \ R) \cup {x} /\ grants' = grants
      \/ /\ Fits(key, x, a)
         /\ periods' = (periods \ R) \cup {[x EXCEPT !.granted = @ + a]}
         /\ grants' = grants \cup {GrantOf(key, x, a)}
  BY DEF WithChangeGrant
<1> HIDE DEF key
<1>3. CASE a = 0 /\ periods' = (periods \ R) \cup {x} /\ grants' = grants
  BY <1>1, <1>3, MonthWritten
<1> HIDE DEF a
<1>4. CASE /\ Fits(key, x, a)
           /\ periods' = (periods \ R) \cup {[x EXCEPT !.granted = @ + a]}
           /\ grants' = grants \cup {GrantOf(key, x, a)}
  <2>1. PICK s \in PeriodType : s = [x EXCEPT !.granted = @ + a]
    BY <1>1, RowGrown
  <2>2. /\ Appends(GrantOf(key, x, a), s, x.granted)
        /\ s.rev = x.rev /\ s.n = x.n /\ s.carried + s.granted <= s.target
    BY <1>1, <1>4, <2>1, GrantFits
  <2>3. Replaces(R, s, x.granted)
    BY <2>2 DEF Replaces
  <2>4. periods' = (periods \ R) \cup {s}
    BY <1>4, <2>1
  <2> QED BY <1>1, <2>2, <2>3, <2>4, MonthWritten
<1> QED BY <1>2, <1>3, <1>4

LEMMA RaiseRows ==
  ASSUME TypesInv, MonthsInv, RowsInv, NEW i \in DOMAIN intents, RaiseMonth(i)
  PROVE  RowsInv'
<1>1. PICK r \in periods :
        WithChangeGrant(i, periods \ {r}, [r EXCEPT !.target = @ + intents[i].adjust])
  BY DEF RaiseMonth, Row
<1>2. r \in PeriodType /\ intents[i].adjust \in Nat
  BY IntentAt DEF TypesInv, TypeOK
<1>3. PICK x \in PeriodType : x = [r EXCEPT !.target = @ + intents[i].adjust]
  BY <1>2, RowGrown
<1>4. /\ x.rev = r.rev /\ x.n = r.n /\ x.granted = r.granted /\ x.carried = r.carried
      /\ x.target = r.target + intents[i].adjust
  BY <1>2, <1>3 DEF PeriodType
<1>5. Replaces({r}, x, x.granted)
  BY <1>4 DEF Replaces
<1>6. r.carried + r.granted <= r.target
  BY RowsAgreeIs DEF RowsInv
<1>7. intents[i].adjust = 0 => x.carried + x.granted <= x.target
  BY <1>2, <1>4, <1>6 DEF PeriodType
<1>8. WithChangeGrant(i, periods \ {r}, x)
  BY <1>1, <1>3
<1> QED BY <1>2, <1>5, <1>7, <1>8, ChangeGrantRows, MonthsOneRow

LEMMA RestartRows ==
  ASSUME TypesInv, MonthsInv, RowsInv, NEW i \in DOMAIN intents, NEW start \in Nat,
         RestartMonths(i, start)
  PROVE  RowsInv'
<1>1. PICK r \in periods : WithChangeGrant(i, periods, FirstMonth(i, r, start))
  BY DEF RestartMonths, Row
<1>2. /\ r \in PeriodType /\ intents[i].adjust \in Nat
      /\ intents[i].to.credits \in Nat /\ sub.rev \in Nat /\ sub.rev + 1 \in Nat
      /\ Boundary(start, 1) \in Nat
  <2>1. r \in PeriodType /\ sub.rev \in Nat
    BY DEF TypesInv, TypeOK, SubType
  <2>2. intents[i].adjust \in Nat /\ intents[i].to \in Offers
    BY IntentAt
  <2>3. intents[i].to.credits \in Nat
    BY <2>2, SubscriptionAssumption
  <2>4. Boundary(start, 1) \in Nat
    BY BoundaryNat
  <2> QED BY <2>1, <2>2, <2>3, <2>4
<1>3. Carried(i, r) \in Nat /\ Carried(i, r) <= intents[i].to.credits
  BY <1>2 DEF Carried, Least, PeriodType
<1>4. PICK x \in PeriodType : x = FirstMonth(i, r, start)
  BY <1>2, <1>3 DEF FirstMonth, PeriodType
<1>5. /\ x.rev = sub.rev + 1 /\ x.n = 0 /\ x.granted = 0
      /\ x.carried = Carried(i, r) /\ x.target = intents[i].to.credits
  BY <1>4 DEF FirstMonth
<1>6. \A t \in periods : t.rev \in Nat /\ t.rev <= sub.rev
  BY MonthsOneRow DEF TypesInv, TypeOK, PeriodType
<1>7. Row(x.rev, x.n) = {}
  BY <1>2, <1>5, <1>6 DEF Row
<1>8. Replaces({}, x, x.granted)
  BY <1>5, <1>7 DEF Replaces
<1>9. x.carried + x.granted <= x.target
  BY <1>2, <1>3, <1>5
<1>10. WithChangeGrant(i, periods \ {}, x)
  <2>1. periods \ {} = periods
    OBVIOUS
  <2> QED BY <1>1, <1>4, <2>1
<1> QED BY <1>2, <1>8, <1>9, <1>10, ChangeGrantRows, MonthsOneRow

LEMMA ApplyPaidRows ==
  ASSUME TypesInv, MonthsInv, RowsInv, NEW i, NEW start \in Nat, NEW end \in Nat,
         ApplyPaid(i, start, end)
  PROVE  RowsInv'
<1>1. i \in DOMAIN intents
  BY DEF ApplyPaid, Pending
<1>2. RestartMonths(i, start) \/ RaiseMonth(i)
  BY DEF ApplyPaid
<1> QED BY <1>1, <1>2, RestartRows, RaiseRows

LEMMA RowsStep ==
  ASSUME TypesInv, MonthsInv, RowsInv, [Next]_vars
  PROVE  RowsInv'
<1>1. CASE Tick
  BY <1>1, QuietKeepsRows DEF Tick
<1>2. ASSUME NEW w \in Hooks, Hook(w) \/ HookCrash(w) PROVE RowsInv'
  BY <1>2, QuietKeepsRows
     DEF Hook, HookCrash, RetrieveSubscription, CommitProjection, PayAfterProjection
<1>3. ASSUME NEW k \in DOMAIN invoices, Invoice(k) PROVE RowsInv'
  <2>1. CASE PayInvoice(k)
    BY <2>1, QuietKeepsRows DEF PayInvoice
  <2>2. CASE InvoiceApply(k)
    <3>1. stripe.start \in Nat /\ stripe.end \in Nat
      BY DEF TypesInv, TypeOK, StripeType
    <3> QED BY <2>2, <3>1, ApplyPaidRows DEF InvoiceApply
  <2>3. ASSUME NEW w \in Hooks, RetrieveForInvoice(w, k) PROVE RowsInv'
    BY <2>3, QuietKeepsRows DEF RetrieveForInvoice
  <2> QED BY <1>3, <2>1, <2>2, <2>3 DEF Invoice
<1>4. ASSUME NEW p \in Passes, PassStart(p) PROVE RowsInv'
  BY <1>4, QuietKeepsRows DEF PassStart
<1>5. ASSUME NEW p \in Passes \cup {Api}, Pass(p) \/ PassCrash(p)
      PROVE  RowsInv'
  <2>1. CASE PassMonth(p)
    BY <2>1, PassMonthRows
  <2>2. CASE PassAppend(p)
    BY <2>2, PassAppendRows
  <2>3. CASE PassPlan(p) \/ PassUncovered(p) \/ PassCrash(p)
    BY <2>3, QuietKeepsRows DEF PassPlan, PassUncovered, PassCrash
  <2> QED BY <1>5, <2>1, <2>2, <2>3 DEF Pass
<1>6. CASE \/ \E target \in Offers : ChangeRequest(target)
           \/ ChangePreview \/ ChangeReload \/ ChangeConfirm \/ ChangeAdmit
           \/ ChangeCharge \/ ChangeSchedule \/ ChangeGiveUp \/ ChangeComplete
  BY <1>6, QuietKeepsRows
     DEF ChangeRequest, ChangePreview, ChangeReload, ChangeConfirm, ChangeAdmit,
         ChangeCharge, ChangeSchedule, ChangeGiveUp, ChangeComplete
<1>7. CASE ChangeApply
  <2>1. api.start \in Nat /\ api.end \in Nat
    BY DEF TypesInv, TypeOK, ApiType
  <2> QED BY <1>7, <2>1, ApplyPaidRows DEF ChangeApply
<1>8. ASSUME NEW i \in DOMAIN intents,
             ChangeResume(i) \/ ScheduleApply(i) \/ ChangeAbandon(i)
      PROVE  RowsInv'
  BY <1>8, QuietKeepsRows DEF ChangeResume, ScheduleApply, ChangeAbandon
<1>9. CASE UNCHANGED vars
  BY <1>9, QuietKeepsRows DEF vars
<1> QED BY <1>1, <1>2, <1>3, <1>4, <1>5, <1>6, <1>7, <1>8, <1>9 DEF Next

\* What a row says was granted is what the grants of its month add up to, and with
\* what it carries it stays under the ceiling, although the row of a month and its
\* grant are written in two transactions and changes raise ceilings meanwhile
\* (appendCreditGrant, applyPaidSubscriptionChange).
THEOREM RowsCorrect == Spec => []RowsAgree
<1>1. Init => TypesInv /\ MonthsInv /\ RowsInv
  BY TypesInit, MonthsInit, RowsInit
<1>2. TypesInv /\ MonthsInv /\ RowsInv /\ [Next]_vars => (TypesInv /\ MonthsInv /\ RowsInv)'
  BY TypesStep, MonthsStep, RowsStep
<1>3. RowsInv => RowsAgree
  BY DEF RowsInv
<1> QED BY <1>1, <1>2, <1>3, PTL DEF Spec

-----------------------------------------------------------------------------
(* Offers, service periods and the month of an instant *)

LEMMA LengthMonth ==
  ASSUME NEW offer \in Offers
  PROVE  /\ Length(offer) \in Nat /\ Month <= Length(offer)
         /\ ~offer.yearly => Length(offer) = Month
<1>1. Month \in Nat \ {0} /\ YearMonths \in Nat \ {0}
  BY SubscriptionAssumption
<1>2. YearMonths * Month \in Nat /\ Month <= YearMonths * Month
  BY <1>1
<1> QED BY <1>1, <1>2 DEF Length

\* What an immediate change may do to an offer.
LEMMA ImmediateRises ==
  ASSUME NEW current \in Offers, NEW target \in Offers,
         ChangeMode(current, target) = "immediate"
  PROVE  /\ current.credits <= target.credits
         /\ current.yearly => target.yearly
<1> DEFINE later == \/ current.yearly /\ ~target.yearly
                    \/ target.credits < current.credits
<1>1. ChangeMode(current, target) =
        CASE current = target -> "current" [] later -> "renewal"
          [] OTHER -> "immediate"
  BY DEF ChangeMode
<1>2. current.credits \in Nat /\ target.credits \in Nat
  BY SubscriptionAssumption
<1>3. CASE later
  <2>1. current # target
    BY <1>2, <1>3
  <2> HIDE DEF later
  <2> QED BY <1>1, <1>3, <2>1
<1> QED BY <1>2, <1>3

\* The month an instant lies in, on either side of the anchor.
LEMMA OrdinalCovers ==
  ASSUME NEW anchor \in Nat, NEW instant \in Nat
  PROVE  /\ OrdinalAt(anchor, instant) \in Int
         /\ Boundary(anchor, OrdinalAt(anchor, instant)) <= instant
         /\ instant < Boundary(anchor, OrdinalAt(anchor, instant)) + Month
<1> DEFINE a == instant - anchor
           q == a \div Month
<1>1. a \in Int /\ Month \in Nat \ {0}
  BY SubscriptionAssumption
<1>2. q \in Int /\ Month * q <= a /\ a < Month * q + Month
  BY <1>1
<1>3. Month * q = q * Month /\ q * Month \in Int
  <2> HIDE DEF q
  <2> QED BY <1>1, <1>2
<1> DEFINE x == q * Month
<1>4. x \in Int /\ x <= a /\ a < x + Month
  <2> HIDE DEF a, q
  <2> QED BY <1>2, <1>3
<1>5. OrdinalAt(anchor, instant) = q /\ Boundary(anchor, q) = anchor + x
  BY DEF OrdinalAt, Boundary
<1> HIDE DEF q, x
<1> QED BY <1>1, <1>2, <1>4, <1>5

LEMMA NextBoundary ==
  ASSUME NEW anchor \in Nat, NEW n \in Int
  PROVE  Boundary(anchor, n + 1) = Boundary(anchor, n) + Month
<1>1. (n + 1) * Month = n * Month + Month /\ n * Month \in Int /\ Month \in Nat
  BY SubscriptionAssumption
<1> DEFINE x == n * Month
<1> HIDE DEF x
<1> QED BY <1>1 DEF Boundary, x

\* The increment of a change never exceeds the difference of the allowances.
LEMMA ProratedBelow ==
  ASSUME NEW current \in Offers, NEW target \in Offers,
         current.credits <= target.credits,
         NEW date \in Nat, NEW end \in Nat, date <= end, end <= date + Month
  PROVE  current.credits + ProratedUpgrade(current, target, date, end)
           <= target.credits
<1> DEFINE g == target.credits - current.credits
           l == end - date
<1>1. /\ g \in Nat /\ l \in 0..Month /\ Month \in Nat \ {0}
      /\ current.credits \in Nat /\ target.credits \in Nat
  BY SubscriptionAssumption
<1>2. Most(0, g) = g
  BY <1>1 DEF Most
<1>3. ProratedUpgrade(current, target, date, end) = (g * l) \div Month
  BY <1>2 DEF ProratedUpgrade
<1>4. g * l \in Nat /\ g * l <= g * Month
  <2> HIDE DEF g, l
  <2> QED BY <1>1
<1>5. (g * l) \div Month <= g /\ (g * l) \div Month \in Int
  <2> DEFINE p == g * l
             q == p \div Month
  <2> HIDE DEF g, l
  <2>1. p \in Nat /\ p <= g * Month
    BY <1>4
  <2>2. q \in Int /\ Month * q <= p
    <3> HIDE DEF p
    <3> QED BY <1>1, <2>1
  <2> HIDE DEF p, q
  <2>3. Month * q <= g * Month
    BY <2>1, <2>2, <1>1
  <2>4. q <= g
    BY <2>2, <2>3, <1>1
  <2> QED BY <2>2, <2>4 DEF p, q
<1> DEFINE q == (g * l) \div Month
<1>6. q <= g /\ q \in Int
  BY <1>5
<1> HIDE DEF q
<1>7. current.credits + q <= target.credits
  BY <1>1, <1>6
<1> QED BY <1>3, <1>7 DEF q

-----------------------------------------------------------------------------
(* What Stripe sells, and the changes it is asked for *)

\* Time is inside the service period, which is a term of the offer; only a
\* change at the renewal has a schedule.
StripePaces ==
  /\ stripe.start <= now /\ now < stripe.end
  /\ stripe.end = stripe.start + Length(stripe.offer)
  /\ stripe.next # None => /\ stripe.nextIntent \in DOMAIN intents
                           /\ intents[stripe.nextIntent].mode = "renewal"

\* No invoice reaches beyond the service period, or into it with more credits.
InvoicesBelow ==
  \A k \in DOMAIN invoices :
    /\ invoices[k].end <= stripe.end
    /\ invoices[k].end > stripe.start =>
         invoices[k].offer.credits <= stripe.offer.credits

\* A change is charged once.  While its metadata is on the subscription, it
\* paid up to the end of the service period or for none of it.
ChangeInvoices ==
  \A k \in DOMAIN invoices : invoices[k].kind = "change" =>
    /\ invoices[k].meta \in DOMAIN intents
    /\ intents[invoices[k].meta].mode = "immediate"
    /\ invoices[k].offer = intents[invoices[k].meta].to
    /\ Paid(invoices[k].meta) = {k}
    /\ stripe.meta = invoices[k].meta =>
         invoices[k].end = stripe.end \/ invoices[k].end <= stripe.start

IntentsShape ==
  \A i \in DOMAIN intents :
    /\ intents[i].mode = ChangeMode(intents[i].from, intents[i].to)
    /\ intents[i].date <= now
    /\ i \in Pending => i = Len(intents)

\* An immediate change sells more, and within a cadence its increment is at
\* most the difference of the allowances.
Rises(offer, to, adjust) ==
  /\ ChangeMode(offer, to) = "immediate"
  /\ offer.yearly = to.yearly => offer.credits + adjust <= to.credits

\* Until it is charged, a change rises from what Stripe sells.
UnpaidRises ==
  \A i \in Pending : intents[i].mode = "immediate" /\ Paid(i) = {} =>
    stripe.next = None /\ Rises(stripe.offer, intents[i].to, intents[i].adjust)

ApiShape ==
  /\ api.date <= now
  /\ api.at = "context" => api.mode = ChangeMode(api.read.offer, api.target)
  /\ api.at \in {"context", "previewed", "reloaded", "admit"} =>
       \A i \in Pending : Paid(i) = {}
  /\ api.at \in {"previewed", "reloaded", "admit"} /\ api.mode = "immediate" =>
       stripe.next = None /\ Rises(stripe.offer, api.target, api.adjust)
  /\ api.at \in {"stripe", "apply"} =>
       /\ api.intent \in DOMAIN intents
       /\ intents[api.intent].mode = api.mode
       /\ intents[api.intent].to = api.target
  /\ api.at = "stripe" /\ api.mode = "immediate" =>
       api.intent \in Pending /\ Paid(api.intent) = {}
  /\ api.at = "apply" /\ api.mode = "immediate" =>
       /\ stripe.offer = api.target /\ stripe.next = None
       /\ api.start + Month <= api.end /\ api.end <= stripe.end
       /\ \E k \in Paid(api.intent) : api.end = invoices[k].end
  /\ api.at \in {"stripe", "apply"} /\ api.mode = "renewal" =>
       Pending \subseteq {api.intent}

ServiceInv ==
  /\ StripePaces /\ InvoicesBelow /\ ChangeInvoices
  /\ IntentsShape /\ UnpaidRises /\ ApiShape

LEMMA ServiceInit == Init => ServiceInv
<1> SUFFICES ASSUME Init PROVE ServiceInv
  OBVIOUS
<1>0. PICK first \in SignUps : SignUp(first)
  BY DEF Init
<1>1. /\ Length(first) \in Nat /\ Month <= Length(first)
      /\ Month \in Nat \ {0} /\ first \in Offers
  BY LengthMonth, SubscriptionAssumption
<1>2. /\ stripe = [offer |-> first, start |-> 0, end |-> Length(first),
                   next |-> None, nextIntent |-> 0, meta |-> 0]
      /\ invoices = <<[kind |-> "cycle", offer |-> first, start |-> 0,
                       end |-> Length(first), meta |-> 0]>>
      /\ now = 0 /\ intents = <<>>
  BY <1>0 DEF Init, SignUp
<1>3. StripePaces
  <2>1. stripe.start = 0 /\ stripe.end = Length(first) /\ stripe.offer = first
        /\ stripe.next = None
    BY <1>2
  <2> QED BY <1>1, <1>2, <2>1 DEF StripePaces
<1>4. InvoicesBelow
  <2>1. first.credits \in Nat
    BY <1>1, SubscriptionAssumption
  <2> QED BY <1>1, <1>2, <2>1 DEF InvoicesBelow
<1>5. ChangeInvoices /\ IntentsShape /\ UnpaidRises
  BY <1>2 DEF ChangeInvoices, IntentsShape, UnpaidRises, Pending
<1>6. ApiShape
  BY <1>2 DEF Init, ApiShape, IdleApi
<1> QED BY <1>3, <1>4, <1>5, <1>6 DEF ServiceInv

\* Steps that leave Stripe, the intents and the request alone.
LEMMA QuietKeepsService ==
  ASSUME ServiceInv, UNCHANGED <<now, stripe, invoices, intents, api>>
  PROVE  ServiceInv'
BY DEF ServiceInv, StripePaces, InvoicesBelow, ChangeInvoices, IntentsShape,
       UnpaidRises, ApiShape, Paid, Pending

\* Steps of the request alone.
LEMMA ApiKeepsService ==
  ASSUME ServiceInv, UNCHANGED <<now, stripe, invoices, intents>>, ApiShape'
  PROVE  ServiceInv'
BY DEF ServiceInv, StripePaces, InvoicesBelow, ChangeInvoices, IntentsShape,
       UnpaidRises, Paid, Pending

\* There is at most one pending change, the last one.
LEMMA OnePending ==
  ASSUME ServiceInv, NEW i \in Pending
  PROVE  /\ i \in DOMAIN intents /\ i = Len(intents)
         /\ \A j \in Pending : j = i
BY DEF ServiceInv, IntentsShape, Pending

LEMMA ApiIdles ==
  ASSUME TypesInv, api' = IdleApi, now' = now
  PROVE  ApiShape'
BY DEF ApiShape, IdleApi, TypesInv, TypeOK

\* A pending change ends.  No request is waiting for its charge.
LEMMA IntentEndsService ==
  ASSUME TypesInv, ServiceInv, NEW i \in Pending, NEW status,
         status # "pending", intents' = [intents EXCEPT ![i].status = status],
         UNCHANGED <<now, stripe, invoices>>, api' = api \/ api' = IdleApi,
         api'.at = "stripe" => api.mode # "immediate"
  PROVE  ServiceInv'
<1>1. /\ i \in DOMAIN intents /\ DOMAIN intents' = DOMAIN intents
      /\ Len(intents') = Len(intents)
  BY OnePending DEF TypesInv, TypeOK
<1>2. \A j \in DOMAIN intents :
        /\ intents'[j].mode = intents[j].mode
        /\ intents'[j].from = intents[j].from
        /\ intents'[j].to = intents[j].to
        /\ intents'[j].date = intents[j].date
        /\ intents'[j].adjust = intents[j].adjust
        /\ intents'[j].status = IF j = i THEN status ELSE intents[j].status
  BY <1>1, IntentAt DEF IntentType
<1>3. Pending' \subseteq Pending /\ Pending \subseteq DOMAIN intents
  BY <1>1, <1>2 DEF Pending
<1>4. \A j : Paid(j)' = Paid(j)
  BY DEF Paid
<1>5. StripePaces' /\ InvoicesBelow'
  BY <1>1, <1>2 DEF ServiceInv, StripePaces, InvoicesBelow
<1>6. ChangeInvoices'
  BY <1>1, <1>2, <1>4 DEF ServiceInv, ChangeInvoices
<1>7. IntentsShape' /\ UnpaidRises'
  BY <1>1, <1>2, <1>3, <1>4 DEF ServiceInv, IntentsShape, UnpaidRises
<1>8. ApiShape'
  <2>1. CASE api' = IdleApi
    BY <2>1, ApiIdles
  <2>2. CASE api' = api
    BY <1>1, <1>2, <1>3, <1>4, <2>2 DEF ServiceInv, ApiShape
  <2> QED BY <2>1, <2>2
<1> QED BY <1>5, <1>6, <1>7, <1>8 DEF ServiceInv

\* An invoice is added.
LEMMA InvoiceAdded ==
  ASSUME TypesInv, NEW v \in InvoiceType, invoices' = Append(invoices, v),
         NEW k, k = Len(invoices) + 1
  PROVE  /\ k \notin DOMAIN invoices /\ DOMAIN invoices' = DOMAIN invoices \cup {k}
         /\ invoices'[k] = v /\ \A j \in DOMAIN invoices : invoices'[j] = invoices[j]
         /\ \A i : Paid(i)' = IF v.kind = "change" /\ v.meta = i
                              THEN Paid(i) \cup {k} ELSE Paid(i)
<1>1. invoices \in Seq(InvoiceType)
  BY DEF TypesInv, TypeOK
<1>2. /\ k \notin DOMAIN invoices /\ DOMAIN invoices' = DOMAIN invoices \cup {k}
      /\ invoices'[k] = v /\ \A j \in DOMAIN invoices : invoices'[j] = invoices[j]
  BY <1>1
<1>3. \A i : Paid(i)' = IF v.kind = "change" /\ v.meta = i
                        THEN Paid(i) \cup {k} ELSE Paid(i)
  BY <1>2 DEF Paid
<1> QED BY <1>2, <1>3

LEMMA ServiceTypes ==
  ASSUME TypesInv
  PROVE  /\ now \in Nat /\ Month \in Nat \ {0} /\ stripe \in StripeType
         /\ stripe.start \in Nat /\ stripe.end \in Nat
         /\ stripe.offer \in Offers /\ stripe.offer.credits \in Nat
         /\ api.date \in Nat /\ api.adjust \in Nat
         /\ api.start \in Nat /\ api.end \in Nat
         /\ \A k \in DOMAIN invoices :
              /\ invoices[k].start \in Nat /\ invoices[k].end \in Nat
              /\ invoices[k].offer.credits \in Nat /\ invoices[k].offer \in Offers
<1>1. /\ now \in Nat /\ stripe \in StripeType /\ api \in ApiType
      /\ invoices \in Seq(InvoiceType)
  BY DEF TypesInv, TypeOK
<1>2. \A offer \in Offers : offer.credits \in Nat
  BY SubscriptionAssumption
<1>3. /\ stripe.start \in Nat /\ stripe.end \in Nat /\ stripe.offer \in Offers
      /\ api.date \in Nat /\ api.adjust \in Nat
      /\ api.start \in Nat /\ api.end \in Nat
  BY <1>1 DEF StripeType, ApiType
<1>4. \A k \in DOMAIN invoices : invoices[k] \in InvoiceType
  BY <1>1
<1>5. \A k \in DOMAIN invoices :
        /\ invoices[k].start \in Nat /\ invoices[k].end \in Nat
        /\ invoices[k].offer \in Offers
  BY <1>4 DEF InvoiceType
<1> QED BY <1>1, <1>2, <1>3, <1>5, SubscriptionAssumption

LEMMA TickService ==
  ASSUME TypesInv, ServiceInv, Tick
  PROVE  ServiceInv'
<1>1. /\ UNCHANGED <<intents, api>> /\ now' = now + 1
      /\ \A i : intents'[i] = intents[i]
  BY DEF Tick, local, actors
<1>2. Pending' = Pending
  BY <1>1 DEF Pending
<1>3. IntentsShape'
  BY <1>1, <1>2, ServiceTypes, IntentAt DEF ServiceInv, IntentsShape
<1>4. CASE now + 1 < stripe.end
  <2>1. UNCHANGED <<stripe, invoices>>
    BY <1>4 DEF Tick
  <2>2. \A i : Paid(i)' = Paid(i)
    BY <2>1 DEF Paid
  <2>3. StripePaces' /\ InvoicesBelow'
    BY <1>1, <1>4, <2>1, ServiceTypes DEF ServiceInv, StripePaces, InvoicesBelow
  <2>4. ChangeInvoices' /\ UnpaidRises'
    BY <1>1, <1>2, <2>1, <2>2 DEF ServiceInv, ChangeInvoices, UnpaidRises
  <2>5. ApiShape'
    BY <1>1, <1>2, <2>1, <2>2, ServiceTypes DEF ServiceInv, ApiShape
  <2> QED BY <1>3, <2>3, <2>4, <2>5 DEF ServiceInv
<1>5. CASE ~(now + 1 < stripe.end)
  <2> DEFINE scheduled == stripe.next # None
             offer == IF scheduled THEN stripe.next ELSE stripe.offer
             meta  == IF scheduled THEN stripe.nextIntent ELSE stripe.meta
             v == [kind |-> "cycle", offer |-> offer, start |-> stripe.end,
                   end |-> stripe.end + Length(offer), meta |-> meta]
  <2>1. /\ stripe' = [offer |-> offer, start |-> stripe.end,
                      end |-> stripe.end + Length(offer),
                      next |-> None, nextIntent |-> 0, meta |-> meta]
        /\ invoices' = Append(invoices, v)
    BY <1>5 DEF Tick
  <2>2. offer \in Offers /\ meta \in Nat
    BY DEF TypesInv, TypeOK, StripeType
  <2>3. stripe.next = None => offer = stripe.offer
    OBVIOUS
  <2> HIDE DEF offer, meta
  <2>4. Length(offer) \in Nat /\ Month <= Length(offer) /\ offer.credits \in Nat
    BY <2>2, LengthMonth, SubscriptionAssumption
  <2>5. /\ stripe'.offer = offer /\ stripe'.start = stripe.end
        /\ stripe'.end = stripe.end + Length(offer)
        /\ stripe'.next = None /\ stripe'.meta = meta
    BY <2>1
  <2>6. /\ v \in InvoiceType /\ v.kind = "cycle" /\ v.end = stripe'.end
        /\ v.offer = offer
    BY <2>2, <2>4, <2>5, ServiceTypes DEF InvoiceType
  <2> DEFINE k == Len(invoices) + 1
  <2>7. /\ DOMAIN invoices' = DOMAIN invoices \cup {k} /\ invoices'[k] = v
        /\ \A j \in DOMAIN invoices : invoices'[j] = invoices[j]
        /\ \A i : Paid(i)' = Paid(i)
    <3> HIDE DEF v
    <3> QED BY <2>1, <2>6, InvoiceAdded
  <2> HIDE DEF v, k
  <2>8. stripe.end = now + 1 /\ stripe'.end >= stripe.end
    BY <1>5, <2>4, <2>5, ServiceTypes DEF ServiceInv, StripePaces
  <2>9. StripePaces'
    BY <1>1, <2>4, <2>5, <2>8, ServiceTypes DEF StripePaces
  <2>10. InvoicesBelow'
    <3>1. ASSUME NEW j \in DOMAIN invoices
          PROVE  invoices[j].end <= stripe.end /\ invoices[j].end \in Nat
      BY ServiceTypes DEF ServiceInv, InvoicesBelow
    <3> QED BY <2>4, <2>5, <2>6, <2>7, <2>8, <3>1, ServiceTypes DEF InvoicesBelow
  <2>11. ChangeInvoices'
    <3>1. \A j \in DOMAIN invoices : invoices[j].end <= stripe'.start
      BY <2>5 DEF ServiceInv, InvoicesBelow
    <3> QED BY <1>1, <2>6, <2>7, <3>1 DEF ServiceInv, ChangeInvoices
  <2>12. UnpaidRises'
    BY <1>1, <1>2, <2>3, <2>5, <2>7 DEF ServiceInv, UnpaidRises
  <2>13. ApiShape'
    <3>1. \A i : Paid(i) \subseteq DOMAIN invoices
      BY DEF Paid
    <3>2. api.date <= now + 1 /\ (api.end <= stripe.end => api.end <= stripe'.end)
      BY <2>4, <2>5, ServiceTypes DEF ServiceInv, ApiShape
    <3> QED BY <1>1, <1>2, <2>3, <2>5, <2>7, <3>1, <3>2 DEF ServiceInv, ApiShape
  <2> QED BY <1>3, <2>9, <2>10, <2>11, <2>12, <2>13 DEF ServiceInv
<1> QED BY <1>4, <1>5

LEMMA AdmitService ==
  ASSUME TypesInv, ServiceInv, ChangeAdmit
  PROVE  ServiceInv'
<1>1. /\ UNCHANGED <<now, stripe, invoices>> /\ api.at = "admit"
      /\ api.mode = ChangeMode(sub.offer, api.target)
      /\ sub \in SubType /\ api \in ApiType /\ intents \in Seq(IntentType)
      /\ api.target \in Offers
  BY DEF ChangeAdmit, external, TypesInv, TypeOK, ApiReads
<1>2. /\ \A i \in Pending : Paid(i) = {}
      /\ api.mode = "immediate" =>
           stripe.next = None /\ Rises(stripe.offer, api.target, api.adjust)
      /\ api.date <= now
  BY <1>1 DEF ServiceInv, ApiShape
<1>3. \A i : Paid(i)' = Paid(i)
  BY <1>1 DEF Paid
<1>4. /\ api'.at = "stripe" /\ api'.intent = Len(intents')
      /\ api'.mode = api.mode /\ api'.target = api.target
      /\ api'.date = api.date
  BY <1>1 DEF ChangeAdmit, ApiType
<1>5. CASE Pending = {}
  <2> DEFINE x == [status |-> "pending", mode |-> api.mode, from |-> sub.offer,
                   to |-> api.target, start |-> sub.start, end |-> sub.end,
                   date |-> api.date, adjust |-> api.adjust, since |-> now]
             i == Len(intents) + 1
  <2>1. intents' = Append(intents, x)
    BY <1>5 DEF ChangeAdmit
  <2>2. /\ x.mode = api.mode /\ x.from = sub.offer /\ x.to = api.target
        /\ x.date = api.date /\ x.adjust = api.adjust /\ x.status = "pending"
    OBVIOUS
  <2> HIDE DEF x
  <2>3. /\ DOMAIN intents' = DOMAIN intents \cup {i} /\ i \notin DOMAIN intents
        /\ Len(intents') = i /\ intents'[i] = x
        /\ \A j \in DOMAIN intents : intents'[j] = intents[j]
    BY <1>1, <2>1
  <2> HIDE DEF i
  <2>4. Pending' = {i}
    BY <1>5, <2>2, <2>3 DEF Pending
  <2>5. Paid(i) = {}
    BY <2>3 DEF ServiceInv, ChangeInvoices, Paid
  <2>6. StripePaces' /\ InvoicesBelow'
    BY <1>1, <2>3 DEF ServiceInv, StripePaces, InvoicesBelow
  <2>7. ChangeInvoices'
    BY <1>1, <1>3, <2>3 DEF ServiceInv, ChangeInvoices
  <2>8. IntentsShape'
    BY <1>1, <1>2, <2>2, <2>3, <2>4 DEF ServiceInv, IntentsShape
  <2>9. UnpaidRises'
    BY <1>1, <1>2, <1>3, <2>2, <2>3, <2>4 DEF UnpaidRises
  <2>10. ApiShape'
    BY <1>1, <1>2, <1>3, <1>4, <2>2, <2>3, <2>4, <2>5 DEF ApiShape
  <2> QED BY <2>6, <2>7, <2>8, <2>9, <2>10 DEF ServiceInv
<1>6. CASE Pending # {}
  <2>1. /\ intents' = intents
        /\ \E i \in Pending : intents[i].mode = api.mode /\ intents[i].to = api.target
    BY <1>6 DEF ChangeAdmit
  <2>2. PICK i \in Pending : intents[i].mode = api.mode /\ intents[i].to = api.target
    BY <2>1
  <2>3. /\ i \in DOMAIN intents /\ i = Len(intents)
        /\ \A j \in Pending : j = i
    BY OnePending
  <2>4. Pending' = Pending
    BY <2>1 DEF Pending
  <2>5. ApiShape'
    BY <1>1, <1>2, <1>3, <1>4, <2>1, <2>2, <2>3, <2>4 DEF ApiShape
  <2> QED BY <1>1, <2>1, <2>5, ApiKeepsService
<1> QED BY <1>5, <1>6

\* The service period after a charge: it keeps its cadence, or restarts as a
\* year that outlasts the month.
LEMMA ChargedPeriod ==
  ASSUME TypesInv, ServiceInv, ChangeCharge
  PROVE  LET i == api.intent IN
         /\ UNCHANGED <<now, intents>>
         /\ i \in Pending /\ Paid(i) = {} /\ intents[i].mode = "immediate"
         /\ intents[i].to = api.target /\ api.target \in Offers
         /\ Rises(stripe.offer, api.target, intents[i].adjust)
         /\ stripe.offer.credits <= api.target.credits
         /\ stripe'.offer = api.target /\ stripe'.meta = i
         /\ stripe.next = None /\ stripe'.next = None
         /\ stripe.start <= stripe'.start /\ stripe.end <= stripe'.end
         /\ stripe'.start <= now /\ now < stripe'.end
         /\ stripe'.start \in Nat /\ stripe'.end \in Nat
         /\ stripe'.end = stripe'.start + Length(api.target)
         /\ Length(api.target) \in Nat /\ Month <= Length(api.target)
         /\ stripe.offer.yearly = api.target.yearly =>
              stripe'.start = stripe.start /\ stripe'.end = stripe.end
<1> DEFINE i      == api.intent
           to     == api.target
           resets == stripe.offer.yearly # to.yearly
<1>1. /\ api.at = "stripe" /\ api.mode = "immediate" /\ to \in Offers
      /\ stripe.next = None /\ UNCHANGED <<now, intents>>
  BY DEF ChangeCharge, local, TypesInv, ApiReads
<1>2. /\ i \in Pending /\ Paid(i) = {} /\ intents[i].mode = "immediate"
      /\ intents[i].to = to
  BY <1>1 DEF ServiceInv, ApiShape
<1>3. Rises(stripe.offer, to, intents[i].adjust)
  BY <1>2 DEF ServiceInv, UnpaidRises
<1>4. stripe.offer.credits <= to.credits /\ (stripe.offer.yearly => to.yearly)
  <2>1. ChangeMode(stripe.offer, to) = "immediate"
    BY <1>3 DEF Rises
  <2> QED BY <1>1, <2>1, ServiceTypes, ImmediateRises
<1>5. /\ Length(to) \in Nat /\ Month <= Length(to)
      /\ ~stripe.offer.yearly => Length(stripe.offer) = Month
  BY <1>1, ServiceTypes, LengthMonth
<1>6. /\ stripe'.offer = to /\ stripe'.meta = i /\ stripe'.next = stripe.next
      /\ stripe'.start = IF resets THEN now ELSE stripe.start
      /\ stripe'.end = IF resets THEN now + Length(to) ELSE stripe.end
  BY ServiceTypes DEF ChangeCharge, StripeType
<1>7. /\ stripe.start <= now /\ now < stripe.end
      /\ stripe.end = stripe.start + Length(stripe.offer)
  BY DEF ServiceInv, StripePaces
<1>8. CASE resets
  <2>1. stripe.end = stripe.start + Month
    <3>1. stripe.offer.yearly \in BOOLEAN /\ to.yearly \in BOOLEAN
      BY <1>1, ServiceTypes, SubscriptionAssumption
    <3>2. ~stripe.offer.yearly
      BY <1>4, <1>8, <3>1
    <3> QED BY <1>5, <1>7, <3>2
  <2> HIDE DEF to, i, resets
  <2>2. stripe'.start = now /\ stripe'.end = now + Length(to)
    BY <1>6, <1>8
  <2>3. /\ stripe.start <= stripe'.start /\ stripe.end <= stripe'.end
        /\ now < stripe'.end
    BY <1>5, <1>7, <2>1, <2>2, ServiceTypes
  <2> USE DEF to, i, resets
  <2> QED BY <1>1, <1>2, <1>3, <1>4, <1>5, <1>6, <1>8, <2>2, <2>3, ServiceTypes
<1>9. CASE ~resets
  <2>1. Length(stripe.offer) = Length(to)
    BY <1>9 DEF Length
  <2> QED BY <1>1, <1>2, <1>3, <1>4, <1>5, <1>6, <1>7, <1>9, <2>1, ServiceTypes
<1> QED BY <1>8, <1>9

\* The invoice of a charge.
LEMMA ChargedInvoice ==
  ASSUME TypesInv, ServiceInv, ChangeCharge
  PROVE  \E v \in InvoiceType, k \in Nat :
           /\ k \notin DOMAIN invoices /\ invoices'[k] = v
           /\ DOMAIN invoices' = DOMAIN invoices \cup {k}
           /\ \A j \in DOMAIN invoices : invoices'[j] = invoices[j]
           /\ \A i : Paid(i)' = IF i = api.intent THEN {k} ELSE Paid(i)
           /\ v.kind = "change" /\ v.meta = api.intent
           /\ v.offer = api.target /\ v.end = stripe'.end
           /\ stripe.offer.yearly = api.target.yearly =>
                /\ v.start = intents[api.intent].date
                /\ stripe.start <= intents[api.intent].date
<1> DEFINE i      == api.intent
           to     == api.target
           resets == stripe.offer.yearly # to.yearly
           end    == IF resets THEN now + Length(to) ELSE stripe.end
           from   == IF resets THEN now ELSE intents[i].date
           v      == [kind |-> "change", offer |-> to, start |-> from,
                      end |-> end, meta |-> i]
           k      == Len(invoices) + 1
<1>1. invoices' = Append(invoices, v) /\ stripe'.end = end
  BY ServiceTypes DEF ChangeCharge, StripeType
<1>2. stripe'.end \in Nat /\ to \in Offers /\ i \in Pending /\ Paid(i) = {}
  BY ChargedPeriod
<1>3. from \in Nat /\ i \in Nat
  <2>1. i \in DOMAIN intents
    BY <1>2, OnePending
  <2>2. intents \in Seq(IntentType)
    BY DEF TypesInv, TypeOK
  <2> QED BY <2>1, <2>2, IntentAt, ServiceTypes
<1>4. ~resets => from = intents[i].date /\ stripe.start <= intents[i].date
  BY ServiceTypes DEF ChangeCharge
<1> HIDE DEF end, from
<1>5. /\ v \in InvoiceType /\ v.kind = "change" /\ v.meta = i /\ v.offer = to
      /\ v.start = from /\ v.end = end
  BY <1>1, <1>2, <1>3 DEF InvoiceType
<1> HIDE DEF v
<1>6. /\ k \notin DOMAIN invoices /\ DOMAIN invoices' = DOMAIN invoices \cup {k}
      /\ invoices'[k] = v /\ \A j \in DOMAIN invoices : invoices'[j] = invoices[j]
      /\ \A j : Paid(j)' = IF v.kind = "change" /\ v.meta = j
                           THEN Paid(j) \cup {k} ELSE Paid(j)
  BY <1>1, <1>5, InvoiceAdded
<1>7. \A j : Paid(j)' = IF j = i THEN {k} ELSE Paid(j)
  BY <1>2, <1>5, <1>6
<1>8. k \in Nat
  BY DEF TypesInv, TypeOK
<1> HIDE DEF k
<1> QED BY <1>1, <1>4, <1>5, <1>6, <1>7, <1>8

LEMMA ChargeService ==
  ASSUME TypesInv, ServiceInv, ChangeCharge
  PROVE  ServiceInv'
<1> DEFINE i == api.intent
<1>1. PICK v \in InvoiceType, k \in Nat :
           /\ k \notin DOMAIN invoices /\ invoices'[k] = v
           /\ DOMAIN invoices' = DOMAIN invoices \cup {k}
           /\ \A j \in DOMAIN invoices : invoices'[j] = invoices[j]
           /\ \A j : Paid(j)' = IF j = api.intent THEN {k} ELSE Paid(j)
           /\ v.kind = "change" /\ v.meta = api.intent
           /\ v.offer = api.target /\ v.end = stripe'.end
           /\ stripe.offer.yearly = api.target.yearly =>
                /\ v.start = intents[api.intent].date
                /\ stripe.start <= intents[api.intent].date
  BY ChargedInvoice
<1>2. /\ UNCHANGED <<now, intents>>
      /\ i \in Pending /\ Paid(i) = {} /\ intents[i].mode = "immediate"
      /\ intents[i].to = api.target /\ api.target \in Offers
      /\ stripe.offer.credits <= api.target.credits
      /\ stripe'.offer = api.target /\ stripe'.meta = i /\ stripe'.next = None
      /\ stripe.start <= stripe'.start /\ stripe.end <= stripe'.end
      /\ stripe'.start <= now /\ now < stripe'.end
      /\ stripe'.start \in Nat /\ stripe'.end \in Nat
      /\ stripe'.end = stripe'.start + Length(api.target)
      /\ Length(api.target) \in Nat /\ Month <= Length(api.target)
  BY ChargedPeriod
<1>3. Pending' = Pending /\ i \in DOMAIN intents /\ \A j \in Pending : j = i
  BY <1>2, OnePending DEF Pending
<1>4. api.target.credits \in Nat
  BY <1>2, SubscriptionAssumption
<1>5. StripePaces'
  BY <1>2 DEF StripePaces
<1>6. InvoicesBelow'
  <2>1. ASSUME NEW j \in DOMAIN invoices
        PROVE  /\ invoices[j].end <= stripe'.end
               /\ invoices[j].end > stripe'.start =>
                    invoices[j].offer.credits <= api.target.credits
    <3>1. /\ invoices[j].end <= stripe.end /\ invoices[j].end \in Nat
          /\ invoices[j].end > stripe.start =>
               invoices[j].offer.credits <= stripe.offer.credits
          /\ invoices[j].offer.credits \in Nat
      BY ServiceTypes DEF ServiceInv, InvoicesBelow
    <3> QED BY <1>2, <1>4, <3>1, ServiceTypes
  <2> QED BY <1>1, <1>2, <1>4, <2>1 DEF InvoicesBelow
<1>7. ChangeInvoices'
  <2>1. \A j \in DOMAIN invoices : invoices[j].kind = "change" =>
          invoices[j].meta # i
    BY <1>2 DEF Paid
  <2> QED BY <1>1, <1>2, <1>3, <2>1 DEF ServiceInv, ChangeInvoices
<1>8. IntentsShape'
  BY <1>2, <1>3 DEF ServiceInv, IntentsShape
<1>9. UnpaidRises'
  BY <1>1, <1>2, <1>3 DEF UnpaidRises
<1>10. ApiShape'
  <2>1. /\ api'.at = "apply" /\ api'.intent = i /\ api'.target = api.target
        /\ api'.mode = api.mode /\ api'.date = api.date
        /\ api'.start = stripe'.start /\ api'.end = stripe'.end
    BY ServiceTypes DEF ChangeCharge, TypesInv, TypeOK, ApiType, StripeType
  <2>2. api.mode = "immediate" /\ api.date <= now
    BY DEF ChangeCharge, ServiceInv, ApiShape
  <2>3. api'.start + Month <= api'.end
    BY <1>2, <2>1, ServiceTypes
  <2>4. \E j \in Paid(i)' : api'.end = invoices'[j].end
    BY <1>1, <2>1
  <2> QED BY <1>2, <1>3, <2>1, <2>2, <2>3, <2>4 DEF ApiShape
<1> QED BY <1>5, <1>6, <1>7, <1>8, <1>9, <1>10 DEF ServiceInv

LEMMA ScheduleService ==
  ASSUME TypesInv, ServiceInv, ChangeSchedule
  PROVE  ServiceInv'
<1>1. /\ api.at = "stripe" /\ api.mode = "renewal"
      /\ UNCHANGED <<now, invoices, intents>>
  BY DEF ChangeSchedule, local
<1>2. /\ stripe'.offer = stripe.offer /\ stripe'.start = stripe.start
      /\ stripe'.end = stripe.end /\ stripe'.meta = stripe.meta
      /\ stripe'.nextIntent = api.intent
  BY ServiceTypes DEF ChangeSchedule, StripeType
<1>3. /\ api'.at = "apply" /\ api'.mode = api.mode /\ api'.intent = api.intent
      /\ api'.target = api.target /\ api'.date = api.date
  BY DEF ChangeSchedule, TypesInv, TypeOK, ApiType
<1>4. /\ api.intent \in DOMAIN intents /\ intents[api.intent].mode = "renewal"
      /\ intents[api.intent].to = api.target
      /\ Pending \subseteq {api.intent} /\ api.date <= now
  BY <1>1 DEF ServiceInv, ApiShape
<1>5. Pending' = Pending /\ \A i : Paid(i)' = Paid(i)
  BY <1>1 DEF Pending, Paid
<1>6. StripePaces' /\ InvoicesBelow' /\ ChangeInvoices' /\ IntentsShape'
  BY <1>1, <1>2, <1>4, <1>5
     DEF ServiceInv, StripePaces, InvoicesBelow, ChangeInvoices, IntentsShape
<1>7. UnpaidRises'
  BY <1>1, <1>4, <1>5 DEF UnpaidRises
<1>8. ApiShape'
  BY <1>1, <1>3, <1>4, <1>5 DEF ApiShape
<1> QED BY <1>6, <1>7, <1>8 DEF ServiceInv

\* The preview promises no more than the difference of the allowances.
LEMMA PreviewRises ==
  ASSUME TypesInv, ServiceInv, ChangePreview, api.mode = "immediate"
  PROVE  /\ Rises(stripe.offer, api.target, api'.adjust)
         /\ stripe.next = None /\ api'.date <= now
<1>1. /\ api \in ApiType /\ api.read \in SubType /\ api.target \in Offers
      /\ api.at = "context" /\ now \in Nat
  BY DEF ChangePreview, TypesInv, TypeOK, ApiReads
<1>2. /\ api.read.anchor \in Nat /\ api.read.start \in Nat
      /\ api.read.offer \in Offers
  BY <1>1 DEF SubType
<1>3. stripe.offer = api.read.offer /\ stripe.next = None
  BY DEF ChangePreview, StripeAgrees
<1>4. PICK date \in Most(api.read.start, api.read.anchor)..now :
        \E amount \in CreditsForChange(date) :
          api' = [api EXCEPT !.at = "previewed", !.date = date,
                             !.adjust = amount]
  BY DEF ChangePreview
<1>5. PICK amount \in CreditsForChange(date) :
         api' = [api EXCEPT !.at = "previewed", !.date = date,
                            !.adjust = amount]
  BY <1>4
<1>6. api'.date = date /\ api'.adjust = amount
  BY <1>1, <1>5 DEF ApiType
<1>7. date \in Nat /\ date <= now
  BY <1>1, <1>2, <1>4 DEF Most
<1>8. ChangeMode(stripe.offer, api.target) = "immediate"
  BY <1>1, <1>3 DEF ServiceInv, ApiShape
<1>9. stripe.offer.credits <= api.target.credits
  BY <1>1, <1>2, <1>3, <1>8, ImmediateRises
<1>10. ASSUME stripe.offer.yearly = api.target.yearly
      PROVE  stripe.offer.credits + amount <= api.target.credits
  <2> DEFINE ordinal == OrdinalAt(api.read.anchor, date)
             end == Boundary(api.read.anchor, ordinal + 1)
  <2>1. amount = ProratedUpgrade(stripe.offer, api.target, date, end)
    BY <1>3, <1>10, <1>5 DEF CreditsForChange
  <2>2. /\ ordinal \in Int /\ Boundary(api.read.anchor, ordinal) <= date
        /\ date < Boundary(api.read.anchor, ordinal) + Month
    BY <1>2, <1>7, OrdinalCovers
  <2>3. end = Boundary(api.read.anchor, ordinal) + Month
    BY <1>2, <2>2, NextBoundary
  <2>4. Boundary(api.read.anchor, ordinal) \in Int /\ Month \in Nat
    <3> HIDE DEF ordinal
    <3>1. Month \in Nat
      BY SubscriptionAssumption
    <3>2. ordinal * Month \in Int
      BY <2>2, <3>1
    <3> QED BY <1>2, <3>1, <3>2 DEF Boundary
  <2> HIDE DEF ordinal, end
  <2>5. end \in Nat /\ date <= end /\ end <= date + Month
    BY <1>7, <2>2, <2>3, <2>4
  <2> QED BY <1>1, <1>2, <1>3, <1>7, <1>9, <2>1, <2>5, ProratedBelow
<1> QED BY <1>3, <1>6, <1>7, <1>8, <1>10 DEF Rises

\* The steps of a request up to its admission, and those that end it.
LEMMA RequestService ==
  ASSUME TypesInv, ServiceInv,
         \/ \E target \in Offers : ChangeRequest(target)
         \/ ChangePreview \/ ChangeReload \/ ChangeConfirm \/ ChangeGiveUp
         \/ \E i \in DOMAIN intents : ChangeResume(i)
  PROVE  ServiceInv'
<1>1. UNCHANGED <<now, stripe, invoices, intents>>
  BY DEF ChangeRequest, ChangePreview, ChangeReload, ChangeConfirm,
         ChangeGiveUp, ChangeResume, external, local
<1>2. Pending' = Pending /\ \A i : Paid(i)' = Paid(i)
  BY <1>1 DEF Pending, Paid
<1>3. api \in ApiType /\ now \in Nat /\ api.date <= now
  BY DEF TypesInv, TypeOK, ServiceInv, ApiShape
<1>4. ASSUME NEW target \in Offers, ChangeRequest(target) PROVE ApiShape'
  <2>1. /\ api'.at = "context" /\ api'.read = sub /\ api'.target = target
        /\ api'.mode = ChangeMode(sub.offer, target) /\ api'.date = 0
    BY <1>4 DEF ChangeRequest, IdleApi
  <2>2. \A i \in Pending : Paid(i) = {}
    BY <1>4, OnePending DEF ChangeRequest
  <2> QED BY <1>1, <1>2, <1>3, <2>1, <2>2 DEF ApiShape
<1>5. ASSUME ChangePreview PROVE ApiShape'
  <2>1. /\ api'.at = "previewed" /\ api'.mode = api.mode
        /\ api'.target = api.target
    BY <1>3, <1>5 DEF ChangePreview, ApiType
  <2>2. api.mode # "immediate" => api'.date = api.date
    BY <1>3, <1>5 DEF ChangePreview, ApiType, ServiceInv, ApiShape, TypesInv, ApiReads
  <2>3. \A i \in Pending : Paid(i) = {}
    BY <1>5 DEF ChangePreview, ServiceInv, ApiShape
  <2>4. api.mode = "immediate" =>
          /\ Rises(stripe.offer, api.target, api'.adjust)
          /\ stripe.next = None /\ api'.date <= now
    BY <1>5, PreviewRises
  <2>5. Rises(stripe.offer, api.target, api'.adjust) =>
          Rises(stripe.offer, api.target, api.adjust)'
    BY <1>1, <2>1 DEF Rises
  <2> QED BY <1>1, <1>2, <1>3, <2>1, <2>2, <2>3, <2>4, <2>5 DEF ApiShape
<1>6. ASSUME ChangeReload \/ ChangeConfirm PROVE ApiShape'
  <2>1. /\ api.at \in {"previewed", "reloaded"}
        /\ api'.at \in {"reloaded", "admit"} /\ api'.mode = api.mode
        /\ api'.target = api.target /\ api'.date = api.date
        /\ api'.adjust = api.adjust
    BY <1>3, <1>6 DEF ChangeReload, ChangeConfirm, ApiType
  <2>2. /\ \A i \in Pending : Paid(i) = {}
        /\ api.mode = "immediate" =>
             stripe.next = None /\ Rises(stripe.offer, api.target, api.adjust)
    BY <2>1 DEF ServiceInv, ApiShape
  <2>3. Rises(stripe.offer, api.target, api.adjust) =>
          Rises(stripe.offer, api.target, api.adjust)'
    BY <1>1, <2>1 DEF Rises
  <2> QED BY <1>1, <1>2, <1>3, <2>1, <2>2, <2>3 DEF ApiShape
<1>7. ASSUME ChangeGiveUp PROVE ApiShape'
  BY <1>1, <1>7, ApiIdles DEF ChangeGiveUp
<1>8. ASSUME NEW i \in DOMAIN intents, ChangeResume(i) PROVE ApiShape'
  <2>1. /\ api'.at = "stripe" /\ api'.target = intents[i].to /\ api'.date = 0
        /\ api'.mode = "renewal" /\ api'.intent = i
        /\ i \in Pending /\ intents[i].mode = "renewal"
    BY <1>8 DEF ChangeResume, IdleApi
  <2>2. Pending \subseteq {i}
    BY <2>1, OnePending
  <2> QED BY <1>1, <1>2, <1>3, <2>1, <2>2 DEF ApiShape
<1>9. ApiShape'
  BY <1>4, <1>5, <1>6, <1>7, <1>8
<1> QED BY <1>1, <1>9, ApiKeepsService

\* Change i is applied, by the request or by the webhook of invoice k; what
\* Stripe sells is its offer, and a month from start is a month it paid for as
\* soon as its service reaches beyond start.
Applies(i, start, end, k) ==
  /\ ApplyPaid(i, start, end)
  /\ UNCHANGED <<now, stripe, invoices, pass, hook>>
  /\ i \in Pending /\ intents[i].mode = "immediate"
  /\ k \in DOMAIN invoices /\ Paid(i) = {k}
  /\ invoices[k].offer = intents[i].to /\ stripe.offer = intents[i].to
  /\ start + Month <= stripe.end
  /\ start < invoices[k].end => start + Month <= invoices[k].end
  /\ api' = api \/ api' = IdleApi
  /\ api'.at = "stripe" => api.mode # "immediate"

LEMMA Applying ==
  ASSUME TypesInv, ServiceInv,
         ChangeApply \/ \E k \in DOMAIN invoices : InvoiceApply(k)
  PROVE  \E i \in Nat, start \in Nat, end \in Nat, k \in Nat :
           Applies(i, start, end, k)
<1>1. /\ intents \in Seq(IntentType) /\ invoices \in Seq(InvoiceType)
      /\ api \in ApiType
  BY DEF TypesInv, TypeOK
<1>2. /\ DOMAIN invoices \subseteq Nat
      /\ \A i : Paid(i) \subseteq DOMAIN invoices
      /\ \A i, k : k \in Paid(i) => invoices[k].kind = "change"
                                    /\ invoices[k].meta = i
  BY <1>1 DEF Paid
<1>3. ASSUME ChangeApply
      PROVE  \E i \in Nat, start \in Nat, end \in Nat, k \in Nat :
               Applies(i, start, end, k)
  <2>1. /\ ApplyPaid(api.intent, api.start, api.end)
        /\ api.at = "apply" /\ api.mode = "immediate" /\ api' = IdleApi
        /\ UNCHANGED <<now, stripe, invoices, pass, hook>>
    BY <1>3 DEF ChangeApply, external
  <2>2. PICK k \in Paid(api.intent) : api.end = invoices[k].end
    BY <2>1 DEF ServiceInv, ApiShape
  <2>3. /\ stripe.offer = api.target
        /\ api.start + Month <= api.end /\ api.end <= stripe.end
        /\ intents[api.intent].mode = "immediate"
        /\ intents[api.intent].to = api.target
    BY <2>1 DEF ServiceInv, ApiShape
  <2>4. /\ k \in DOMAIN invoices /\ k \in Nat /\ Paid(api.intent) = {k}
        /\ invoices[k].offer = intents[api.intent].to
    BY <1>2, <2>2 DEF ServiceInv, ChangeInvoices
  <2>5. api.intent \in Nat /\ api.start \in Nat /\ api.end \in Nat
    BY <1>1 DEF ApiType
  <2>6. api.start + Month <= stripe.end
    BY <2>3, <2>5, ServiceTypes
  <2>7. api.intent \in Pending
    BY <2>1 DEF ApplyPaid
  <2>8. api'.at # "stripe"
    BY <2>1 DEF IdleApi
  <2>9. Applies(api.intent, api.start, api.end, k)
    BY <2>1, <2>2, <2>3, <2>4, <2>6, <2>7, <2>8 DEF Applies
  <2> QED BY <2>4, <2>5, <2>9
<1>4. ASSUME NEW k \in DOMAIN invoices, InvoiceApply(k)
      PROVE  \E i \in Nat, start \in Nat, end \in Nat, kk \in Nat :
               Applies(i, start, end, kk)
  <2> DEFINE i == invoices[k].meta
  <2>1. /\ ApplyPaid(i, stripe.start, stripe.end)
        /\ invoices[k].kind = "change"
        /\ stripe.meta = i /\ stripe.offer = invoices[k].offer
        /\ UNCHANGED <<now, stripe, invoices, pass, hook>> /\ api' = api
    BY <1>4 DEF InvoiceApply, external, actors
  <2>2. /\ intents[i].mode = "immediate" /\ invoices[k].offer = intents[i].to
        /\ Paid(i) = {k}
        /\ invoices[k].end = stripe.end \/ invoices[k].end <= stripe.start
    BY <2>1 DEF ServiceInv, ChangeInvoices
  <2>3. i \in Pending /\ k \in Nat /\ i \in Nat
    BY <1>1, <1>2, <2>1 DEF ApplyPaid, Pending
  <2>4. ASSUME api.at = "stripe", api.mode = "immediate" PROVE FALSE
    <3>1. api.intent \in Pending /\ Paid(api.intent) = {}
      BY <2>4 DEF ServiceInv, ApiShape
    <3> QED BY <2>2, <2>3, <3>1, OnePending
  <2>5. stripe.start + Month <= stripe.end
    <3>1. stripe.end = stripe.start + Length(stripe.offer)
      BY DEF ServiceInv, StripePaces
    <3>2. Length(stripe.offer) \in Nat /\ Month <= Length(stripe.offer)
      BY ServiceTypes, LengthMonth
    <3> QED BY <3>1, <3>2, ServiceTypes
  <2>6. stripe.start < invoices[k].end => stripe.start + Month <= invoices[k].end
    BY <2>2, <2>5, ServiceTypes
  <2>7. Applies(i, stripe.start, stripe.end, k)
    BY <2>1, <2>2, <2>3, <2>4, <2>5, <2>6 DEF Applies
  <2> QED BY <2>3, <2>7, ServiceTypes
<1> QED BY <1>3, <1>4

\* The steps that end a pending change.
LEMMA EndService ==
  ASSUME TypesInv, ServiceInv,
         \/ ChangeApply \/ \E k \in DOMAIN invoices : InvoiceApply(k)
         \/ ChangeComplete
         \/ \E i \in DOMAIN intents : ScheduleApply(i) \/ ChangeAbandon(i)
  PROVE  ServiceInv'
<1>1. CASE ChangeApply \/ \E k \in DOMAIN invoices : InvoiceApply(k)
  <2>1. PICK i \in Nat, start \in Nat, end \in Nat, k \in Nat :
          Applies(i, start, end, k)
    BY <1>1, Applying
  <2>2. /\ i \in Pending /\ intents' = [intents EXCEPT ![i].status = "applied"]
        /\ UNCHANGED <<now, stripe, invoices>>
        /\ api' = api \/ api' = IdleApi
        /\ api'.at = "stripe" => api.mode # "immediate"
    BY <2>1 DEF Applies, ApplyPaid
  <2> QED BY <2>2, IntentEndsService
<1>2. CASE ChangeComplete
  <2>1. /\ api.intent \in Pending
        /\ intents' = [intents EXCEPT ![api.intent].status = "applied"]
        /\ UNCHANGED <<now, stripe, invoices>> /\ api' = IdleApi
    BY <1>2 DEF ChangeComplete, ApplyRenewal, external
  <2>2. api'.at # "stripe"
    BY <2>1 DEF IdleApi
  <2> QED BY <2>1, <2>2, IntentEndsService
<1>3. ASSUME NEW i \in DOMAIN intents, ScheduleApply(i) PROVE ServiceInv'
  <2>1. /\ i \in Pending /\ intents[i].mode = "renewal"
        /\ intents' = [intents EXCEPT ![i].status = "applied"]
        /\ UNCHANGED <<now, stripe, invoices>> /\ api' = api
    BY <1>3 DEF ScheduleApply, ApplyRenewal, external, actors
  <2>2. ASSUME api.at = "stripe", api.mode = "immediate" PROVE FALSE
    <3>1. api.intent \in Pending /\ intents[api.intent].mode = "immediate"
      BY <2>2 DEF ServiceInv, ApiShape
    <3> QED BY <2>1, <3>1, OnePending
  <2> QED BY <2>1, <2>2, IntentEndsService
<1>4. ASSUME NEW i \in DOMAIN intents, ChangeAbandon(i) PROVE ServiceInv'
  <2>1. /\ i \in Pending /\ api.at = "idle"
        /\ intents' = [intents EXCEPT ![i].status = "failed"]
        /\ UNCHANGED <<now, stripe, invoices>> /\ api' = api
    BY <1>4 DEF ChangeAbandon, external, actors
  <2> QED BY <2>1, IntentEndsService
<1> QED BY <1>1, <1>2, <1>3, <1>4

LEMMA ServiceStep ==
  ASSUME TypesInv, ServiceInv, [Next]_vars
  PROVE  ServiceInv'
<1>1. CASE Tick
  BY <1>1, TickService
<1>2. ASSUME NEW w \in Hooks, Hook(w) \/ HookCrash(w) PROVE ServiceInv'
  BY <1>2, QuietKeepsService
     DEF Hook, HookCrash, RetrieveSubscription, CommitProjection,
         PayAfterProjection, external, local
<1>3. ASSUME NEW k \in DOMAIN invoices, Invoice(k) PROVE ServiceInv'
  <2>1. CASE PayInvoice(k)
    BY <2>1, QuietKeepsService DEF PayInvoice, external, actors
  <2>2. CASE InvoiceApply(k)
    BY <2>2, EndService
  <2>3. ASSUME NEW w \in Hooks, RetrieveForInvoice(w, k) PROVE ServiceInv'
    BY <2>3, QuietKeepsService DEF RetrieveForInvoice, external, local
  <2> QED BY <1>3, <2>1, <2>2, <2>3 DEF Invoice
<1>4. ASSUME NEW p \in Passes, PassStart(p) PROVE ServiceInv'
  BY <1>4, QuietKeepsService DEF PassStart, external, local
<1>5. ASSUME NEW p \in Passes \cup {Api}, Pass(p) \/ PassCrash(p)
      PROVE  ServiceInv'
  <2>1. CASE Pass(p)
    BY <2>1, QuietKeepsService
       DEF Pass, PassPlan, PassUncovered, PassMonth, PassAppend, external, local
  <2>2. CASE PassCrash(p)
    <3>1. /\ UNCHANGED <<now, stripe, invoices, intents>>
          /\ api' = IdleApi \/ api' = api
      BY <2>2 DEF PassCrash, external, local
    <3>2. CASE api' = IdleApi
      BY <3>1, <3>2, ApiIdles, ApiKeepsService
    <3> QED BY <3>1, <3>2, QuietKeepsService
  <2> QED BY <1>5, <2>1, <2>2
<1>6. CASE \/ \E target \in Offers : ChangeRequest(target)
           \/ ChangePreview \/ ChangeReload \/ ChangeConfirm \/ ChangeGiveUp
  BY <1>6, RequestService
<1>7. CASE ChangeAdmit
  BY <1>7, AdmitService
<1>8. CASE ChangeCharge
  BY <1>8, ChargeService
<1>9. CASE ChangeSchedule
  BY <1>9, ScheduleService
<1>10. CASE ChangeApply \/ ChangeComplete
  BY <1>10, EndService
<1>11. ASSUME NEW i \in DOMAIN intents,
              ChangeResume(i) \/ ScheduleApply(i) \/ ChangeAbandon(i)
       PROVE  ServiceInv'
  BY <1>11, RequestService, EndService
<1>12. CASE UNCHANGED vars
  BY <1>12, QuietKeepsService DEF vars, external, local, actors
<1> QED BY <1>1, <1>2, <1>3, <1>4, <1>5, <1>6, <1>7, <1>8, <1>9, <1>10, <1>11,
           <1>12 DEF Next

-----------------------------------------------------------------------------
(* What the payments cover *)

\* The invoices that projections go on to record are those of a cycle.
HookInvoices ==
  \A w \in Hooks : hook[w].invoice # 0 =>
    invoices[hook[w].invoice].kind = "cycle"

\* A payment is the record of an invoice; that of a change is recorded when it
\* is applied.
PaymentsShape ==
  \A x \in payments :
    /\ x.invoice \in DOMAIN invoices
    /\ LET v == invoices[x.invoice] IN
         /\ x.offer = v.offer /\ x.start = v.start /\ x.end = v.end
         /\ v.kind = "change" => v.meta \notin Pending

\* Change i, charged by invoice k, may raise the month of its date: neither the
\* row of that month nor another invoice has more than the target leaves.
ChargeFits(i, k) ==
  LET date == intents[i].date
      room(c) == c + intents[i].adjust <= intents[i].to.credits
  IN /\ invoices[k].start = date /\ date < invoices[k].end
     /\ \A r \in periods :
          /\ r.carried > 0 => r.end <= invoices[k].end
          /\ r.start <= date /\ date < r.end => room(r.target)
     /\ \A v \in DOMAIN invoices :
          v # k /\ invoices[v].start <= date /\ date < invoices[v].end =>
            room(invoices[v].offer.credits)

ChargesFit ==
  \A i \in Pending : intents[i].from.yearly = intents[i].to.yearly =>
    \A k \in Paid(i) : ChargeFits(i, k)

\* A pass reads payments that stay, and appends in a month they cover.
PassPays ==
  \A p \in Passes \cup {Api} :
    /\ pass[p].pays \subseteq payments
    /\ pass[p].at = "append" => Covering(pass[p]) # {}

\* No row reaches beyond the service period, or into it with more credits.
RowsBelow ==
  \A r \in periods :
    /\ r.end = r.start + Month /\ r.end <= stripe.end
    /\ r.end > stripe.start => r.target <= stripe.offer.credits

GrantEnds == \A g \in grants : \E r \in Row(g.rev, g.n) : g.end = r.end

Covered == RowsBelow /\ GrantEnds /\ CeilingIsPaid /\ GrantsArePaid

PaidInv == HookInvoices /\ PaymentsShape /\ ChargesFit /\ PassPays /\ Covered

LEMMA PaidInit == Init => PaidInv
<1> SUFFICES ASSUME Init PROVE PaidInv
  OBVIOUS
<1>1. HookInvoices /\ PaymentsShape /\ ChargesFit
  BY DEF Init, IdleHook, HookInvoices, PaymentsShape, ChargesFit, Pending
<1>2. PassPays
  BY DEF Init, IdlePass, PassPays
<1>3. Covered
  BY DEF Init, Covered, RowsBelow, GrantEnds, CeilingIsPaid, GrantsArePaid
<1> QED BY <1>1, <1>2, <1>3 DEF PaidInv

\* Invoices stay as they are.
InvoicesStay ==
  \A k \in DOMAIN invoices : k \in DOMAIN invoices' /\ invoices'[k] = invoices[k]

LEMMA HooksKept ==
  ASSUME TypesInv, HookInvoices, InvoicesStay, UNCHANGED hook
  PROVE  HookInvoices'
BY DEF HookInvoices, InvoicesStay, TypesInv, HookReads

LEMMA PassesKept ==
  ASSUME PassPays, UNCHANGED pass, payments \subseteq payments'
  PROVE  PassPays'
BY DEF PassPays, Covering

LEMMA PassKept ==
  ASSUME TypesInv, PassPays, NEW p \in Passes \cup {Api}, NEW q,
         pass' = [pass EXCEPT ![p] = q], payments' = payments,
         q.pays \subseteq payments, q.at = "append" => Covering(q) # {}
  PROVE  PassPays'
<1>1. DOMAIN pass = Passes \cup {Api}
  BY DEF TypesInv, TypeOK
<1>2. ASSUME NEW r \in Passes \cup {Api}
      PROVE  /\ pass'[r].pays \subseteq payments
             /\ pass'[r].at = "append" => Covering(pass'[r]) # {}
  BY <1>1 DEF PassPays
<1> QED BY <1>2 DEF PassPays, Covering

\* Payments only record, and the service period only grows.
LEMMA CoveredKept ==
  ASSUME TypesInv, Covered, UNCHANGED credits, payments \subseteq payments',
         stripe'.start \in Nat, stripe'.end \in Nat, stripe'.offer.credits \in Nat,
         stripe.end <= stripe'.end,
         \/ stripe'.start = stripe.end
         \/ /\ stripe.start <= stripe'.start
            /\ stripe.offer.credits <= stripe'.offer.credits
  PROVE  Covered'
<1>1. \A r \in periods : r.end \in Nat /\ r.target \in Nat
  BY DEF TypesInv, TypeOK, PeriodType
<1>2. RowsBelow'
  <2>1. ASSUME NEW r \in periods
        PROVE  /\ r.end = r.start + Month /\ r.end <= stripe'.end
               /\ r.end > stripe'.start => r.target <= stripe'.offer.credits
    <3>1. /\ r.end = r.start + Month /\ r.end <= stripe.end
          /\ r.end > stripe.start => r.target <= stripe.offer.credits
      BY DEF Covered, RowsBelow
    <3> QED BY <1>1, <3>1, ServiceTypes
  <2> QED BY <2>1 DEF RowsBelow, credits
<1>3. GrantEnds' /\ CeilingIsPaid' /\ GrantsArePaid'
  BY DEF Covered, GrantEnds, CeilingIsPaid, GrantsArePaid, credits, Row
<1> QED BY <1>2, <1>3 DEF Covered

\* A row s takes the place of R, perhaps with a grant.
TakesPlace(R, s) == \A r \in R : r.rev = s.rev /\ r.n = s.n /\ r.end = s.end

RowFits(s) ==
  /\ s.end = s.start + Month /\ s.end <= stripe.end
  /\ s.end > stripe.start => s.target <= stripe.offer.credits
  /\ s.carried < s.target =>
       \E x \in payments' : /\ x.start < s.end /\ s.start < x.end
                            /\ s.target <= x.offer.credits

GrantFitsRow(s) ==
  \/ grants' = grants
  \/ \E g : /\ grants' = grants \cup {g}
            /\ g.rev = s.rev /\ g.n = s.n /\ g.end = s.end
            /\ \E x \in payments' : x.start < g.end /\ g.end <= x.end

LEMMA RowWritten ==
  ASSUME Covered, UNCHANGED stripe, payments \subseteq payments',
         NEW R, NEW s, periods' = (periods \ R) \cup {s}, TakesPlace(R, s),
         RowFits(s), GrantFitsRow(s)
  PROVE  Covered'
<1>1. RowsBelow'
  BY DEF Covered, RowsBelow, RowFits
<1>2. CeilingIsPaid'
  BY DEF Covered, CeilingIsPaid, RowFits
<1>3. GrantsArePaid'
  BY DEF Covered, GrantsArePaid, GrantFitsRow
<1>4. GrantEnds'
  <2>1. ASSUME NEW g \in grants PROVE \E r \in Row(g.rev, g.n)' : g.end = r.end
    <3>1. PICK r \in periods : r.rev = g.rev /\ r.n = g.n /\ g.end = r.end
      BY DEF Covered, GrantEnds, Row
    <3>2. CASE r \in R
      BY <3>1, <3>2 DEF Row, TakesPlace
    <3>3. CASE r \notin R
      BY <3>1, <3>3 DEF Row
    <3> QED BY <3>2, <3>3
  <2>2. ASSUME NEW g, g.rev = s.rev, g.n = s.n, g.end = s.end
        PROVE  \E r \in Row(g.rev, g.n)' : g.end = r.end
    BY <2>2 DEF Row
  <2> QED BY <2>1, <2>2 DEF GrantEnds, GrantFitsRow
<1> QED BY <1>1, <1>2, <1>3, <1>4 DEF Covered

-----------------------------------------------------------------------------
(* Payments and charges, step by step *)

\* A payment of an invoice, none of a change that is still pending.
LEMMA PaymentRecorded ==
  ASSUME PaymentsShape, InvoicesStay, NEW x, payments' \subseteq payments \cup {x},
         x.invoice \in DOMAIN invoices,
         x.offer = invoices[x.invoice].offer,
         x.start = invoices[x.invoice].start,
         x.end = invoices[x.invoice].end,
         invoices[x.invoice].kind = "change" =>
           invoices[x.invoice].meta \notin Pending',
         \A y \in payments : /\ invoices[y.invoice].kind = "change"
                             /\ invoices[y.invoice].meta \in Pending'
           => invoices[y.invoice].meta \in Pending
  PROVE  PaymentsShape'
BY DEF PaymentsShape, InvoicesStay

LEMMA PaymentsKept ==
  ASSUME PaymentsShape, InvoicesStay, UNCHANGED payments,
         \A y \in payments : /\ invoices[y.invoice].kind = "change"
                             /\ invoices[y.invoice].meta \in Pending'
           => invoices[y.invoice].meta \in Pending
  PROVE  PaymentsShape'
BY DEF PaymentsShape, InvoicesStay

LEMMA PaidIn ==
  \A i : Paid(i) \subseteq DOMAIN invoices
BY DEF Paid

\* What change i must fit once it is charged stays: a row is as before or fits,
\* and a new invoice begins after the date of the change.
RowStillFits(i, r) ==
  \/ r \in periods
  \/ \E t \in periods : /\ r.start = t.start /\ r.end = t.end
                        /\ r.target = t.target /\ r.carried = t.carried
  \/ /\ r.carried = 0
     /\ r.start <= intents[i].date /\ intents[i].date < r.end =>
          r.target + intents[i].adjust <= intents[i].to.credits

ChargeStays(i) ==
  /\ i \in Pending /\ intents'[i] = intents[i]
  /\ Paid(i)' \subseteq Paid(i)
  /\ \A r \in periods' : RowStillFits(i, r)
  /\ \A v \in DOMAIN invoices' :
       v \in DOMAIN invoices \/ ~(invoices'[v].start <= intents[i].date)

LEMMA ChargesKept ==
  ASSUME ChargesFit, InvoicesStay,
         \A i \in Pending' :
           intents'[i].from.yearly = intents'[i].to.yearly /\ Paid(i)' # {} =>
             ChargeStays(i)
  PROVE  ChargesFit'
<1>1. ASSUME NEW i \in Pending', intents'[i].from.yearly = intents'[i].to.yearly,
             NEW k \in Paid(i)'
      PROVE  ChargeFits(i, k)'
  <2>1. ChargeStays(i)
    BY <1>1
  <2>2. /\ i \in Pending /\ intents'[i] = intents[i]
        /\ k \in Paid(i) /\ k \in DOMAIN invoices
    BY <1>1, <2>1, PaidIn DEF ChargeStays
  <2>3. ChargeFits(i, k) /\ invoices'[k] = invoices[k]
    BY <1>1, <2>2 DEF ChargesFit, InvoicesStay
  <2>4. /\ invoices'[k].start = intents[i].date
        /\ intents[i].date < invoices'[k].end
    BY <2>3 DEF ChargeFits
  <2>5. ASSUME NEW r \in periods'
        PROVE  /\ r.carried > 0 => r.end <= invoices'[k].end
               /\ r.start <= intents[i].date /\ intents[i].date < r.end =>
                    r.target + intents[i].adjust <= intents[i].to.credits
    <3>1. \A t \in periods :
            /\ t.carried > 0 => t.end <= invoices'[k].end
            /\ t.start <= intents[i].date /\ intents[i].date < t.end =>
                 t.target + intents[i].adjust <= intents[i].to.credits
      BY <2>3 DEF ChargeFits
    <3>2. RowStillFits(i, r)
      BY <2>1 DEF ChargeStays
    <3> QED BY <3>1, <3>2 DEF RowStillFits
  <2>6. ASSUME NEW v \in DOMAIN invoices', v # k,
               invoices'[v].start <= intents[i].date,
               intents[i].date < invoices'[v].end
        PROVE  invoices'[v].offer.credits + intents[i].adjust
                 <= intents[i].to.credits
    BY <2>1, <2>3, <2>6 DEF ChargeFits, InvoicesStay, ChargeStays
  <2> QED BY <2>2, <2>4, <2>5, <2>6 DEF ChargeFits
<1> QED BY <1>1 DEF ChargesFit

\* No charged change is pending: nothing has to fit.
LEMMA ChargesGone ==
  ASSUME \A i \in Pending' : Paid(i)' = {}
  PROVE  ChargesFit'
BY DEF ChargesFit

\* Steps that leave the books of the change alone.
LEMMA BooksQuiet ==
  ASSUME PaymentsShape, ChargesFit,
         UNCHANGED <<invoices, intents, payments, periods>>
  PROVE  PaymentsShape' /\ ChargesFit'
BY DEF PaymentsShape, ChargesFit, ChargeFits, Pending, Paid

LEMMA TickBooks ==
  ASSUME TypesInv, ServiceInv, PaidInv, Tick
  PROVE  PaidInv'
<1>1. /\ UNCHANGED <<credits, payments, intents, pass, hook>> /\ now' = now + 1
  BY DEF Tick, local, actors
<1>2. CASE now + 1 < stripe.end
  <2>1. UNCHANGED <<stripe, invoices>>
    BY <1>2 DEF Tick
  <2>2. Covered'
    BY <1>1, <2>1, CoveredKept, ServiceTypes DEF PaidInv
  <2> QED BY <1>1, <2>1, <2>2, BooksQuiet, PassesKept, HooksKept
          DEF PaidInv, credits, InvoicesStay
<1>3. CASE ~(now + 1 < stripe.end)
  <2> DEFINE scheduled == stripe.next # None
             offer == IF scheduled THEN stripe.next ELSE stripe.offer
             meta  == IF scheduled THEN stripe.nextIntent ELSE stripe.meta
             v == [kind |-> "cycle", offer |-> offer, start |-> stripe.end,
                   end |-> stripe.end + Length(offer), meta |-> meta]
             k == Len(invoices) + 1
  <2>1. /\ stripe'.offer = offer /\ stripe'.start = stripe.end
        /\ stripe'.end = stripe.end + Length(offer)
        /\ invoices' = Append(invoices, v)
    BY <1>3 DEF Tick
  <2>2. offer \in Offers /\ meta \in Nat
    BY DEF TypesInv, TypeOK, StripeType
  <2> HIDE DEF offer, meta
  <2>3. Length(offer) \in Nat /\ offer.credits \in Nat
    BY <2>2, LengthMonth, SubscriptionAssumption
  <2>4. v \in InvoiceType /\ v.kind = "cycle" /\ v.start = stripe.end
    BY <2>2, <2>3, ServiceTypes DEF InvoiceType
  <2> HIDE DEF v
  <2>5. /\ DOMAIN invoices' = DOMAIN invoices \cup {k} /\ invoices'[k] = v
        /\ \A j \in DOMAIN invoices : invoices'[j] = invoices[j]
        /\ \A i : Paid(i)' = Paid(i)
    BY <2>1, <2>4, InvoiceAdded
  <2> HIDE DEF k
  <2>6. InvoicesStay /\ Pending' = Pending /\ \A i : intents'[i] = intents[i]
    BY <1>1, <2>5 DEF InvoicesStay, Pending
  <2>7. stripe.end + Length(offer) \in Nat /\ stripe.end <= stripe.end + Length(offer)
    BY <2>3, ServiceTypes
  <2>8. Covered'
    <3>1. /\ stripe'.start \in Nat /\ stripe'.end \in Nat
          /\ stripe'.offer.credits \in Nat
          /\ stripe.end <= stripe'.end /\ stripe'.start = stripe.end
      BY <2>1, <2>3, <2>7, ServiceTypes
    <3> QED BY <1>1, <3>1, CoveredKept DEF PaidInv
  <2>9. ASSUME NEW i \in Pending PROVE ~(stripe.end <= intents[i].date)
    <3>1. intents[i].date <= now /\ now < stripe.end /\ intents[i].date \in Nat
      BY IntentAt, OnePending DEF ServiceInv, IntentsShape, StripePaces
    <3> QED BY <3>1, ServiceTypes
  <2>10. ChargesFit'
    <3>1. ASSUME NEW i \in Pending' PROVE ChargeStays(i)
      BY <1>1, <2>4, <2>5, <2>6, <2>9 DEF credits, ChargeStays, RowStillFits
    <3> QED BY <2>6, <3>1, ChargesKept DEF PaidInv
  <2>11. PaymentsShape'
    BY <1>1, <2>6, PaymentsKept DEF PaidInv
  <2> QED BY <1>1, <2>6, <2>8, <2>10, <2>11, PassesKept, HooksKept DEF PaidInv
<1> QED BY <1>2, <1>3

\* Payments of cycle invoices.
LEMMA RecordBooks ==
  ASSUME TypesInv, PaidInv, NEW k \in DOMAIN invoices, RecordPayment(k),
         invoices[k].kind = "cycle",
         UNCHANGED <<stripe, invoices, intents, credits, pass>>
  PROVE  PaymentsShape' /\ ChargesFit' /\ PassPays' /\ Covered'
<1>1. UNCHANGED periods /\ Pending' = Pending /\ InvoicesStay
  BY DEF credits, Pending, InvoicesStay
<1> DEFINE x == [invoice |-> k, offer |-> invoices[k].offer,
                 start |-> invoices[k].start, end |-> invoices[k].end]
<1>2. payments' = payments \cup {x}
  BY DEF RecordPayment
<1>3. /\ x.invoice = k /\ x.offer = invoices[k].offer
      /\ x.start = invoices[k].start /\ x.end = invoices[k].end
  OBVIOUS
<1> HIDE DEF x
<1>4. PaymentsShape'
  BY <1>1, <1>2, <1>3, PaymentRecorded DEF PaidInv
<1>5. ChargesFit'
  BY <1>1 DEF PaidInv, ChargesFit, ChargeFits, Paid
<1>6. PassPays'
  BY <1>2, PassesKept DEF PaidInv
<1>7. Covered'
  BY <1>2, CoveredKept, ServiceTypes DEF PaidInv
<1> QED BY <1>4, <1>5, <1>6, <1>7

LEMMA HookBooks ==
  ASSUME TypesInv, PaidInv,
         \/ \E w \in Hooks : Hook(w) \/ HookCrash(w)
         \/ \E k \in DOMAIN invoices :
              PayInvoice(k) \/ \E w \in Hooks : RetrieveForInvoice(w, k)
  PROVE  PaidInv'
<1>1. /\ UNCHANGED <<stripe, invoices, intents, credits, pass>>
      /\ InvoicesStay /\ DOMAIN hook = Hooks
  BY DEF Hook, HookCrash, RetrieveSubscription, CommitProjection,
         PayAfterProjection, PayInvoice, RetrieveForInvoice, external, local,
         actors, InvoicesStay, TypesInv, TypeOK
<1>2. HookInvoices'
  <2>1. ASSUME NEW u \in Hooks, hook'[u].invoice # 0
        PROVE  invoices[hook'[u].invoice].kind = "cycle"
    <3>1. ASSUME NEW w \in Hooks, Hook(w) \/ HookCrash(w)
          PROVE  hook'[u].invoice \in {0, hook[u].invoice}
      <4>1. CASE hook' = [hook EXCEPT ![w] = IdleHook]
        BY <1>1, <4>1 DEF IdleHook
      <4>2. CASE RetrieveSubscription(w)
        BY <1>1, <4>2 DEF RetrieveSubscription
      <4>3. CASE CommitProjection(w)
        <5>1. hook[w] \in HookType
          BY DEF TypesInv, TypeOK
        <5> DEFINE v == [hook[w] EXCEPT !.at = "pay", !.read = None]
        <5>2. v.invoice = hook[w].invoice
          BY <5>1 DEF HookType
        <5>3. \/ hook' = [hook EXCEPT ![w] = IdleHook]
              \/ hook' = [hook EXCEPT ![w] = v]
          BY <4>3 DEF CommitProjection
        <5> HIDE DEF v
        <5> QED BY <1>1, <4>1, <5>2, <5>3
      <4> QED BY <3>1, <4>1, <4>2, <4>3 DEF Hook, HookCrash, PayAfterProjection
    <3>2. ASSUME NEW k \in DOMAIN invoices, PayInvoice(k)
          PROVE  hook'[u].invoice \in {0, hook[u].invoice}
      BY <3>2 DEF PayInvoice, actors
    <3>3. ASSUME NEW k \in DOMAIN invoices, NEW w \in Hooks, RetrieveForInvoice(w, k)
          PROVE  \/ hook'[u].invoice = hook[u].invoice
                 \/ hook'[u].invoice = k /\ invoices[k].kind = "cycle"
      BY <1>1, <3>3 DEF RetrieveForInvoice
    <3> QED BY <2>1, <3>1, <3>2, <3>3 DEF PaidInv, HookInvoices
  <2> QED BY <1>1, <2>1 DEF HookInvoices
<1>3. CASE UNCHANGED payments
  <2>1. PaymentsShape' /\ ChargesFit'
    BY <1>1, <1>3, BooksQuiet DEF PaidInv, credits
  <2>2. PassPays' /\ Covered'
    BY <1>1, <1>3, PassesKept, CoveredKept, ServiceTypes DEF PaidInv
  <2> QED BY <1>2, <2>1, <2>2 DEF PaidInv
<1>4. ASSUME NEW k \in DOMAIN invoices, RecordPayment(k), invoices[k].kind = "cycle"
      PROVE  PaidInv'
  BY <1>1, <1>2, <1>4, RecordBooks DEF PaidInv
<1>5. ASSUME NEW w \in Hooks, PayAfterProjection(w) PROVE PaidInv'
  <2>1. /\ hook[w].invoice \in DOMAIN invoices
        /\ invoices[hook[w].invoice].kind = "cycle"
        /\ RecordPayment(hook[w].invoice)
    BY <1>5 DEF PayAfterProjection, TypesInv, HookReads, PaidInv, HookInvoices
  <2> QED BY <1>4, <2>1
<1>6. ASSUME NEW k \in DOMAIN invoices, PayInvoice(k) PROVE PaidInv'
  BY <1>4, <1>6 DEF PayInvoice
<1>7. CASE \/ \E w \in Hooks : \/ RetrieveSubscription(w) \/ CommitProjection(w)
                               \/ HookCrash(w)
           \/ \E k \in DOMAIN invoices, w \in Hooks : RetrieveForInvoice(w, k)
  BY <1>3, <1>7 DEF RetrieveSubscription, CommitProjection, HookCrash,
                    RetrieveForInvoice, local
<1> QED BY <1>5, <1>6, <1>7 DEF Hook

\* Steps that start or end passes.
LEMMA PassOnlyBooks ==
  ASSUME TypesInv, PaidInv, NEW p \in Passes \cup {Api}, NEW q,
         pass' = [pass EXCEPT ![p] = q],
         UNCHANGED <<stripe, invoices, intents, credits, payments, hook>>,
         q.pays \subseteq payments, q.at # "append"
  PROVE  PaidInv'
<1>1. InvoicesStay
  BY DEF InvoicesStay
<1>2. PaymentsShape' /\ ChargesFit'
  BY BooksQuiet DEF PaidInv, credits
<1>3. PassPays'
  BY PassKept DEF PaidInv
<1>4. Covered' /\ HookInvoices'
  BY <1>1, CoveredKept, HooksKept, ServiceTypes DEF PaidInv
<1> QED BY <1>2, <1>3, <1>4 DEF PaidInv

\* Steps that change none of what the payments cover.
LEMMA QuietBooks ==
  ASSUME TypesInv, PaidInv,
         UNCHANGED <<stripe, invoices, intents, credits, payments, hook, pass>>
  PROVE  PaidInv'
<1>1. InvoicesStay
  BY DEF InvoicesStay
<1>2. PaymentsShape' /\ ChargesFit'
  BY BooksQuiet DEF PaidInv, credits
<1>3. Covered' /\ PassPays' /\ HookInvoices'
  BY <1>1, CoveredKept, PassesKept, HooksKept, ServiceTypes DEF PaidInv
<1> QED BY <1>2, <1>3 DEF PaidInv

LEMMA StartedFresh ==
  /\ StartedPass.pays = {} /\ StartedPass.at # "append"
  /\ IdlePass.pays = {} /\ IdlePass.at # "append"
BY DEF StartedPass, IdlePass

\* The steps of a request that may start its pass.
LEMMA RequestBooks ==
  ASSUME TypesInv, PaidInv,
         \/ \E target \in Offers : ChangeRequest(target)
         \/ ChangePreview \/ ChangeReload \/ ChangeConfirm \/ ChangeGiveUp
         \/ \E i \in DOMAIN intents : ChangeResume(i)
  PROVE  PaidInv'
<1>1. /\ UNCHANGED <<stripe, invoices, intents, credits, payments, hook>>
      /\ pass' = pass \/ pass' = ApiPass
  BY DEF ChangeRequest, ChangePreview, ChangeReload, ChangeConfirm,
         ChangeGiveUp, ChangeResume, external, local
<1>2. CASE pass' = [pass EXCEPT ![Api] = StartedPass]
  BY <1>1, <1>2, StartedFresh, PassOnlyBooks
<1>3. CASE pass' = pass
  BY <1>1, <1>3, QuietBooks
<1> QED BY <1>1, <1>2, <1>3 DEF ApiPass

LEMMA AdmitBooks ==
  ASSUME TypesInv, ServiceInv, PaidInv, ChangeAdmit
  PROVE  PaidInv'
<1>1. /\ UNCHANGED <<stripe, invoices, credits, payments, pass, hook>>
      /\ intents \in Seq(IntentType)
      /\ \/ Pending = {} /\ \E x \in IntentType : intents' = Append(intents, x)
         \/ intents' = intents
  <2> DEFINE x == [status |-> "pending", mode |-> api.mode, from |-> sub.offer,
                   to |-> api.target, start |-> sub.start, end |-> sub.end,
                   date |-> api.date, adjust |-> api.adjust, since |-> now]
  <2>1. x \in IntentType
    BY DEF ChangeAdmit, TypesInv, TypeOK, ApiReads, SubType, ApiType, IntentType
  <2>2. \/ Pending = {} /\ intents' = Append(intents, x)
        \/ intents' = intents
    BY DEF ChangeAdmit
  <2> HIDE DEF x
  <2> QED BY <2>1, <2>2 DEF ChangeAdmit, external, TypesInv, TypeOK
<1>2. CASE intents' = intents
  BY <1>1, <1>2, QuietBooks
<1>3. ASSUME NEW x \in IntentType, intents' = Append(intents, x), Pending = {}
      PROVE  PaidInv'
  <2> PICK i \in Nat : i = Len(intents) + 1
    BY <1>1
  <2>1. /\ DOMAIN intents' = DOMAIN intents \cup {i} /\ i \notin DOMAIN intents
        /\ \A j \in DOMAIN intents : intents'[j] = intents[j]
    BY <1>1, <1>3
  <2>2. Pending' \subseteq {i}
    BY <1>3, <2>1 DEF Pending
  <2>3. \A k \in DOMAIN invoices :
          invoices[k].kind = "change" => invoices[k].meta \in DOMAIN intents
    BY DEF ServiceInv, ChangeInvoices
  <2>4. ChargesFit'
    <3>1. Paid(i)' = {}
      BY <1>1, <2>1, <2>3 DEF Paid
    <3> QED BY <2>2, <3>1, ChargesGone
  <2>5. InvoicesStay
    BY <1>1 DEF InvoicesStay
  <2>6. PaymentsShape'
    <3>1. \A y \in payments : y.invoice \in DOMAIN invoices
      BY DEF PaidInv, PaymentsShape
    <3>2. \A y \in payments : invoices[y.invoice].kind = "change" =>
            invoices[y.invoice].meta \notin Pending'
      BY <2>1, <2>2, <2>3, <3>1
    <3> QED BY <1>1, <2>5, <3>2, PaymentsKept DEF PaidInv
  <2>7. PassPays' /\ HookInvoices'
    BY <1>1, <2>5, PassesKept, HooksKept DEF PaidInv
  <2>8. Covered'
    BY <1>1, CoveredKept, ServiceTypes DEF PaidInv
  <2> QED BY <2>4, <2>6, <2>7, <2>8 DEF PaidInv
<1> QED BY <1>1, <1>2, <1>3

\* A change that Stripe has just collected fits what the rows and the other
\* invoices of its month have.
LEMMA ChargeBooks ==
  ASSUME TypesInv, ServiceInv, PaidInv, ChangeCharge
  PROVE  PaidInv'
<1> PICK i \in Nat : i = api.intent
  BY DEF TypesInv, TypeOK, ApiType
<1>1. PICK v \in InvoiceType, k \in Nat :
           /\ k \notin DOMAIN invoices /\ invoices'[k] = v
           /\ DOMAIN invoices' = DOMAIN invoices \cup {k}
           /\ \A j \in DOMAIN invoices : invoices'[j] = invoices[j]
           /\ \A j : Paid(j)' = IF j = api.intent THEN {k} ELSE Paid(j)
           /\ v.kind = "change" /\ v.meta = api.intent
           /\ v.offer = api.target /\ v.end = stripe'.end
           /\ stripe.offer.yearly = api.target.yearly =>
                /\ v.start = intents[api.intent].date
                /\ stripe.start <= intents[api.intent].date
  BY ChargedInvoice
<1>2. /\ UNCHANGED <<now, intents>>
      /\ i \in Pending /\ Paid(i) = {} /\ intents[i].to = api.target
      /\ api.target \in Offers
      /\ Rises(stripe.offer, api.target, intents[i].adjust)
      /\ stripe.offer.credits <= api.target.credits
      /\ stripe'.offer = api.target
      /\ stripe.start <= stripe'.start /\ stripe.end <= stripe'.end
      /\ now < stripe'.end
      /\ stripe'.start \in Nat /\ stripe'.end \in Nat
      /\ stripe.offer.yearly = api.target.yearly =>
           stripe'.start = stripe.start /\ stripe'.end = stripe.end
  BY ChargedPeriod
<1>3. UNCHANGED <<credits, payments, pass, hook>>
  BY DEF ChangeCharge, local
<1>4. /\ i \in DOMAIN intents /\ (\A j \in Pending : j = i) /\ Pending' = Pending
      /\ InvoicesStay
  BY <1>1, <1>2, OnePending DEF Pending, InvoicesStay
<1>5. api.target.credits \in Nat
  BY <1>2, SubscriptionAssumption
<1>6. Covered'
  BY <1>2, <1>3, <1>5, CoveredKept DEF PaidInv
<1>7. PaymentsShape'
  BY <1>3, <1>4, PaymentsKept DEF PaidInv
<1>8. PassPays' /\ HookInvoices'
  BY <1>3, <1>4, PassesKept, HooksKept DEF PaidInv
<1>9. ASSUME intents[i].from.yearly = intents[i].to.yearly
      PROVE  ChargeFits(i, k)'
  <2>1. stripe.offer.yearly = api.target.yearly
    BY <1>2, <1>9 DEF ChangeCharge
  <2>2. /\ v.start = intents[i].date /\ stripe.start <= intents[i].date
        /\ v.end = stripe.end
        /\ stripe.offer.credits + intents[i].adjust <= intents[i].to.credits
    BY <1>1, <1>2, <2>1 DEF Rises
  <2>3. /\ intents[i].date \in Nat /\ intents[i].adjust \in Nat
        /\ intents[i].to.credits \in Nat
        /\ intents[i].date <= now /\ now < stripe.end
    BY <1>2, <1>4, <1>5, IntentAt DEF ServiceInv, IntentsShape, StripePaces
  <2>4. intents[i].date < v.end
    BY <2>2, <2>3, ServiceTypes
  <2>5. ASSUME NEW r \in periods
        PROVE  /\ r.carried > 0 => r.end <= v.end
               /\ r.start <= intents[i].date /\ intents[i].date < r.end =>
                    r.target + intents[i].adjust <= intents[i].to.credits
    <3>1. /\ r.end <= stripe.end
          /\ r.end > stripe.start => r.target <= stripe.offer.credits
      BY DEF PaidInv, Covered, RowsBelow
    <3>2. r.end \in Nat /\ r.target \in Nat
      BY DEF TypesInv, TypeOK, PeriodType
    <3> QED BY <2>2, <2>3, <3>1, <3>2, ServiceTypes
  <2>6. ASSUME NEW j \in DOMAIN invoices, invoices[j].start <= intents[i].date,
               intents[i].date < invoices[j].end
        PROVE  invoices[j].offer.credits + intents[i].adjust
                 <= intents[i].to.credits
    <3>1. invoices[j].end > stripe.start =>
            invoices[j].offer.credits <= stripe.offer.credits
      BY DEF ServiceInv, InvoicesBelow
    <3>2. invoices[j].end \in Nat /\ invoices[j].offer.credits \in Nat
      BY ServiceTypes
    <3> QED BY <2>2, <2>3, <2>6, <3>1, <3>2, ServiceTypes
  <2> QED BY <1>1, <1>2, <1>3, <2>2, <2>4, <2>5, <2>6 DEF ChargeFits, credits
<1>10. ChargesFit'
  BY <1>1, <1>2, <1>4, <1>9 DEF ChargesFit
<1> QED BY <1>6, <1>7, <1>8, <1>10 DEF PaidInv

LEMMA ScheduleBooks ==
  ASSUME TypesInv, ServiceInv, PaidInv, ChangeSchedule
  PROVE  PaidInv'
<1>1. /\ UNCHANGED <<invoices, intents, credits, payments, pass, hook>>
      /\ stripe'.offer = stripe.offer /\ stripe'.start = stripe.start
      /\ stripe'.end = stripe.end /\ InvoicesStay
  BY ServiceTypes DEF ChangeSchedule, local, StripeType, InvoicesStay
<1>2. PaymentsShape' /\ ChargesFit'
  BY <1>1, BooksQuiet DEF PaidInv, credits
<1>3. PassPays' /\ HookInvoices'
  BY <1>1, PassesKept, HooksKept DEF PaidInv
<1>4. Covered'
  BY <1>1, CoveredKept, ServiceTypes DEF PaidInv
<1> QED BY <1>2, <1>3, <1>4 DEF PaidInv

\* A pending change ends without having been paid, or at the renewal.
LEMMA EndBooks ==
  ASSUME TypesInv, ServiceInv, PaidInv,
         \/ ChangeComplete
         \/ \E i \in DOMAIN intents : ScheduleApply(i) \/ ChangeAbandon(i)
  PROVE  PaidInv'
<1>1. /\ UNCHANGED <<stripe, invoices, credits, payments, pass, hook>>
      /\ InvoicesStay
  BY DEF ChangeComplete, ScheduleApply, ChangeAbandon, external, actors,
         InvoicesStay
<1>2. PICK i \in Pending, status \in {"applied", "failed"} :
        intents' = [intents EXCEPT ![i].status = status]
  BY DEF ChangeComplete, ScheduleApply, ChangeAbandon, ApplyRenewal
<1>3. Pending' = {}
  <2>1. /\ \A j \in Pending : j = i
        /\ i \in DOMAIN intents /\ DOMAIN intents' = DOMAIN intents
    BY <1>2, OnePending
  <2>2. intents[i] \in IntentType
    BY <2>1, IntentAt
  <2>3. intents'[i].status = status
    BY <1>2, <2>1, <2>2 DEF IntentType
  <2>4. \A j \in DOMAIN intents : j # i => intents'[j] = intents[j]
    BY <1>2
  <2> QED BY <2>1, <2>3, <2>4 DEF Pending
<1>4. PaymentsShape'
  BY <1>1, <1>3, PaymentsKept DEF PaidInv
<1>5. ChargesFit'
  BY <1>3, ChargesGone
<1>6. PassPays' /\ HookInvoices'
  BY <1>1, PassesKept, HooksKept DEF PaidInv
<1>7. Covered'
  BY <1>1, CoveredKept, ServiceTypes DEF PaidInv
<1> QED BY <1>4, <1>5, <1>6, <1>7 DEF PaidInv

-----------------------------------------------------------------------------
(* Passes grant what is paid *)

LEMMA NextMonthStarts ==
  ASSUME NEW q \in PassType, NEW n
  PROVE  /\ AtMonth(q, n).pays \subseteq q.pays
         /\ AtMonth(q, n).at # "append"
<1>1. CASE AtMonth(q, n) = IdlePass
  BY <1>1, StartedFresh
<1>2. CASE AtMonth(q, n) = [q EXCEPT !.at = "month", !.n = n, !.credits = 0]
  BY <1>2 DEF PassType
<1> QED BY <1>1, <1>2 DEF AtMonth

LEMMA CoveringPays ==
  ASSUME NEW q
  PROVE  \A x \in Covering(q) :
           /\ x \in q.pays /\ x.start <= Boundary(q.anchor, q.n)
           /\ x.end >= Boundary(q.anchor, q.n + 1)
BY DEF Covering

LEMMA PassPlanBooks ==
  ASSUME TypesInv, PaidInv, NEW p \in Passes \cup {Api}, PassPlan(p)
  PROVE  PaidInv'
<1> DEFINE q == [pass[p] EXCEPT !.pays = payments]
           n == Cardinality(Rows(pass[p].rev))
<1>1. pass[p] \in PassType
  BY DEF TypesInv, TypeOK
<1>2. q \in PassType /\ q.pays = payments
  BY <1>1 DEF TypesInv, TypeOK, PassType
<1>3. /\ pass' = [pass EXCEPT ![p] = AtMonth(q, n)]
      /\ UNCHANGED <<stripe, invoices, intents, credits, payments, hook>>
  BY DEF PassPlan, external, local
<1> HIDE DEF q, n
<1>4. AtMonth(q, n).pays \subseteq payments /\ AtMonth(q, n).at # "append"
  BY <1>2, NextMonthStarts
<1> QED BY <1>3, <1>4, PassOnlyBooks

LEMMA PassEndBooks ==
  ASSUME TypesInv, PaidInv, NEW p \in Passes \cup {Api},
         \/ p \in Passes /\ PassStart(p)
         \/ PassUncovered(p) \/ PassCrash(p)
  PROVE  PaidInv'
<1>1. /\ \/ pass' = [pass EXCEPT ![p] = StartedPass]
         \/ pass' = [pass EXCEPT ![p] = IdlePass]
      /\ UNCHANGED <<stripe, invoices, intents, credits, payments, hook>>
  BY DEF PassStart, PassUncovered, PassCrash, external, local
<1> QED BY <1>1, StartedFresh, PassOnlyBooks

\* A payment that covers a month leaves the room a charged change needs there.
LEMMA CoveredMonthFits ==
  ASSUME TypesInv, ServiceInv, PaidInv, NEW x \in payments, NEW row \in PeriodType,
         x.start <= row.start, row.end <= x.end, row.target = x.offer.credits,
         row.end = row.start + Month
  PROVE  /\ row.end <= stripe.end
         /\ row.end > stripe.start => row.target <= stripe.offer.credits
         /\ x.start < row.end /\ row.start < x.end
         /\ \A i \in Pending :
              /\ intents[i].from.yearly = intents[i].to.yearly
              /\ Paid(i) # {}
              /\ row.start <= intents[i].date /\ intents[i].date < row.end
              => row.target + intents[i].adjust <= intents[i].to.credits
<1> DEFINE v == invoices[x.invoice]
<1>1. /\ x.invoice \in DOMAIN invoices /\ x.offer = v.offer
      /\ x.start = v.start /\ x.end = v.end
      /\ v.kind = "change" => v.meta \notin Pending
  BY DEF PaidInv, PaymentsShape
<1>2. /\ v.end <= stripe.end
      /\ v.end > stripe.start => v.offer.credits <= stripe.offer.credits
  BY <1>1 DEF ServiceInv, InvoicesBelow
<1>3. /\ v.start \in Nat /\ v.end \in Nat /\ v.offer.credits \in Nat
      /\ stripe.start \in Nat /\ stripe.end \in Nat
      /\ stripe.offer.credits \in Nat /\ Month \in Nat \ {0}
      /\ row.start \in Nat /\ row.end \in Nat
  BY <1>1, ServiceTypes DEF PeriodType
<1> HIDE DEF v
<1>4. row.start < row.end
  BY <1>3
<1>5. ASSUME NEW i \in Pending, intents[i].from.yearly = intents[i].to.yearly,
             Paid(i) # {},
             row.start <= intents[i].date, intents[i].date < row.end
      PROVE  row.target + intents[i].adjust <= intents[i].to.credits
  <2>1. PICK k \in Paid(i) : ChargeFits(i, k)
    BY <1>5 DEF PaidInv, ChargesFit
  <2>2. x.invoice # k
    BY <1>1, <1>5, <2>1 DEF Paid, v
  <2>3. intents[i].date \in Nat
    BY IntentAt, OnePending
  <2>4. v.start <= intents[i].date /\ intents[i].date < v.end
    BY <1>1, <1>3, <1>5, <2>3
  <2> QED BY <1>1, <2>1, <2>2, <2>4 DEF ChargeFits, v
<1> QED BY <1>1, <1>2, <1>3, <1>4, <1>5

LEMMA PassMonthBooks ==
  ASSUME TypesInv, ServiceInv, PaidInv, NEW p \in Passes \cup {Api}, PassMonth(p)
  PROVE  PaidInv'
<1>1. PICK row \in PeriodType, s \in PassType :
        /\ periods' = periods \cup {row}
        /\ row.rev = pass[p].rev /\ row.n = pass[p].n
        /\ \/ row \in periods
           \/ /\ Row(pass[p].rev, pass[p].n) = {}
              /\ row.start = Boundary(pass[p].anchor, pass[p].n)
              /\ row.end = Boundary(pass[p].anchor, pass[p].n + 1)
              /\ row.granted = 0 /\ row.carried = 0
              /\ \E x \in Covering(pass[p]) : row.target = x.offer.credits
        /\ pass' = [pass EXCEPT ![p] = s]
        /\ \/ s = IdlePass
           \/ s = AtMonth(pass[p], pass[p].n + 1)
           \/ \E c : s = [pass[p] EXCEPT !.at = "append", !.credits = c]
  BY PassMonthEffect
<1>2. /\ UNCHANGED <<stripe, invoices, intents, payments, hook, grants>>
      /\ Covering(pass[p]) # {} /\ InvoicesStay /\ Pending' = Pending
      /\ \A i : Paid(i)' = Paid(i)
  BY DEF PassMonth, external, local, InvoicesStay, Pending, Paid
<1>3. /\ pass[p] \in PassType /\ pass[p].pays \subseteq payments
      /\ pass[p].anchor \in Nat /\ pass[p].n \in Nat
  BY DEF TypesInv, TypeOK, PaidInv, PassPays, PassType
<1>4. s.pays \subseteq payments /\ (s.at = "append" => Covering(s) # {})
  <2>1. CASE s = IdlePass
    BY <2>1, StartedFresh
  <2>2. CASE s = AtMonth(pass[p], pass[p].n + 1)
    BY <1>3, <2>2, NextMonthStarts
  <2>3. ASSUME NEW c, s = [pass[p] EXCEPT !.at = "append", !.credits = c]
        PROVE  s.pays \subseteq payments /\ Covering(s) # {}
    <3>1. s.pays = pass[p].pays /\ s.anchor = pass[p].anchor /\ s.n = pass[p].n
      BY <1>3, <2>3 DEF PassType
    <3> QED BY <1>2, <1>3, <3>1 DEF Covering
  <2> QED BY <1>1, <2>1, <2>2, <2>3
<1>5. PassPays' /\ HookInvoices' /\ PaymentsShape'
  <2>1. PassPays'
    BY <1>1, <1>2, <1>4, PassKept DEF PaidInv
  <2> QED BY <1>2, <2>1, HooksKept, PaymentsKept DEF PaidInv
<1>6. CASE row \in periods
  <2>1. UNCHANGED credits
    BY <1>1, <1>2, <1>6 DEF credits
  <2>2. Covered' /\ ChargesFit'
    BY <1>2, <2>1, CoveredKept, BooksQuiet, ServiceTypes DEF PaidInv, credits
  <2> QED BY <1>5, <2>2 DEF PaidInv
<1>7. ASSUME row.start = Boundary(pass[p].anchor, pass[p].n),
             row.end = Boundary(pass[p].anchor, pass[p].n + 1), row.carried = 0,
             NEW x \in Covering(pass[p]), row.target = x.offer.credits
      PROVE  PaidInv'
  <2>1. x \in payments /\ x.start <= row.start /\ row.end <= x.end
    <3>1. /\ x \in payments /\ x.start <= row.start /\ x.end >= row.end
          /\ x \in PaymentType
      BY <1>3, <1>7, CoveringPays DEF TypesInv, TypeOK
    <3>2. x.end \in Nat /\ row.end \in Nat
      BY <3>1 DEF PaymentType, PeriodType
    <3> QED BY <3>1, <3>2
  <2>2. row.end = row.start + Month
    BY <1>3, <1>7, NextBoundary
  <2>3. /\ row.end <= stripe.end
        /\ row.end > stripe.start => row.target <= stripe.offer.credits
        /\ x.start < row.end /\ row.start < x.end
        /\ \A i \in Pending :
             /\ intents[i].from.yearly = intents[i].to.yearly
             /\ Paid(i) # {}
             /\ row.start <= intents[i].date /\ intents[i].date < row.end
             => row.target + intents[i].adjust <= intents[i].to.credits
    BY <1>7, <2>1, <2>2, CoveredMonthFits
  <2>4. Covered'
    <3>1. row.target <= x.offer.credits
      BY <1>7 DEF PeriodType
    <3>2. periods' = (periods \ {}) \cup {row} /\ TakesPlace({}, row)
      BY <1>1 DEF TakesPlace
    <3>3. RowFits(row) /\ GrantFitsRow(row)
      BY <1>2, <2>1, <2>2, <2>3, <3>1 DEF RowFits, GrantFitsRow
    <3>4. Covered /\ UNCHANGED stripe /\ payments \subseteq payments'
      BY <1>2 DEF PaidInv
    <3> QED BY <3>2, <3>3, <3>4, RowWritten
  <2>5. ChargesFit'
    <3>1. ASSUME NEW i \in Pending', Paid(i)' # {},
                 intents'[i].from.yearly = intents'[i].to.yearly
          PROVE  ChargeStays(i)
      <4>1. /\ i \in Pending /\ Paid(i) # {} /\ intents'[i] = intents[i]
            /\ intents[i].from.yearly = intents[i].to.yearly
        BY <1>2, <3>1
      <4>2. RowStillFits(i, row)
        BY <1>7, <2>3, <4>1 DEF RowStillFits
      <4>3. \A r \in periods' : RowStillFits(i, r)
        BY <1>1, <4>2 DEF RowStillFits
      <4> QED BY <1>2, <4>1, <4>3 DEF ChargeStays
    <3>2. ChargesFit /\ InvoicesStay
      BY <1>2 DEF PaidInv
    <3>3. \A i \in Pending' :
            intents'[i].from.yearly = intents'[i].to.yearly /\ Paid(i)' # {} =>
              ChargeStays(i)
      BY <3>1
    <3> QED BY <3>2, <3>3, ChargesKept
  <2> QED BY <1>5, <2>4, <2>5 DEF PaidInv
<1> QED BY <1>1, <1>6, <1>7

LEMMA PassAppendBooks ==
  ASSUME TypesInv, MonthsInv, ServiceInv, PaidInv, NEW p \in Passes \cup {Api},
         PassAppend(p)
  PROVE  PaidInv'
<1> DEFINE q == pass[p]
           key == <<"month", Boundary(q.anchor, q.n)>>
<1>1. PICK r \in Row(q.rev, q.n) :
        IF Fits(key, r, q.credits)
        THEN /\ periods' = (periods \ {r})
                  \cup {[r EXCEPT !.granted = @ + q.credits]}
             /\ grants' = grants \cup {GrantOf(key, r, q.credits)}
             /\ pass' = [pass EXCEPT ![p] = AtMonth(q, q.n + 1)]
        ELSE /\ UNCHANGED credits
             /\ pass' = [pass EXCEPT ![p] =
                  IF Replayed(key, r, q.credits) THEN AtMonth(q, q.n + 1)
                  ELSE IdlePass]
  BY DEF PassAppend
<1>2. /\ UNCHANGED <<stripe, invoices, intents, payments, hook>>
      /\ q.at = "append" /\ InvoicesStay /\ Pending' = Pending
      /\ \A i : Paid(i)' = Paid(i)
  BY DEF PassAppend, external, local, InvoicesStay, Pending, Paid
<1>3. /\ q \in PassType /\ q.pays \subseteq payments /\ Covering(q) # {}
      /\ q.anchor \in Nat /\ q.n \in Nat /\ q.credits \in Nat
  BY <1>2 DEF TypesInv, TypeOK, PaidInv, PassPays, PassType
<1>4. r \in periods /\ r \in PeriodType /\ r.rev = q.rev /\ r.n = q.n
  BY DEF Row, TypesInv, TypeOK
<1>5. r.start = Boundary(q.anchor, q.n)
  <2>1. PICK A \in [Nat -> Nat] : MonthsFrom(A)
    BY DEF MonthsInv
  <2>2. PassInOrder(A, q) /\ RowsInOrder(A)
    BY <2>1 DEF MonthsFrom
  <2> QED BY <1>2, <1>4, <2>2 DEF PassInOrder, RowsInOrder
<1>6. /\ r.end = r.start + Month /\ r.end <= stripe.end
      /\ r.end > stripe.start => r.target <= stripe.offer.credits
  BY <1>4 DEF PaidInv, Covered, RowsBelow
<1>7. CASE UNCHANGED credits
  <2>1. \/ pass' = [pass EXCEPT ![p] = AtMonth(q, q.n + 1)]
        \/ pass' = [pass EXCEPT ![p] = IdlePass]
    BY <1>1
  <2>2. /\ AtMonth(q, q.n + 1).pays \subseteq payments
        /\ AtMonth(q, q.n + 1).at # "append"
    BY <1>3, NextMonthStarts
  <2> HIDE DEF q
  <2> QED BY <1>2, <1>7, <2>1, <2>2, StartedFresh, PassOnlyBooks
<1> HIDE DEF key
<1>8. CASE Fits(key, r, q.credits)
  <2>1. PICK s \in PeriodType : s = [r EXCEPT !.granted = @ + q.credits]
    BY <1>3, <1>4, RowGrown
  <2>2. /\ s.rev = r.rev /\ s.n = r.n /\ s.start = r.start /\ s.end = r.end
        /\ s.target = r.target /\ s.carried = r.carried
    BY <1>4, <2>1 DEF PeriodType
  <2>3. PICK g : g = GrantOf(key, r, q.credits)
    OBVIOUS
  <2>4. g.rev = s.rev /\ g.n = s.n /\ g.end = s.end
    BY <2>2, <2>3 DEF GrantOf
  <2>5. /\ periods' = (periods \ {r}) \cup {s} /\ grants' = grants \cup {g}
        /\ pass' = [pass EXCEPT ![p] = AtMonth(q, q.n + 1)]
    BY <1>1, <1>8, <2>1, <2>3
  <2>6. PassPays'
    <3>1. /\ AtMonth(q, q.n + 1).pays \subseteq payments
          /\ AtMonth(q, q.n + 1).at # "append"
      BY <1>3, NextMonthStarts
    <3> HIDE DEF q
    <3> QED BY <1>2, <2>5, <3>1, PassKept DEF PaidInv
  <2>7. HookInvoices' /\ PaymentsShape'
    BY <1>2, HooksKept, PaymentsKept DEF PaidInv
  <2>8. ChargesFit'
    <3>1. ASSUME NEW i \in Pending', Paid(i)' # {} PROVE ChargeStays(i)
      <4>1. \A t \in periods' : RowStillFits(i, t)
        BY <1>4, <2>2, <2>5 DEF RowStillFits
      <4> QED BY <1>2, <3>1, <4>1 DEF ChargeStays
    <3>2. ChargesFit /\ InvoicesStay
      BY <1>2 DEF PaidInv
    <3>3. \A i \in Pending' :
            intents'[i].from.yearly = intents'[i].to.yearly /\ Paid(i)' # {} =>
              ChargeStays(i)
      BY <3>1
    <3> QED BY <3>2, <3>3, ChargesKept
  <2>9. \E x \in payments' : x.start < g.end /\ g.end <= x.end
    <3>1. PICK x \in payments : /\ x.start <= Boundary(q.anchor, q.n)
                                /\ x.end >= Boundary(q.anchor, q.n + 1)
                                /\ x \in PaymentType
      BY <1>3, CoveringPays DEF TypesInv, TypeOK
    <3>2. r.end = Boundary(q.anchor, q.n + 1)
      BY <1>3, <1>5, <1>6, NextBoundary
    <3>3. /\ x.start \in Nat /\ x.end \in Nat /\ r.start \in Nat /\ r.end \in Nat
          /\ Month \in Nat \ {0}
      BY <1>4, <3>1, SubscriptionAssumption DEF PaymentType, PeriodType
    <3>4. x.start < r.end /\ r.end <= x.end
      BY <1>5, <1>6, <3>1, <3>2, <3>3
    <3> QED BY <1>2, <2>2, <2>4, <3>4
  <2>10. RowFits(s)
    <3>1. r.carried < r.target =>
            \E x \in payments : /\ x.start < r.end /\ r.start < x.end
                                /\ r.target <= x.offer.credits
      BY <1>4 DEF PaidInv, Covered, CeilingIsPaid
    <3> QED BY <1>2, <1>6, <2>2, <3>1 DEF RowFits
  <2>11. Covered'
    <3>1. GrantFitsRow(s)
      BY <2>4, <2>5, <2>9 DEF GrantFitsRow
    <3>2. TakesPlace({r}, s)
      BY <2>2 DEF TakesPlace
    <3>3. Covered /\ UNCHANGED stripe /\ payments \subseteq payments'
      BY <1>2 DEF PaidInv
    <3> QED BY <2>5, <2>10, <3>1, <3>2, <3>3, RowWritten
  <2> QED BY <2>6, <2>7, <2>8, <2>11 DEF PaidInv
<1> QED BY <1>1, <1>7, <1>8

-----------------------------------------------------------------------------
(* Changes grant what is paid *)

\* The row that a change writes, and what it says of its grant.
LEMMA ChangeWrites ==
  ASSUME NEW i, intents[i].adjust \in Nat, NEW rows, NEW r \in PeriodType,
         WithChangeGrant(i, rows, r)
  PROVE  /\ \E s \in PeriodType :
              /\ periods' = rows \cup {s}
              /\ s.rev = r.rev /\ s.n = r.n /\ s.start = r.start /\ s.end = r.end
              /\ s.target = r.target /\ s.carried = r.carried
              /\ \/ grants' = grants
                 \/ /\ intents[i].adjust > 0
                    /\ \E g : /\ grants' = grants \cup {g}
                              /\ g.rev = s.rev /\ g.n = s.n /\ g.end = s.end
         /\ intents[i].adjust > 0 => InPaidYear(i, r)
<1> DEFINE a == intents[i].adjust
           key == <<"change", i>>
<1>1. \/ a = 0 /\ periods' = rows \cup {r} /\ grants' = grants
      \/ /\ a # 0 /\ InPaidYear(i, r)
         /\ periods' = rows \cup {[r EXCEPT !.granted = @ + a]}
         /\ grants' = grants \cup {GrantOf(key, r, a)}
  BY DEF WithChangeGrant
<1> HIDE DEF key
<1>2. CASE a = 0 /\ periods' = rows \cup {r} /\ grants' = grants
  BY <1>2
<1>3. CASE /\ a # 0 /\ InPaidYear(i, r)
           /\ periods' = rows \cup {[r EXCEPT !.granted = @ + a]}
           /\ grants' = grants \cup {GrantOf(key, r, a)}
  <2>1. PICK s \in PeriodType : s = [r EXCEPT !.granted = @ + a]
    BY RowGrown
  <2>2. /\ s.rev = r.rev /\ s.n = r.n /\ s.start = r.start /\ s.end = r.end
        /\ s.target = r.target /\ s.carried = r.carried
    BY <2>1 DEF PeriodType
  <2>3. PICK g : g = GrantOf(key, r, a)
    OBVIOUS
  <2>4. g.rev = s.rev /\ g.n = s.n /\ g.end = s.end
    BY <2>2, <2>3 DEF GrantOf
  <2>5. a > 0
    BY <1>3
  <2> HIDE DEF a
  <2>6. periods' = rows \cup {s} /\ grants' = grants \cup {g} /\ InPaidYear(i, r)
    BY <1>3, <2>1, <2>3
  <2> QED BY <2>2, <2>4, <2>5, <2>6 DEF a
<1> QED BY <1>1, <1>2, <1>3

\* The payment that is recorded with a change.
PaysFor(x, i, k) ==
  /\ payments' = payments \cup {x}
  /\ x.invoice = k /\ x.offer = intents[i].to
  /\ x.start = invoices[k].start /\ x.end = invoices[k].end

LEMMA ApplyPays ==
  ASSUME TypesInv, ServiceInv, NEW i, NEW start, NEW end, NEW k,
         Applies(i, start, end, k)
  PROVE  (\E x : PaysFor(x, i, k)) /\ Pending' = {}
<1> DEFINE x == [invoice |-> k, offer |-> intents[i].to,
                 start |-> invoices[k].start, end |-> invoices[k].end]
<1>1. payments' = payments \cup {x}
  BY DEF Applies, ApplyPaid
<1>2. PaysFor(x, i, k)
  BY <1>1 DEF PaysFor
<1>3. Pending' = {}
  <2>1. /\ i \in Pending /\ (\A j \in Pending : j = i)
        /\ i \in DOMAIN intents /\ DOMAIN intents' = DOMAIN intents
        /\ intents' = [intents EXCEPT ![i].status = "applied"]
    BY OnePending DEF Applies, ApplyPaid
  <2>2. intents[i] \in IntentType
    BY <2>1, IntentAt
  <2>3. intents'[i].status = "applied"
    BY <2>1, <2>2 DEF IntentType
  <2>4. \A j \in DOMAIN intents : j # i => intents'[j] = intents[j]
    BY <2>1
  <2> QED BY <2>1, <2>3, <2>4 DEF Pending
<1> QED BY <1>2, <1>3

\* Within a cadence: the raised month is one that the charge fits, and it was
\* granted before, or carries credits over service that the charge covers too.
LEMMA RaiseCovered ==
  ASSUME TypesInv, MonthsInv, RowsInv, ServiceInv, PaidInv,
         NEW i, NEW start, NEW end, NEW k, Applies(i, start, end, k),
         intents[i].from.yearly = intents[i].to.yearly, RaiseMonth(i),
         NEW x, PaysFor(x, i, k)
  PROVE  Covered'
<1> DEFINE date == intents[i].date
           a == intents[i].adjust
           ordinal == OrdinalAt(sub.anchor, date)
<1>1. /\ i \in Pending /\ k \in DOMAIN invoices /\ k \in Paid(i)
      /\ UNCHANGED stripe
      /\ invoices[k].offer = intents[i].to /\ stripe.offer = intents[i].to
  BY DEF Applies
<1>2. /\ date \in Nat /\ a \in Nat /\ sub.anchor \in Nat
      /\ Month \in Nat \ {0}
  BY <1>1, OnePending, IntentAt, SubscriptionAssumption
     DEF TypesInv, TypeOK, SubType
<1>3. ChargeFits(i, k)
  BY <1>1 DEF PaidInv, ChargesFit
<1>4. PICK r \in periods :
        /\ r.rev = sub.rev /\ r.n = ordinal /\ r.carried + r.granted >= 1
        /\ WithChangeGrant(i, periods \ {r}, [r EXCEPT !.target = @ + a])
  BY DEF RaiseMonth, Row
<1>5. /\ r \in PeriodType /\ r.start \in Nat /\ r.end \in Nat
      /\ r.carried \in Nat /\ r.granted \in Nat /\ r.target \in Nat
  BY DEF TypesInv, TypeOK, PeriodType
<1>6. /\ r.end = r.start + Month /\ r.end <= stripe.end
  BY DEF PaidInv, Covered, RowsBelow
<1>7. r.start <= date /\ date < r.end
  <2>1. r.start = Boundary(sub.anchor, ordinal)
    BY <1>4 DEF MonthsInv, MonthsFrom, RowsInOrder
  <2>2. /\ Boundary(sub.anchor, ordinal) <= date
        /\ date < Boundary(sub.anchor, ordinal) + Month
    BY <1>2, OrdinalCovers
  <2> HIDE DEF date, ordinal
  <2> QED BY <1>6, <2>1, <2>2
<1>8. /\ invoices[k].start = date /\ date < invoices[k].end
      /\ r.carried > 0 => r.end <= invoices[k].end
      /\ r.target + a <= intents[i].to.credits
  BY <1>3, <1>7 DEF ChargeFits
<1>9. PICK t \in PeriodType : t = [r EXCEPT !.target = @ + a]
  BY <1>2, <1>5, RowGrown
<1>10. /\ t.rev = r.rev /\ t.n = r.n /\ t.start = r.start /\ t.end = r.end
       /\ t.target = r.target + a /\ t.carried = r.carried
  BY <1>5, <1>9 DEF PeriodType
<1>11. WithChangeGrant(i, periods \ {r}, t)
  BY <1>4, <1>9
<1>12. PICK s \in PeriodType :
         /\ periods' = (periods \ {r}) \cup {s}
         /\ s.rev = t.rev /\ s.n = t.n /\ s.start = t.start /\ s.end = t.end
         /\ s.target = t.target /\ s.carried = t.carried
         /\ \/ grants' = grants
            \/ /\ intents[i].adjust > 0
               /\ \E g : /\ grants' = grants \cup {g}
                         /\ g.rev = s.rev /\ g.n = s.n /\ g.end = s.end
  BY <1>2, <1>11, ChangeWrites
<1>13. /\ payments \subseteq payments' /\ x \in payments'
       /\ x.start = date /\ x.end = invoices[k].end
       /\ x.offer = intents[i].to
  BY <1>8 DEF PaysFor
<1>14. s.end = r.end /\ s.start = r.start /\ s.target <= intents[i].to.credits
  BY <1>8, <1>10, <1>12
<1>15. invoices[k].end \in Nat
  BY <1>1, ServiceTypes
<1> HIDE DEF date, a, ordinal
<1>16. RowFits(s)
  <2>1. x.start < s.end /\ s.start < x.end
    BY <1>2, <1>5, <1>7, <1>8, <1>13, <1>14, <1>15
  <2> QED BY <1>1, <1>6, <1>13, <1>14, <2>1 DEF RowFits
<1>17. \E y \in payments' : y.start < r.end /\ r.end <= y.end
  <2>1. CASE r.carried > 0
    BY <1>7, <1>8, <1>13, <2>1
  <2>2. CASE ~(r.carried > 0)
    <3>1. r.granted # 0
      BY <1>4, <1>5, <2>2
    <3>2. MonthGrants(r.rev, r.n) # {}
      BY <3>1, RowsAgreeIs, NoCredits DEF RowsInv
    <3>3. PICK g \in grants : g.rev = r.rev /\ g.n = r.n
      BY <3>2 DEF MonthGrants
    <3>4. g.end = r.end
      BY <3>3, MonthsOneRow DEF PaidInv, Covered, GrantEnds, OneRow
    <3> QED BY <1>13, <3>4 DEF PaidInv, Covered, GrantsArePaid
  <2> QED BY <2>1, <2>2
<1>18. GrantFitsRow(s)
  BY <1>12, <1>14, <1>17 DEF GrantFitsRow
<1>19. TakesPlace({r}, s)
  BY <1>10, <1>12 DEF TakesPlace
<1>20. Covered
  BY DEF PaidInv
<1> QED BY <1>1, <1>12, <1>13, <1>16, <1>18, <1>19, <1>20, RowWritten

\* From monthly to annual: the first month of the new schedule has more to
\* grant than it carries only inside the year that was paid.
LEMMA RestartCovered ==
  ASSUME TypesInv, ServiceInv, PaidInv,
         NEW i, NEW start \in Nat, NEW end, NEW k, Applies(i, start, end, k),
         intents[i].from.yearly # intents[i].to.yearly, RestartMonths(i, start),
         NEW x, PaysFor(x, i, k)
  PROVE  Covered'
<1>1. /\ i \in Pending /\ k \in DOMAIN invoices /\ Paid(i) = {k}
      /\ intents[i].mode = "immediate" /\ UNCHANGED stripe
      /\ stripe.offer = intents[i].to /\ start + Month <= stripe.end
      /\ start < invoices[k].end => start + Month <= invoices[k].end
  BY DEF Applies
<1>2. i \in DOMAIN intents
  BY <1>1, OnePending
<1>3. /\ intents[i].adjust \in Nat
      /\ intents[i].from \in Offers /\ intents[i].to \in Offers
      /\ intents[i].to.credits \in Nat
      /\ sub.rev \in Nat /\ sub.rev + 1 \in Nat /\ Month \in Nat \ {0}
  <2>1. intents[i].adjust \in Nat
        /\ intents[i].from \in Offers /\ intents[i].to \in Offers
    BY <1>2, IntentAt
  <2>2. sub.rev \in Nat
    BY DEF TypesInv, TypeOK, SubType
  <2> QED BY <2>1, <2>2, SubscriptionAssumption
<1>4. intents[i].to.yearly
  <2>1. ChangeMode(intents[i].from, intents[i].to) = "immediate"
    BY <1>1, <1>2 DEF ServiceInv, IntentsShape
  <2>2. intents[i].from.yearly => intents[i].to.yearly
    BY <1>3, <2>1, ImmediateRises
  <2>3. intents[i].from.yearly \in BOOLEAN /\ intents[i].to.yearly \in BOOLEAN
    BY <1>3, SubscriptionAssumption
  <2> QED BY <2>2, <2>3
<1>5. PICK r \in periods :
        /\ intents[i].adjust = intents[i].to.credits - Carried(i, r)
        /\ WithChangeGrant(i, periods, FirstMonth(i, r, start))
  BY DEF RestartMonths, Row
<1>6. Carried(i, r) \in Nat /\ Carried(i, r) <= intents[i].to.credits
  <2>1. r \in PeriodType
    BY DEF TypesInv, TypeOK
  <2> QED BY <1>3, <2>1 DEF Carried, Least, PeriodType
<1>7. Boundary(start, 1) = start + Month /\ start + Month \in Nat
  BY <1>3 DEF Boundary
<1>8. PICK t \in PeriodType : t = FirstMonth(i, r, start)
  BY <1>3, <1>6, <1>7 DEF FirstMonth, PeriodType
<1>9. /\ t.start = start /\ t.end = start + Month
      /\ t.carried = Carried(i, r) /\ t.target = intents[i].to.credits
  BY <1>7, <1>8 DEF FirstMonth
<1>10. WithChangeGrant(i, periods, t)
  BY <1>5, <1>8
<1>11. PICK s \in PeriodType :
         /\ periods' = periods \cup {s}
         /\ s.rev = t.rev /\ s.n = t.n /\ s.start = t.start /\ s.end = t.end
         /\ s.target = t.target /\ s.carried = t.carried
         /\ \/ grants' = grants
            \/ /\ intents[i].adjust > 0
               /\ \E g : /\ grants' = grants \cup {g}
                         /\ g.rev = s.rev /\ g.n = s.n /\ g.end = s.end
  BY <1>3, <1>10, ChangeWrites
<1>12. /\ payments \subseteq payments' /\ x \in payments'
       /\ x.start = invoices[k].start /\ x.end = invoices[k].end
       /\ x.offer = intents[i].to
  BY DEF PaysFor
<1>13. intents[i].adjust > 0 =>
         /\ x.start < s.end /\ s.start < x.end /\ s.end <= x.end
  <2>1. intents[i].adjust > 0 => InPaidYear(i, t)
    BY <1>3, <1>10, ChangeWrites
  <2>2. intents[i].adjust > 0 =>
          invoices[k].start < t.end /\ t.start < invoices[k].end
    BY <1>1, <1>4, <2>1 DEF InPaidYear
  <2> QED BY <1>1, <1>9, <1>11, <1>12, <2>2
<1>14. s.carried < s.target => intents[i].adjust > 0
  BY <1>3, <1>5, <1>6, <1>9, <1>11
<1>15. RowFits(s)
  <2>1. s.target <= intents[i].to.credits
    BY <1>3, <1>9, <1>11
  <2> QED BY <1>1, <1>9, <1>11, <1>12, <1>13, <1>14, <2>1 DEF RowFits
<1>16. GrantFitsRow(s)
  BY <1>11, <1>12, <1>13 DEF GrantFitsRow
<1>17. periods' = (periods \ {}) \cup {s} /\ TakesPlace({}, s)
  BY <1>11 DEF TakesPlace
<1>18. Covered
  BY DEF PaidInv
<1> QED BY <1>1, <1>12, <1>15, <1>16, <1>17, <1>18, RowWritten

LEMMA ApplyBooks ==
  ASSUME TypesInv, MonthsInv, RowsInv, ServiceInv, PaidInv,
         ChangeApply \/ \E k \in DOMAIN invoices : InvoiceApply(k)
  PROVE  PaidInv'
<1>1. PICK i \in Nat, start \in Nat, end \in Nat, k \in Nat :
        Applies(i, start, end, k)
  BY Applying
<1>2. PICK x : PaysFor(x, i, k)
  BY <1>1, ApplyPays
<1>3. Pending' = {}
  BY <1>1, ApplyPays
<1>4. /\ UNCHANGED <<invoices, pass, hook>> /\ InvoicesStay
      /\ k \in DOMAIN invoices /\ invoices[k].offer = intents[i].to
      /\ payments \subseteq payments' /\ payments' \subseteq payments \cup {x}
  BY <1>1, <1>2 DEF Applies, InvoicesStay, PaysFor
<1>5. ChargesFit'
  BY <1>3, ChargesGone
<1>6. PaymentsShape'
  BY <1>2, <1>3, <1>4, PaymentRecorded DEF PaidInv, PaysFor
<1>7. HookInvoices' /\ PassPays'
  BY <1>4, HooksKept, PassesKept DEF PaidInv
<1>8. Covered'
  <2>1. IF intents[i].from.yearly # intents[i].to.yearly
        THEN RestartMonths(i, start) ELSE RaiseMonth(i)
    BY <1>1 DEF Applies, ApplyPaid
  <2>2. CASE intents[i].from.yearly # intents[i].to.yearly
    BY <1>1, <1>2, <2>1, <2>2, RestartCovered
  <2>3. CASE intents[i].from.yearly = intents[i].to.yearly
    BY <1>1, <1>2, <2>1, <2>3, RaiseCovered
  <2> QED BY <2>2, <2>3
<1> QED BY <1>5, <1>6, <1>7, <1>8 DEF PaidInv

LEMMA PaidStep ==
  ASSUME TypesInv, MonthsInv, RowsInv, ServiceInv, PaidInv, [Next]_vars
  PROVE  PaidInv'
<1>1. CASE Tick
  BY <1>1, TickBooks
<1>2. ASSUME NEW w \in Hooks, Hook(w) \/ HookCrash(w) PROVE PaidInv'
  BY <1>2, HookBooks
<1>3. ASSUME NEW k \in DOMAIN invoices, Invoice(k) PROVE PaidInv'
  BY <1>3, HookBooks, ApplyBooks DEF Invoice
<1>4. ASSUME NEW p \in Passes, PassStart(p) PROVE PaidInv'
  BY <1>4, PassEndBooks
<1>5. ASSUME NEW p \in Passes \cup {Api}, Pass(p) \/ PassCrash(p)
      PROVE  PaidInv'
  BY <1>5, PassPlanBooks, PassMonthBooks, PassAppendBooks, PassEndBooks DEF Pass
<1>6. CASE \/ \E target \in Offers : ChangeRequest(target)
           \/ ChangePreview \/ ChangeReload \/ ChangeConfirm \/ ChangeGiveUp
  BY <1>6, RequestBooks
<1>7. CASE ChangeAdmit
  BY <1>7, AdmitBooks
<1>8. CASE ChangeCharge
  BY <1>8, ChargeBooks
<1>9. CASE ChangeSchedule
  BY <1>9, ScheduleBooks
<1>10. CASE ChangeApply
  BY <1>10, ApplyBooks
<1>11. CASE ChangeComplete
  BY <1>11, EndBooks
<1>12. ASSUME NEW i \in DOMAIN intents,
              ChangeResume(i) \/ ScheduleApply(i) \/ ChangeAbandon(i)
       PROVE  PaidInv'
  BY <1>12, RequestBooks, EndBooks
<1>13. CASE UNCHANGED vars
  BY <1>13, QuietBooks DEF vars, external, local, actors
<1> QED BY <1>1, <1>2, <1>3, <1>4, <1>5, <1>6, <1>7, <1>8, <1>9, <1>10, <1>11,
           <1>12, <1>13 DEF Next

SubscriptionInv == TypesInv /\ MonthsInv /\ RowsInv /\ ServiceInv /\ PaidInv

LEMMA SubscriptionAlways == Spec => []SubscriptionInv
<1>1. Init => SubscriptionInv
  BY TypesInit, MonthsInit, RowsInit, ServiceInit, PaidInit DEF SubscriptionInv
<1>2. SubscriptionInv /\ [Next]_vars => SubscriptionInv'
  BY TypesStep, MonthsStep, RowsStep, ServiceStep, PaidStep DEF SubscriptionInv
<1> QED BY <1>1, <1>2, PTL DEF Spec

\* A month in which more can be granted than it carries never has a ceiling
\* above the allowance of an offer that was paid for a part of it, for any
\* offers, calendar, passes and workers: neither changes that are charged and
\* applied while passes insert the row of their month, nor repeated requests
\* and renewals in between, raise it further (applyPaidSubscriptionChange,
\* ensureSubscriptionCreditPeriod).
THEOREM CeilingsArePaid == Spec => []CeilingIsPaid
<1>1. SubscriptionInv => CeilingIsPaid
  BY DEF SubscriptionInv, PaidInv, Covered
<1> QED BY <1>1, SubscriptionAlways, PTL

\* A month is granted only inside service that has been paid and recorded,
\* although a pass reads the payments long before it appends the grant and a
\* change may be applied after the period it was charged in
\* (reconcileSubscriptionGrantPeriods, annualRevenueForGrantPeriod).
THEOREM MonthsArePaid == Spec => []GrantsArePaid
<1>1. SubscriptionInv => GrantsArePaid
  BY DEF SubscriptionInv, PaidInv, Covered
<1> QED BY <1>1, SubscriptionAlways, PTL
=============================================================================
