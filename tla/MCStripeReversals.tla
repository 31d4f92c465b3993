-------------------------- MODULE MCStripeReversals ---------------------------
(***************************************************************************)
(* One or two payments, each with the grants it bought, and a run whose     *)
(* job draws from more than one grant.                                     *)
(***************************************************************************)
EXTENDS StripeReversals, TLC

MCAmount == [g \in Grants |-> 2]
MCPlan   == [r \in {"r1"} |-> <<"a">>]
MCQuote  == [j \in {"a"} |-> 3]
OneQuote == [j \in {"a"} |-> 1]
MCHold   == [j \in {"a"} |-> 0]
MCGrantsOf == [p \in Payments |-> IF p = "p1" THEN {"g1"} ELSE {"g2"}]
WorkersAlike == Permutations(Workers)

\* Whether an unfinished event is pending, failed or being processed makes no
\* difference to what may happen: each can be claimed.
Unfinished(status) == status \in {"pending", "failed", "processing"}

Progressed ==
  <<vars, stripe, projected, worker,
    [e \in Event |-> IF Unfinished(inbox[e]) THEN "unfinished" ELSE inbox[e]]>>

PairOf     == [p \in {"p1"} |-> {"g1", "g2"}]
=============================================================================
