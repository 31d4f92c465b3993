-------------------------- MODULE MCCreditAccounting --------------------------
(***************************************************************************)
(* Three grants, one of them public, and two runs: r1 has two jobs, one of  *)
(* which is larger than what is left of a grant when the other was served,  *)
(* and may draw from all three grants.                                     *)
(***************************************************************************)
EXTENDS CreditReservation

MCAmount == [g \in {"g1", "g2", "g3"} |-> IF g = "g1" THEN 3 ELSE IF g = "g2" THEN 2 ELSE 1]
MCPlan   == [r \in {"r1", "r2"} |-> IF r = "r1" THEN <<"a", "b">> ELSE <<"c">>]
MCQuote  == [j \in {"a", "b", "c"} |-> IF j = "c" THEN 1 ELSE 2]
MCHold   == [j \in {"a", "b", "c"} |-> 1]
=============================================================================
