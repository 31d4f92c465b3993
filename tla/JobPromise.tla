----------------------------- MODULE JobPromise ------------------------------
(***************************************************************************)
(* What the run engine promises about every generation job, whatever       *)
(* crashes, retries, cancellations and reconcilers do:                     *)
(*   - the paid provider is called at most once, and only after the call   *)
(*     was announced durably;                                              *)
(*   - a job ends once and keeps its outcome;                              *)
(*   - its credits are captured exactly when, and in the step in which, it *)
(*     succeeds, and otherwise released.                                   *)
(* One step of the engine may move several jobs.                           *)
(***************************************************************************)
EXTENDS Naturals

CONSTANT Jobs

VARIABLES
  outcome,     \* "open" until the job has ended
  credit,      \* the quoted credits: reserved, then captured or released
  announced,   \* the paid call was announced
  spent        \* paid calls that reached the provider

vars == <<outcome, credit, announced, spent>>

Init ==
  /\ outcome = [j \in Jobs |-> "open"]
  /\ credit = [j \in Jobs |-> "reserved"]
  /\ announced = [j \in Jobs |-> FALSE]
  /\ spent = [j \in Jobs |-> 0]

SameCall(j) == announced'[j] = announced[j] /\ spent'[j] = spent[j]
SameEnd(j)  == outcome'[j] = outcome[j] /\ credit'[j] = credit[j]

Announce(j) ==
  /\ outcome[j] = "open" /\ ~announced[j]
  /\ announced'[j] = TRUE
  /\ spent'[j] = spent[j] /\ SameEnd(j)

Withdraw(j) ==                      \* the provider proved that nothing started
  /\ announced[j] /\ spent[j] = 0
  /\ announced'[j] = FALSE
  /\ spent'[j] = spent[j] /\ SameEnd(j)

Spend(j) ==
  /\ announced[j] /\ spent[j] = 0
  /\ spent'[j] = 1
  /\ announced'[j] = announced[j] /\ SameEnd(j)

Succeed(j) ==
  /\ outcome[j] = "open" /\ credit[j] = "reserved" /\ spent[j] = 1
  /\ outcome'[j] = "succeeded" /\ credit'[j] = "captured"
  /\ SameCall(j)

Close(j) ==
  /\ outcome[j] = "open"
  /\ outcome'[j] \in {"failed", "canceled"}
  /\ credit'[j] \in {credit[j], "released"}
  /\ SameCall(j)

Refuse(j) ==                        \* both at once: refused for good
  /\ outcome[j] = "open" /\ announced[j] /\ spent[j] = 0
  /\ outcome'[j] = "failed" /\ credit'[j] = "released"
  /\ announced'[j] = FALSE
  /\ spent'[j] = spent[j]

Release(j) ==
  /\ outcome[j] # "succeeded" /\ credit[j] = "reserved"
  /\ credit'[j] = "released"
  /\ outcome'[j] = outcome[j] /\ SameCall(j)

Step(j) ==
  \/ Announce(j) \/ Withdraw(j) \/ Spend(j)
  \/ Succeed(j) \/ Close(j) \/ Refuse(j) \/ Release(j)
  \/ SameCall(j) /\ SameEnd(j)

Next ==
  /\ outcome' \in [Jobs -> {"open", "succeeded", "failed", "canceled"}]
  /\ credit' \in [Jobs -> {"reserved", "captured", "released"}]
  /\ announced' \in [Jobs -> BOOLEAN]
  /\ spent' \in [Jobs -> Nat]
  /\ \A j \in Jobs : Step(j)

Spec == Init /\ [][Next]_vars
=============================================================================
