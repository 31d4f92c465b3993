----------------------------- MODULE CreditPurse ------------------------------
(***************************************************************************)
(* What an organization sees of its credits: one purse.  Admitting a run    *)
(* moves its whole quote from the free credits to the held ones, one hold   *)
(* per job; each hold is then either spent or returned, once, in full.      *)
(* Grants, their order and their visibility cannot be seen here.            *)
(***************************************************************************)
EXTENDS Integers

CONSTANTS Runs, Jobs,
          JobsOf,       \* JobsOf[r], the jobs of a run
          Quote,        \* Quote[j], the credits a job may cost
          RunQuote      \* RunQuote[r], the credits a run may cost

VARIABLES
  free,     \* credits that a new run may take
  held,     \* credits held for jobs in progress, all together
  hold      \* what became of each job's credits

vars == <<free, held, hold>>

Init ==
  /\ free = 0 /\ held = 0
  /\ hold = [j \in Jobs |-> "none"]

\* Credits are bought or given, refunded or reinstated: only free ones.
Adjust == UNCHANGED <<held, hold>>

HoldRun(r) ==
  /\ \A j \in JobsOf[r] : hold[j] = "none"
  /\ free >= RunQuote[r]
  /\ free' = free - RunQuote[r]
  /\ held' = held + RunQuote[r]
  /\ hold' = [j \in Jobs |-> IF j \in JobsOf[r] THEN "reserved" ELSE hold[j]]

Spend(j) ==
  /\ hold[j] = "reserved"
  /\ hold' = [hold EXCEPT ![j] = "captured"]
  /\ held' = held - Quote[j]
  /\ UNCHANGED free

GiveBack(j) ==
  /\ hold[j] = "reserved"
  /\ hold' = [hold EXCEPT ![j] = "released"]
  /\ held' = held - Quote[j]
  /\ free' = free + Quote[j]

Next ==
  \/ Adjust
  \/ \E r \in Runs : HoldRun(r)
  \/ \E j \in Jobs : Spend(j) \/ GiveBack(j)

Spec == Init /\ [][Next]_vars
=============================================================================
