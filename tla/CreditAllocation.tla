--------------------------- MODULE CreditAllocation ---------------------------
(***************************************************************************)
(* The allocation loop of reserveRunCredits, step by step, for lists of      *)
(* quotes and of grants with credits left.  The loop keeps one cursor into   *)
(* the grants across the jobs.  CreditReservation runs it inside the         *)
(* transaction that admits a run.                                          *)
(***************************************************************************)
EXTENDS CreditSpans, Sequences

VARIABLES
  quotes, grants,        \* the inputs
  job,                   \* index of the job being served
  remaining,             \* what it still needs
  grantIndex, currentGrantRemaining,
  drawn                  \* drawn[i][k], what the i-th job took from the k-th grant

loopVars == <<quotes, grants, job, remaining, grantIndex, currentGrantRemaining, drawn>>

Amounts == Seq(Nat \ {0})
Total(list) == Through(list, Len(list))
FirstOf(list) == IF list = <<>> THEN 0 ELSE list[1]

LoopInit ==
  /\ quotes \in Amounts /\ grants \in Amounts
  /\ Total(quotes) <= Total(grants)        \* checked before the loop
  /\ job = 0 /\ remaining = 0
  /\ grantIndex = 1 /\ currentGrantRemaining = FirstOf(grants)
  /\ drawn = [i \in DOMAIN quotes |-> [k \in DOMAIN grants |-> 0]]

\* Mutation: every job starts from the first grant.
NextJobRewind ==
  /\ remaining = 0 /\ job < Len(quotes)
  /\ job' = job + 1
  /\ remaining' = quotes[job']
  /\ grantIndex' = 1 /\ currentGrantRemaining' = FirstOf(grants)
  /\ UNCHANGED <<quotes, grants, drawn>>

NextJob ==
  /\ remaining = 0 /\ job < Len(quotes)
  /\ job' = job + 1
  /\ remaining' = quotes[job']
  /\ UNCHANGED <<quotes, grants, grantIndex, currentGrantRemaining, drawn>>

\* An exhausted grant makes the cursor move on; past the last grant nothing
\* remains.
Advance(left) ==
  IF left = 0
  THEN /\ grantIndex' = grantIndex + 1
       /\ currentGrantRemaining' = IF grantIndex < Len(grants)
                                   THEN grants[grantIndex + 1] ELSE 0
  ELSE /\ currentGrantRemaining' = left
       /\ UNCHANGED grantIndex

Draw ==
  /\ remaining > 0 /\ grantIndex <= Len(grants)
  /\ LET amount == IF remaining < currentGrantRemaining
                   THEN remaining ELSE currentGrantRemaining
     IN /\ drawn' = [drawn EXCEPT ![job][grantIndex] = amount]
        /\ remaining' = remaining - amount
        /\ Advance(currentGrantRemaining - amount)
  /\ UNCHANGED <<quotes, grants, job>>

LoopNext == NextJob \/ Draw

LoopSpec == LoopInit /\ [][LoopNext]_loopVars

-----------------------------------------------------------------------------
\* Wherever the loop stops, at the end of the jobs or because it ran out of grants
\* (credit_allocation_exhausted), it has computed the overlap of the two lists; so
\* it never does run out, although only the totals were compared beforehand.
LoopComputesShares ==
  \/ remaining = 0 /\ job = Len(quotes)
  \/ remaining > 0 /\ grantIndex > Len(grants)
  => \A i \in DOMAIN quotes, k \in DOMAIN grants :
       drawn[i][k] = Share(quotes, grants, i, k)
=============================================================================
