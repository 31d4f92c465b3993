----------------------------- MODULE CreditSpans ------------------------------
(***************************************************************************)
(* Credits laid end to end: what the allocation of a run's quotes to grants *)
(* comes to.  CreditAllocation walks through the loop that computes it;     *)
(* CreditAccounting uses the result.                                        *)
(***************************************************************************)
EXTENDS Integers, Functions

\* The sum of the first i numbers of a sequence.
Through(sizes, i) == SumFunctionOnSet(sizes, 1..i)

\* The length of what the intervals lo1..hi1 and lo2..hi2 have in common.
Overlap(lo1, hi1, lo2, hi2) ==
  LET lo == IF lo1 < lo2 THEN lo2 ELSE lo1
      hi == IF hi1 < hi2 THEN hi1 ELSE hi2
  IN IF lo < hi THEN hi - lo ELSE 0

\* The i-th quote draws from the k-th grant where they overlap.
Share(quotes, grants, i, k) ==
  Overlap(Through(quotes, i - 1), Through(quotes, i),
          Through(grants, k - 1), Through(grants, k))
=============================================================================
