------------------------ MODULE CreditAllocationProofs ------------------------
(***************************************************************************)
(* The allocation loop computes the overlaps of quotes and grants, for lists *)
(* of any length and any amounts.                                          *)
(***************************************************************************)
EXTENDS CreditAllocation, Sums

\* The spans of a list follow one another from 0.
LEMMA ThroughStep ==
  ASSUME NEW sizes, NEW n \in Nat, \A i \in 1..n : sizes[i] \in Nat
  PROVE  /\ Through(sizes, 0) = 0
         /\ \A i \in 0..n : Through(sizes, i) \in Nat
         /\ \A i \in 1..n : Through(sizes, i) = Through(sizes, i - 1) + sizes[i]
BY PrefixStep DEF Through

LEMMA ThroughGrows ==
  ASSUME NEW sizes, NEW n \in Nat, \A i \in 1..n : sizes[i] \in Nat,
         NEW i \in 0..n, NEW k \in 0..n, i <= k
  PROVE  Through(sizes, i) <= Through(sizes, k)
BY PrefixGrows DEF Through

-----------------------------------------------------------------------------
(* The loop.                                                               *)

\* Where the spans of a list end.
LEMMA SpansOfList ==
  ASSUME NEW list \in Amounts
  PROVE  /\ Len(list) \in Nat /\ DOMAIN list = 1..Len(list) /\ Through(list, 0) = 0
         /\ \A i \in 1..Len(list) : list[i] \in Nat \ {0}
         /\ \A i \in 0..Len(list) : Through(list, i) \in Nat
         /\ \A i \in 1..Len(list) : Through(list, i) = Through(list, i - 1) + list[i]
         /\ \A i, k \in 0..Len(list) : i <= k => Through(list, i) <= Through(list, k)
<1>1. /\ Len(list) \in Nat /\ DOMAIN list = 1..Len(list)
      /\ \A i \in 1..Len(list) : list[i] \in Nat \ {0}
  BY DEF Amounts
<1>2. \A i \in 1..Len(list) : list[i] \in Nat
  BY <1>1
<1>3. /\ Through(list, 0) = 0
      /\ \A i \in 0..Len(list) : Through(list, i) \in Nat
      /\ \A i \in 1..Len(list) : Through(list, i) = Through(list, i - 1) + list[i]
  BY <1>1, <1>2, ThroughStep
<1>4. ASSUME NEW i \in 0..Len(list), NEW k \in 0..Len(list), i <= k
      PROVE  Through(list, i) <= Through(list, k)
  BY <1>1, <1>2, <1>4, ThroughGrows
<1> QED BY <1>1, <1>3, <1>4

\* What a quote from a to b has drawn from a grant from x to y when the lists have
\* been served up to p.
Cut(a, b, x, y, p) == Overlap(a, IF b < p THEN b ELSE p, x, y)

\* Two spans.
Spans(a, b, x, y) == a \in Nat /\ b \in Nat /\ x \in Nat /\ y \in Nat /\ a <= b /\ x <= y

\* Serving more changes nothing where a span has ended or not begun.
Elsewhere(a, b, x, y, p, q) ==
  /\ Spans(a, b, x, y) /\ p \in Nat /\ q \in Nat /\ p <= q
  /\ b <= p \/ y <= p \/ q <= a \/ q <= x

LEMMA CutSame ==
  ASSUME NEW a, NEW b, NEW x, NEW y, NEW p, NEW q, Elsewhere(a, b, x, y, p, q)
  PROVE  Cut(a, b, x, y, q) = Cut(a, b, x, y, p)
BY DEF Elsewhere, Spans, Cut, Overlap

\* The first draw of a quote from a grant.
First(a, b, x, y, p, q) ==
  /\ Spans(a, b, x, y) /\ p \in Nat /\ q \in Nat /\ p <= q /\ q <= b /\ q <= y
  /\ a <= p /\ x <= p /\ (p = a \/ p = x)

LEMMA CutFirst ==
  ASSUME NEW a, NEW b, NEW x, NEW y, NEW p, NEW q, First(a, b, x, y, p, q)
  PROVE  Cut(a, b, x, y, q) = q - p
BY DEF First, Spans, Cut, Overlap

\* Nothing remains to be drawn when the quote is served.
LEMMA CutLast ==
  ASSUME NEW a, NEW b, NEW x, NEW y, NEW p, Spans(a, b, x, y), p \in Nat, b <= p
  PROVE  Cut(a, b, x, y, p) = Overlap(a, b, x, y)
BY DEF Spans, Cut, Overlap

-----------------------------------------------------------------------------
\* How far the lists have been served, as the jobs see it and as the grants do.
Front == Through(quotes, job) - remaining
Cursor == IF grantIndex <= Len(grants) THEN Through(grants, grantIndex) - currentGrantRemaining
                                       ELSE Through(grants, Len(grants))

LoopShape ==
  /\ quotes \in Amounts /\ grants \in Amounts
  /\ Total(quotes) <= Total(grants)
  /\ job \in 0..Len(quotes) /\ remaining \in Nat
  /\ grantIndex \in 1..(Len(grants) + 1) /\ currentGrantRemaining \in Nat
  /\ drawn \in [DOMAIN quotes -> [DOMAIN grants -> Nat]]

\* One of the two spans that meet at the front begins there.
Meeting ==
  /\ IF job = 0 THEN remaining = 0 ELSE remaining <= quotes[job]
  /\ grantIndex <= Len(grants) =>
       /\ currentGrantRemaining \in 1..grants[grantIndex]
       /\ remaining > 0 => remaining = quotes[job] \/ currentGrantRemaining = grants[grantIndex]
  /\ Front = Cursor

\* What has been drawn is what lies before the front.
DrawnToFront ==
  \A i \in DOMAIN quotes, k \in DOMAIN grants :
    drawn[i][k] = Cut(Through(quotes, i - 1), Through(quotes, i),
                      Through(grants, k - 1), Through(grants, k), Front)

LoopInv == LoopShape /\ Meeting /\ DrawnToFront

LEMMA InitLoop == LoopInit => LoopInv
<1> SUFFICES ASSUME LoopInit PROVE LoopInv
  OBVIOUS
<1>1. quotes \in Amounts /\ grants \in Amounts
  BY DEF LoopInit
<1>2. /\ Len(quotes) \in Nat /\ Len(grants) \in Nat /\ DOMAIN grants = 1..Len(grants)
      /\ Through(quotes, 0) = 0 /\ Through(grants, 0) = 0
  BY <1>1, SpansOfList
<1>3. grants # <<>> => /\ Len(grants) >= 1 /\ FirstOf(grants) = grants[1]
                       /\ grants[1] \in Nat \ {0} /\ Through(grants, 1) = grants[1]
  <2> SUFFICES ASSUME grants # <<>>
               PROVE  /\ Len(grants) >= 1 /\ FirstOf(grants) = grants[1]
                      /\ grants[1] \in Nat \ {0} /\ Through(grants, 1) = grants[1]
    OBVIOUS
  <2>1. 1 \in 1..Len(grants) /\ FirstOf(grants) = grants[1]
    BY <1>1 DEF Amounts, FirstOf
  <2>2. grants[1] \in Nat \ {0} /\ Through(grants, 1) = Through(grants, 1 - 1) + grants[1]
    BY <1>1, <2>1, SpansOfList
  <2> QED BY <1>2, <2>1, <2>2
<1>4. grants = <<>> => Len(grants) = 0 /\ FirstOf(grants) = 0
  BY DEF FirstOf
<1>5. LoopShape
  <2>1. FirstOf(grants) \in Nat
    BY <1>3, <1>4
  <2> QED BY <1>1, <1>2, <2>1 DEF LoopInit, LoopShape
<1>6. Front = 0 /\ Meeting
  <2>1. Front = 0
    BY <1>2 DEF LoopInit, Front
  <2>2. Cursor = 0
    BY <1>2, <1>3, <1>4 DEF LoopInit, Cursor
  <2>3. 1 <= Len(grants) => FirstOf(grants) \in 1..grants[1]
    BY <1>3, <1>4
  <2> QED BY <2>1, <2>2, <2>3 DEF LoopInit, Meeting
<1>7. DrawnToFront
  <2> SUFFICES ASSUME NEW i \in DOMAIN quotes, NEW k \in DOMAIN grants
               PROVE  drawn[i][k] = Cut(Through(quotes, i - 1), Through(quotes, i),
                                        Through(grants, k - 1), Through(grants, k), 0)
    BY <1>6 DEF DrawnToFront
  <2>1. /\ Through(quotes, i - 1) \in Nat /\ Through(quotes, i) \in Nat
        /\ Through(grants, k - 1) \in Nat /\ Through(grants, k) \in Nat
    BY <1>1, SpansOfList
  <2>2. drawn[i][k] = 0
    BY DEF LoopInit
  <2> QED BY <2>1, <2>2 DEF Cut, Overlap
<1> QED BY <1>5, <1>6, <1>7 DEF LoopInv

LEMMA StepJob == LoopInv /\ NextJob => LoopInv'
<1> SUFFICES ASSUME LoopInv, NextJob PROVE LoopInv'
  OBVIOUS
<1>1. /\ quotes \in Amounts /\ grants \in Amounts /\ job \in 0..Len(quotes)
      /\ grantIndex \in 1..(Len(grants) + 1)
  BY DEF LoopInv, LoopShape
<1>2. /\ remaining = 0 /\ job < Len(quotes) /\ job' = job + 1 /\ remaining' = quotes[job + 1]
      /\ quotes' = quotes /\ grants' = grants /\ grantIndex' = grantIndex
      /\ currentGrantRemaining' = currentGrantRemaining /\ drawn' = drawn
  BY DEF NextJob
<1>3. Len(quotes) \in Nat /\ job + 1 \in 1..Len(quotes)
  BY <1>1, <1>2, SpansOfList
<1>4. /\ quotes[job + 1] \in Nat \ {0} /\ Through(quotes, job) \in Nat
      /\ Through(quotes, job + 1) = Through(quotes, job) + quotes[job + 1]
  <2>1. Through(quotes, job + 1) = Through(quotes, (job + 1) - 1) + quotes[job + 1]
    BY <1>1, <1>3, SpansOfList
  <2> QED BY <1>1, <1>3, <2>1, SpansOfList
<1>5. LoopShape'
  BY <1>1, <1>2, <1>3, <1>4 DEF LoopInv, LoopShape, Total
<1>6. Front' = Front /\ Cursor' = Cursor
  BY <1>2, <1>4 DEF Front, Cursor
<1>7. Meeting'
  BY <1>1, <1>2, <1>3, <1>4, <1>6 DEF LoopInv, Meeting
<1>8. DrawnToFront'
  BY <1>2, <1>6 DEF LoopInv, DrawnToFront
<1> QED BY <1>5, <1>7, <1>8 DEF LoopInv

LEMMA StepDraw == LoopInv /\ Draw => LoopInv'
<1> SUFFICES ASSUME LoopInv, Draw PROVE LoopInv'
  OBVIOUS
<1> DEFINE amount == IF remaining < currentGrantRemaining THEN remaining
                                                          ELSE currentGrantRemaining
           m == Len(quotes)
           n == Len(grants)
<1>1. /\ quotes \in Amounts /\ grants \in Amounts /\ job \in 0..m /\ remaining \in Nat
      /\ grantIndex \in 1..(n + 1) /\ currentGrantRemaining \in Nat
      /\ drawn \in [DOMAIN quotes -> [DOMAIN grants -> Nat]]
  BY DEF LoopInv, LoopShape
<1>2. /\ remaining > 0 /\ grantIndex <= n
      /\ drawn' = [drawn EXCEPT ![job][grantIndex] = amount]
      /\ remaining' = remaining - amount
      /\ Advance(currentGrantRemaining - amount)
      /\ quotes' = quotes /\ grants' = grants /\ job' = job
  BY DEF Draw
<1>21. remaining' = remaining - amount /\ job' = job
  BY <1>2
<1>3. m \in Nat /\ n \in Nat /\ DOMAIN quotes = 1..m /\ DOMAIN grants = 1..n
  BY <1>1, SpansOfList
<1>31. grantIndex \in Nat /\ n \in Nat /\ grantIndex <= n
  BY <1>1, <1>2, <1>3
<1>4. /\ job \in 1..m /\ grantIndex \in 1..n
      /\ remaining <= quotes[job] /\ currentGrantRemaining \in 1..grants[grantIndex]
      /\ remaining = quotes[job] \/ currentGrantRemaining = grants[grantIndex]
      /\ Front = Cursor
  BY <1>1, <1>2, <1>3 DEF LoopInv, Meeting
<1> DEFINE a == Through(quotes, job - 1)
           b == Through(quotes, job)
           x == Through(grants, grantIndex - 1)
           y == Through(grants, grantIndex)
<1>5. /\ a \in Nat /\ b \in Nat /\ x \in Nat /\ y \in Nat
      /\ quotes[job] \in Nat \ {0} /\ grants[grantIndex] \in Nat \ {0}
      /\ b = a + quotes[job] /\ y = x + grants[grantIndex]
  <2>1. job - 1 \in 0..m /\ job \in 0..m /\ grantIndex - 1 \in 0..n /\ grantIndex \in 0..n
    BY <1>3, <1>4
  <2> QED BY <1>1, <1>4, <2>1, SpansOfList
<1>6. Front = b - remaining /\ Cursor = y - currentGrantRemaining
  BY <1>2 DEF Front, Cursor
<1>61. /\ amount \in Nat \ {0} /\ amount <= remaining /\ amount <= currentGrantRemaining
       /\ amount = remaining \/ amount = currentGrantRemaining
  BY <1>1, <1>2, <1>4
<1> HIDE DEF amount, a, b, x, y
<1>62. /\ currentGrantRemaining <= grants[grantIndex] /\ remaining <= quotes[job]
       /\ remaining \in Nat /\ currentGrantRemaining \in Nat
       /\ remaining = quotes[job] \/ currentGrantRemaining = grants[grantIndex]
       /\ b - remaining = y - currentGrantRemaining
  <2>1. b - remaining = y - currentGrantRemaining
    BY <1>4, <1>6
  <2> QED BY <1>1, <1>4, <1>5, <2>1
<1>63. /\ b - remaining \in Nat /\ b - remaining + amount \in Nat
       /\ a <= b - remaining /\ x <= b - remaining
       /\ a = b - remaining \/ x = b - remaining
       /\ b - remaining + amount <= b /\ b - remaining + amount <= y
  BY <1>5, <1>61, <1>62
<1>7. PICK p \in Nat, q \in Nat :
        /\ p = Front /\ q = p + amount
        /\ a <= p /\ x <= p /\ (p = a \/ p = x)
        /\ p <= q /\ q <= b /\ q <= y
        /\ amount \in Nat /\ amount > 0
        /\ q = b - remaining + amount /\ q = y - currentGrantRemaining + amount
  BY <1>5, <1>6, <1>61, <1>62, <1>63
<1>8. Front' = q
  <2>1. Front' = b - remaining'
    BY <1>2 DEF Front, b
  <2> QED BY <1>21, <1>5, <1>61, <1>62, <1>7, <2>1
<1>9. LoopShape' /\ Meeting'
  <2>1. remaining' \in Nat /\ remaining' <= quotes[job]
    BY <1>21, <1>5, <1>61, <1>62
  <2>2. drawn' \in [DOMAIN quotes -> [DOMAIN grants -> Nat]]
    BY <1>1, <1>2, <1>7
  <2>3. CASE currentGrantRemaining - amount # 0
    <3>1. currentGrantRemaining' = currentGrantRemaining - amount /\ grantIndex' = grantIndex
      BY <1>2, <2>3 DEF Advance
    <3>2. currentGrantRemaining' \in 1..grants[grantIndex] /\ remaining' = 0
      BY <1>1, <1>2, <1>4, <1>5, <1>7, <2>3, <3>1 DEF amount
    <3>3. Cursor' = q
      <4>1. Cursor' = y - currentGrantRemaining'
        BY <1>2, <3>1 DEF Cursor, y
      <4> QED BY <1>5, <1>61, <1>62, <1>7, <3>1, <4>1
    <3> QED BY <1>1, <1>2, <1>3, <1>4, <1>8, <2>1, <2>2, <3>1, <3>2, <3>3
            DEF LoopInv, LoopShape, Meeting, Total
  <2>4. CASE currentGrantRemaining - amount = 0
    <3>1. /\ grantIndex' = grantIndex + 1
          /\ currentGrantRemaining' = IF grantIndex < n THEN grants[grantIndex + 1] ELSE 0
      BY <1>2, <2>4 DEF Advance
    <3>2. q = y
      BY <1>5, <1>61, <1>62, <1>7, <2>4
    <3>3. CASE grantIndex < n
      <4>1. grantIndex + 1 \in 1..n
        BY <1>3, <1>4, <3>3
      <4>2. /\ grants[grantIndex + 1] \in Nat \ {0}
            /\ Through(grants, grantIndex + 1) = Through(grants, (grantIndex + 1) - 1) + grants[grantIndex + 1]
        BY <1>1, <4>1, SpansOfList
      <4>3. Cursor' = q
        BY <1>2, <1>3, <1>4, <1>5, <3>1, <3>2, <3>3, <4>1, <4>2 DEF Cursor, y
      <4> QED BY <1>1, <1>2, <1>3, <1>4, <1>8, <2>1, <2>2, <3>1, <3>3, <4>1, <4>2, <4>3
              DEF LoopInv, LoopShape, Meeting, Total
    <3>4. CASE grantIndex = n
      <4>1. Cursor' = q
        BY <1>2, <1>3, <1>4, <3>1, <3>2, <3>4 DEF Cursor, y
      <4> QED BY <1>1, <1>2, <1>3, <1>4, <1>8, <2>1, <2>2, <3>1, <3>4, <4>1
              DEF LoopInv, LoopShape, Meeting, Total
    <3>5. grantIndex < n \/ grantIndex = n
      BY <1>31
    <3> QED BY <3>3, <3>4, <3>5
  <2>5. currentGrantRemaining - amount \in Int
    BY <1>61, <1>62
  <2> QED BY <2>3, <2>4, <2>5
<1>10. DrawnToFront'
  <2> SUFFICES ASSUME NEW i \in 1..m, NEW k \in 1..n
               PROVE  drawn'[i][k] = Cut(Through(quotes, i - 1), Through(quotes, i),
                                         Through(grants, k - 1), Through(grants, k), q)
    BY <1>2, <1>3, <1>8 DEF DrawnToFront
  <2>1. /\ Through(quotes, i - 1) \in Nat /\ Through(quotes, i) \in Nat
        /\ Through(quotes, i - 1) <= Through(quotes, i)
        /\ i < job => Through(quotes, i) <= a
        /\ i > job => b <= Through(quotes, i - 1)
    <3>1. i - 1 \in 0..m /\ i \in 0..m /\ job - 1 \in 0..m /\ job \in 0..m
      BY <1>3, <1>4
    <3>2. \A u, v \in 0..m : u <= v => Through(quotes, u) <= Through(quotes, v)
      BY <1>1, SpansOfList
    <3>3. i - 1 <= i /\ (i < job => i <= job - 1) /\ (i > job => job <= i - 1)
      BY <1>3, <1>4
    <3>4. /\ Through(quotes, i - 1) \in Nat /\ Through(quotes, i) \in Nat
          /\ Through(quotes, i - 1) <= Through(quotes, i)
      BY <1>1, <3>1, <3>2, <3>3, SpansOfList
    <3>5. i < job => Through(quotes, i) <= Through(quotes, job - 1)
      BY <3>1, <3>2, <3>3
    <3>6. i > job => Through(quotes, job) <= Through(quotes, i - 1)
      BY <3>1, <3>2, <3>3
    <3> QED BY <3>4, <3>5, <3>6 DEF a, b
  <2>2. /\ Through(grants, k - 1) \in Nat /\ Through(grants, k) \in Nat
        /\ Through(grants, k - 1) <= Through(grants, k)
        /\ k < grantIndex => Through(grants, k) <= x
        /\ k > grantIndex => y <= Through(grants, k - 1)
    <3>1. k - 1 \in 0..n /\ k \in 0..n /\ grantIndex - 1 \in 0..n /\ grantIndex \in 0..n
      BY <1>3, <1>4
    <3>2. \A u, v \in 0..n : u <= v => Through(grants, u) <= Through(grants, v)
      BY <1>1, SpansOfList
    <3>3. k - 1 <= k /\ (k < grantIndex => k <= grantIndex - 1)
          /\ (k > grantIndex => grantIndex <= k - 1)
      BY <1>3, <1>4
    <3>4. /\ Through(grants, k - 1) \in Nat /\ Through(grants, k) \in Nat
          /\ Through(grants, k - 1) <= Through(grants, k)
      BY <1>1, <3>1, <3>2, <3>3, SpansOfList
    <3>5. k < grantIndex => Through(grants, k) <= Through(grants, grantIndex - 1)
      BY <3>1, <3>2, <3>3
    <3>6. k > grantIndex => Through(grants, grantIndex) <= Through(grants, k - 1)
      BY <3>1, <3>2, <3>3
    <3> QED BY <3>4, <3>5, <3>6 DEF x, y
  <2>3. drawn[i][k] = Cut(Through(quotes, i - 1), Through(quotes, i),
                          Through(grants, k - 1), Through(grants, k), p)
    BY <1>3, <1>7 DEF LoopInv, DrawnToFront
  <2>4. CASE i = job /\ k = grantIndex
    <3>1. drawn'[i][k] = amount
      BY <1>1, <1>2, <1>3, <1>4, <2>4
    <3>2. Cut(a, b, x, y, q) = q - p
      <4>1. First(a, b, x, y, p, q)
        BY <1>5, <1>7 DEF First, Spans
      <4> QED BY <4>1, CutFirst
    <3>3. q - p = amount
      BY <1>7
    <3> QED BY <2>4, <3>1, <3>2, <3>3 DEF a, b, x, y
  <2>5. CASE ~(i = job /\ k = grantIndex)
    <3>1. drawn'[i][k] = drawn[i][k]
      BY <1>1, <1>2, <1>3, <1>4, <2>5
    <3>2. \/ Through(quotes, i) <= p \/ Through(grants, k) <= p
          \/ q <= Through(quotes, i - 1) \/ q <= Through(grants, k - 1)
      <4>1. i < job \/ i > job \/ k < grantIndex \/ k > grantIndex
        BY <1>3, <1>4, <2>5
      <4>2. CASE i < job
        BY <1>5, <1>7, <2>1, <4>2
      <4>3. CASE i > job
        BY <1>5, <1>7, <2>1, <4>3
      <4>4. CASE k < grantIndex
        BY <1>5, <1>7, <2>2, <4>4
      <4>5. CASE k > grantIndex
        BY <1>5, <1>7, <2>2, <4>5
      <4> QED BY <4>1, <4>2, <4>3, <4>4, <4>5
    <3>3. Cut(Through(quotes, i - 1), Through(quotes, i),
              Through(grants, k - 1), Through(grants, k), q)
            = Cut(Through(quotes, i - 1), Through(quotes, i),
                  Through(grants, k - 1), Through(grants, k), p)
      <4>1. Elsewhere(Through(quotes, i - 1), Through(quotes, i),
                      Through(grants, k - 1), Through(grants, k), p, q)
        BY <1>7, <2>1, <2>2, <3>2 DEF Elsewhere, Spans
      <4> QED BY <4>1, CutSame
    <3> QED BY <2>3, <3>1, <3>3
  <2> QED BY <2>4, <2>5
<1> QED BY <1>9, <1>10 DEF LoopInv

\* Wherever the loop of reserveRunCredits stops it has computed the overlaps of quotes
\* and grants, for lists of any length and any amounts; it never runs out of grants,
\* although only the totals were compared beforehand.
THEOREM AllocationCorrect == LoopSpec => []LoopComputesShares
<1>1. LoopInv /\ [LoopNext]_loopVars => LoopInv'
  <2>1. LoopInv /\ UNCHANGED loopVars => LoopInv'
    BY DEF loopVars, LoopInv, LoopShape, Meeting, DrawnToFront, Front, Cursor, Total
  <2> QED BY <2>1, StepJob, StepDraw DEF LoopNext
<1>2. LoopInv => LoopComputesShares
  <2> SUFFICES ASSUME LoopInv,
                      \/ remaining = 0 /\ job = Len(quotes)
                      \/ remaining > 0 /\ grantIndex > Len(grants),
                      NEW i \in DOMAIN quotes, NEW k \in DOMAIN grants
               PROVE  drawn[i][k] = Share(quotes, grants, i, k)
    BY DEF LoopComputesShares
  <2> DEFINE m == Len(quotes)
             n == Len(grants)
  <2>1. /\ quotes \in Amounts /\ grants \in Amounts /\ job \in 0..m /\ remaining \in Nat
        /\ Through(quotes, m) <= Through(grants, n) /\ Front = Cursor
        /\ grantIndex \in 1..(n + 1)
    BY DEF LoopInv, LoopShape, Meeting, Total
  <2>2. /\ m \in Nat /\ n \in Nat /\ i \in 1..m /\ k \in 1..n
        /\ Through(quotes, m) \in Nat /\ Through(grants, n) \in Nat
        /\ Through(quotes, job) \in Nat /\ Through(quotes, job) <= Through(quotes, m)
    <3>1. m \in Nat /\ n \in Nat /\ i \in 1..m /\ k \in 1..n
      BY <2>1, SpansOfList
    <3>2. m \in 0..m /\ n \in 0..n /\ job <= m
      BY <2>1, <3>1
    <3> QED BY <2>1, <3>1, <3>2, SpansOfList
  <2>3. remaining = 0 /\ job = m
    BY <2>1, <2>2 DEF Front, Cursor
  <2>4. Front = Through(quotes, m)
    BY <2>2, <2>3 DEF Front
  <2>5. /\ Through(quotes, i - 1) \in Nat /\ Through(quotes, i) \in Nat
        /\ Through(grants, k - 1) \in Nat /\ Through(grants, k) \in Nat
        /\ Through(quotes, i) <= Through(quotes, m)
        /\ Through(quotes, i - 1) <= Through(quotes, i)
        /\ Through(grants, k - 1) <= Through(grants, k)
    <3>1. /\ i - 1 \in 0..m /\ i \in 0..m /\ m \in 0..m /\ k - 1 \in 0..n /\ k \in 0..n
          /\ i - 1 <= i /\ i <= m /\ k - 1 <= k
      BY <2>2
    <3>2. \A u, v \in 0..m : u <= v => Through(quotes, u) <= Through(quotes, v)
      BY <2>1, SpansOfList
    <3>3. \A u, v \in 0..n : u <= v => Through(grants, u) <= Through(grants, v)
      BY <2>1, SpansOfList
    <3> QED BY <2>1, <3>1, <3>2, <3>3, SpansOfList
  <2>6. drawn[i][k] = Cut(Through(quotes, i - 1), Through(quotes, i),
                          Through(grants, k - 1), Through(grants, k), Through(quotes, m))
    BY <2>4 DEF LoopInv, DrawnToFront
  <2>7. Cut(Through(quotes, i - 1), Through(quotes, i),
            Through(grants, k - 1), Through(grants, k), Through(quotes, m))
          = Overlap(Through(quotes, i - 1), Through(quotes, i),
                    Through(grants, k - 1), Through(grants, k))
    <3>1. Spans(Through(quotes, i - 1), Through(quotes, i),
                Through(grants, k - 1), Through(grants, k))
      BY <2>5 DEF Spans
    <3> QED BY <2>2, <2>5, <3>1, CutLast
  <2> QED BY <2>6, <2>7 DEF Share
<1> QED BY <1>1, <1>2, InitLoop, PTL DEF LoopSpec
=============================================================================
