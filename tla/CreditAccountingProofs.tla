------------------------ MODULE CreditAccountingProofs ------------------------
(***************************************************************************)
(* Proofs about CreditAccounting for any grants, plans and settlers: the    *)
(* rows of the tables always add up, the book is one purse, and balance,    *)
(* grants, ledger, reservations and items agree after every transaction.    *)
(*                                                                         *)
(* The first two rest on BookInv alone, which says nothing of sums over     *)
(* rows.  Books adds those: what each job drew is its quote, what a grant   *)
(* holds is what open items drew from it, and no event is in the ledger     *)
(* before it has happened.                                                 *)
(*                                                                         *)
(* The second half is about StripeReversals, the same book with payments,   *)
(* refunds and disputes over it.                                           *)
(***************************************************************************)
EXTENDS StripeReversals, Sums

GrantRow == [available : Int, reserved : Int, captured : Int, reversed : Int]
ReservationRow == [status : {"none", "reserved", "partial"} \cup Outcome,
                   reserved : Int, captured : Int, released : Int, cost : Int]

\* The types that do not depend on a sum.
RowsTyped ==
  /\ balance = [available |-> balance.available, reserved |-> balance.reserved]
  /\ issued \in Seq(Grants)
  /\ grant \in [Grants -> GrantRow]
  /\ reservation \in [Runs -> ReservationRow]
  /\ item \in [Jobs -> {"none", "reserved"} \cup Outcome]
  /\ draw \in [Jobs -> [Grants -> Nat]]
  /\ settler \in [Settlers -> [job : Jobs, outcome : Outcome] \cup {Idle}]

\* What a grant holds, all together; a grant that holds nothing.
Whole(row) == row.available + row.reserved + row.captured + row.reversed
Untouched(row) ==
  row.available = 0 /\ row.reserved = 0 /\ row.captured = 0 /\ row.reversed = 0

\* A grant that was not issued is untouched, and nobody draws from it.
UnissuedUntouched ==
  \A g \in Grants \ Issued : /\ Untouched(grant[g])
                             /\ \A j \in Jobs : draw[j][g] = 0

\* Only the jobs of an admitted run have a reservation item.
ItemsAdmitted ==
  \A j \in Jobs : item[j] # "none" =>
    \E r \in Runs : j \in JobsOf[r] /\ reservation[r].status # "none"

BookInv == RowsTyped /\ UnissuedUntouched /\ ItemsAdmitted /\ RowsAddUp

-----------------------------------------------------------------------------
(* Credits laid end to end.                                                *)

\* The spans of a list follow one another from 0.
LEMMA ThroughStep ==
  ASSUME NEW sizes, NEW n \in Nat, \A i \in 1..n : sizes[i] \in Nat
  PROVE  /\ Through(sizes, 0) = 0
         /\ \A i \in 0..n : Through(sizes, i) \in Nat
         /\ \A i \in 1..n : Through(sizes, i) = Through(sizes, i - 1) + sizes[i]
BY PrefixStep DEF Through

LEMMA ThroughGrows ==
  ASSUME NEW sizes, NEW n \in Nat, \A i \in 1..n : sizes[i] \in Nat,
         NEW i \in 0..n, NEW k \in 0..n, i <= k
  PROVE  Through(sizes, i) <= Through(sizes, k)
BY PrefixGrows DEF Through

LEMMA OverlapLaws ==
  ASSUME NEW a \in Nat, NEW b \in Nat, a <= b, NEW x \in Nat, NEW y \in Nat, x <= y
  PROVE  /\ Overlap(a, b, x, y) \in Nat
         /\ Overlap(a, b, x, y) = Overlap(x, y, a, b)
         /\ Overlap(a, b, x, y) <= y - x
         /\ Overlap(a, b, x, y) <= b - a
         /\ Overlap(a, b, 0, x) + Overlap(a, b, x, y) = Overlap(a, b, 0, y)
         /\ Overlap(a, b, 0, 0) = 0
         /\ b <= y => Overlap(a, b, 0, y) = b - a
BY DEF Overlap

\* The members of S with a smaller key than x.
Below(S, key, x) == {y \in S : key[y] < key[x]}

\* An interval is shared out among the spans of a set that is laid end to end in
\* the order of its keys.
LEMMA OverlapAhead ==
  ASSUME NEW S, IsFiniteSet(S), NEW size, \A x \in S : size[x] \in Nat,
         NEW key, \A x \in S : key[x] \in Int, \A x, y \in S : key[x] = key[y] => x = y,
         NEW start,
         \A x \in S : start[x] = SumFunctionOnSet(size, Below(S, key, x)),
         NEW a \in Nat, NEW b \in Nat, a <= b,
         NEW f, \A x \in S : f[x] = Overlap(a, b, start[x], start[x] + size[x])
  PROVE  SumFunctionOnSet(f, S) = Overlap(a, b, 0, SumFunctionOnSet(size, S))
<1> DEFINE Low(U) == \A x \in U, y \in S : key[y] < key[x] => y \in U
           Good(U) == SumFunctionOnSet(f, U) = Overlap(a, b, 0, SumFunctionOnSet(size, U))
           B == {U \in SUBSET S : Low(U) /\ ~Good(U)}
<1>1. SUFFICES ASSUME B # {} PROVE FALSE
  <2>1. S \in SUBSET S /\ Low(S)
    OBVIOUS
  <2> QED BY <2>1
<1>2. PICK U \in B : \A V \in B : V \subseteq U => V = U
  <2>1. B \subseteq SUBSET S
    OBVIOUS
  <2> HIDE DEF B
  <2> QED BY <1>1, <2>1, SmallestSubset
<1>3. U \subseteq S /\ Low(U) /\ ~Good(U)
  OBVIOUS
<1>4. ASSUME NEW V \in SUBSET U, V # U, Low(V) PROVE Good(V)
  BY <1>2, <1>3, <1>4
<1> HIDE DEF B
<1>5. ASSUME NEW V \in SUBSET S
      PROVE  IsFiniteSet(V) /\ Ints(size, V) /\ SumFunctionOnSet(size, V) \in Nat
  <2>1. IsFiniteSet(V) /\ \A x \in V : size[x] \in Nat
    BY FS_Subset
  <2> QED BY <2>1, SumNat DEF Ints
<1>6. ASSUME NEW x \in S PROVE start[x] \in Nat /\ f[x] \in Nat
  <2>1. Below(S, key, x) \in SUBSET S
    BY DEF Below
  <2>11. start[x] \in Nat /\ size[x] \in Nat
    BY <1>5, <2>1
  <2>2. PICK s \in Nat, z \in Nat, y \in Nat :
          s = start[x] /\ z = size[x] /\ y = s + z /\ s <= y
    BY <2>11
  <2>3. Overlap(a, b, s, y) \in Nat
    BY <2>2, OverlapLaws
  <2> QED BY <2>1, <2>2, <2>3
<1>7. U # {}
  <2>1. ASSUME U = {} PROVE FALSE
    <3>1. SumFunctionOnSet(f, U) = 0 /\ SumFunctionOnSet(size, U) = 0
      BY <2>1, SumEmpty
    <3>2. Overlap(a, b, 0, 0) = 0
      BY OverlapLaws
    <3> QED BY <1>3, <3>1, <3>2
  <2> QED BY <2>1
<1>8. PICK m \in U : \A x \in U : key[x] <= key[m]
  <2>1. \A x \in U : key[x] \in Int
    BY <1>3
  <2> QED BY <1>3, <1>5, <1>7, <2>1, Largest
<1> DEFINE W == U \ {m}
<1>9. W = Below(S, key, m)
  <2> USE DEF Below
  <2>1. ASSUME NEW y \in W PROVE y \in S /\ key[y] < key[m]
    <3>1. y \in S /\ m \in S /\ y # m /\ key[y] <= key[m]
      BY <1>3, <1>8
    <3>2. key[y] # key[m] /\ key[y] \in Int /\ key[m] \in Int
      BY <3>1
    <3> QED BY <3>1, <3>2
  <2>2. ASSUME NEW y \in S, key[y] < key[m] PROVE y \in W
    <3>1. y \in U
      BY <1>3, <1>8, <2>2
    <3>2. y # m
      BY <2>2, <1>3, <1>8
    <3> QED BY <3>1, <3>2
  <2> QED BY <2>1, <2>2
<1>10. W \in SUBSET U /\ W # U /\ Low(W)
  <2>1. ASSUME NEW x \in W, NEW y \in S, key[y] < key[x] PROVE y \in W
    <3>1. key[x] < key[m] /\ key[x] \in Int /\ key[y] \in Int /\ key[m] \in Int
      BY <1>3, <1>8, <1>9 DEF Below
    <3>2. key[y] < key[m]
      BY <2>1, <3>1
    <3> QED BY <1>9, <3>2 DEF Below
  <2> QED BY <1>8, <2>1
<1>11. Good(W)
  <2> HIDE DEF W, Good
  <2> QED BY <1>4, <1>10
<1>12. /\ SumFunctionOnSet(f, U) = f[m] + SumFunctionOnSet(f, W)
       /\ SumFunctionOnSet(size, U) = size[m] + SumFunctionOnSet(size, W)
  <2>1. IsFiniteSet(U) /\ Ints(size, U) /\ Ints(f, U)
    BY <1>3, <1>5, <1>6 DEF Ints
  <2> QED BY <1>8, <2>1, SumRemove
<1>13. start[m] = SumFunctionOnSet(size, W) /\ m \in S
  BY <1>3, <1>8, <1>9
<1>14. /\ f[m] = Overlap(a, b, start[m], start[m] + size[m])
       /\ size[m] \in Nat /\ start[m] \in Nat /\ f[m] \in Nat
  BY <1>6, <1>13
<1>15. /\ Overlap(a, b, 0, start[m]) + f[m] = Overlap(a, b, 0, start[m] + size[m])
       /\ Overlap(a, b, 0, start[m]) \in Nat
  <2>1. PICK s \in Nat, z \in Nat, y \in Nat :
          s = start[m] /\ z = size[m] /\ y = s + z /\ 0 <= s /\ s <= y
    BY <1>14
  <2>2. Overlap(a, b, 0, s) + Overlap(a, b, s, y) = Overlap(a, b, 0, y)
    <3> HIDE <2>1
    <3>1. 0 \in Nat /\ 0 <= s /\ s <= y
      BY <2>1
    <3> QED BY <3>1, OverlapLaws
  <2>3. 0 \in Nat /\ Overlap(a, b, 0, s) \in Nat
    BY <2>1, OverlapLaws
  <2> QED BY <1>14, <2>1, <2>2, <2>3
<1> HIDE DEF W
<1>17. SumFunctionOnSet(f, W) = Overlap(a, b, 0, start[m])
  BY <1>11, <1>13
<1>18. SumFunctionOnSet(size, U) = start[m] + size[m]
  BY <1>12, <1>13, <1>14
<1>19. SumFunctionOnSet(f, U) = Overlap(a, b, 0, start[m]) + f[m]
  BY <1>12, <1>14, <1>15, <1>17
<1> QED BY <1>3, <1>15, <1>18, <1>19

\* The same of a list.
LEMMA OverlapSum ==
  ASSUME NEW sizes, NEW n \in Nat, \A i \in 1..n : sizes[i] \in Nat,
         NEW a \in Nat, NEW b \in Nat, a <= b,
         NEW f, \A k \in 1..n : f[k] = Overlap(a, b, Through(sizes, k - 1), Through(sizes, k))
  PROVE  SumFunctionOnSet(f, 1..n) = Overlap(a, b, 0, Through(sizes, n))
<1> DEFINE S == 1..n
           key == [k \in S |-> k]
           start == [k \in S |-> Through(sizes, k - 1)]
<1>1. IsFiniteSet(S) /\ \A x \in S : sizes[x] \in Nat
  BY FS_Interval
<1>2. /\ \A x \in S : key[x] \in Int
      /\ \A x, y \in S : key[x] = key[y] => x = y
  OBVIOUS
<1>3. ASSUME NEW x \in S
      PROVE  start[x] = SumFunctionOnSet(sizes, Below(S, key, x))
  <2>1. Below(S, key, x) = 1..(x - 1)
    BY DEF Below
  <2> QED BY <2>1 DEF Through
<1>4. ASSUME NEW x \in S PROVE f[x] = Overlap(a, b, start[x], start[x] + sizes[x])
  BY ThroughStep
<1> HIDE DEF S, key, start
<1>5. SumFunctionOnSet(f, S) = Overlap(a, b, 0, SumFunctionOnSet(sizes, S))
  BY <1>1, <1>2, <1>3, <1>4, OverlapAhead
<1> QED BY <1>5 DEF Through, S

-----------------------------------------------------------------------------
(* The jobs of a run.                                                      *)

\* f gives each number of a list the part of the interval from a to b it covers.
Pieces(f, sizes, a, b, n) ==
  /\ n \in Nat /\ \A i \in 1..n : sizes[i] \in Nat
  /\ a \in Nat /\ b \in Nat /\ a <= b
  /\ \A k \in 1..n : f[k] = Overlap(a, b, Through(sizes, k - 1), Through(sizes, k))

LEMMA PiecesSum ==
  ASSUME NEW f, NEW sizes, NEW a, NEW b, NEW n, Pieces(f, sizes, a, b, n)
  PROVE  SumFunctionOnSet(f, 1..n) = Overlap(a, b, 0, Through(sizes, n))
BY OverlapSum DEF Pieces

\* In an injective sequence every member has its one place.
LEMMA PositionIn ==
  ASSUME NEW S, NEW seq \in Seq(S), IsInjective(seq)
  PROVE  /\ DOMAIN seq = 1..Len(seq) /\ Len(seq) \in Nat
         /\ IsFiniteSet(Range(seq)) /\ Range(seq) \subseteq S
         /\ \A x \in Range(seq) : /\ Position(seq, x) \in 1..Len(seq)
                                 /\ seq[Position(seq, x)] = x
         /\ \A i \in 1..Len(seq) : seq[i] \in Range(seq) /\ Position(seq, seq[i]) = i
<1>1. DOMAIN seq = 1..Len(seq) /\ Len(seq) \in Nat /\ \A i \in 1..Len(seq) : seq[i] \in S
  OBVIOUS
<1>2. Range(seq) = {seq[i] : i \in 1..Len(seq)}
  BY <1>1 DEF Range
<1>3. IsFiniteSet(Range(seq))
  <2>1. IsFiniteSet(1..Len(seq))
    BY <1>1, FS_Interval
  <2> QED BY <1>2, <2>1, FiniteImage
<1>4. ASSUME NEW x \in Range(seq)
      PROVE  Position(seq, x) \in 1..Len(seq) /\ seq[Position(seq, x)] = x
  <2>1. \E i \in DOMAIN seq : seq[i] = x
    BY DEF Range
  <2> QED BY <1>1, <2>1 DEF Position
<1>5. ASSUME NEW i \in 1..Len(seq)
      PROVE  seq[i] \in Range(seq) /\ Position(seq, seq[i]) = i
  <2>1. seq[i] \in Range(seq)
    BY <1>2
  <2>2. Position(seq, seq[i]) \in 1..Len(seq) /\ seq[Position(seq, seq[i])] = seq[i]
    BY <1>4, <2>1
  <2> QED BY <1>1, <2>1, <2>2 DEF IsInjective
<1> QED BY <1>1, <1>2, <1>3, <1>4, <1>5

\* The jobs of a run are finitely many, and its quote is a number of credits.
LEMMA PlanFacts ==
  ASSUME NEW r \in Runs
  PROVE  /\ JobsOf[r] \subseteq Jobs /\ IsFiniteSet(JobsOf[r])
         /\ JobsOf[r] = Range(Plan[r]) /\ Plan[r] \in Seq(Jobs) /\ IsInjective(Plan[r])
         /\ \A j \in JobsOf[r] : Quote[j] \in Nat
         /\ RunQuote[r] = SumFunctionOnSet(Quote, JobsOf[r])
         /\ RunQuote[r] \in Nat
<1>1. JobsOf[r] = Range(Plan[r]) /\ Plan[r] \in Seq(Jobs) /\ IsInjective(Plan[r])
  BY BookAssumption DEF JobsOf
<1>2. JobsOf[r] \subseteq Jobs /\ IsFiniteSet(JobsOf[r])
  BY <1>1, PositionIn
<1>3. \A j \in JobsOf[r] : Quote[j] \in Nat
  BY <1>2, BookAssumption
<1>4. RunQuote[r] = SumFunctionOnSet(Quote, JobsOf[r])
  BY DEF RunQuote
<1>5. RunQuote[r] \in Nat
  BY <1>2, <1>3, <1>4, SumNat
<1> QED BY <1>1, <1>2, <1>3, <1>4, <1>5

\* What a job draws is a number of credits, and nothing from a grant that was not
\* issued.
LEMMA AllocationType ==
  ASSUME RowsTyped, NEW r \in Runs
  PROVE  /\ Allocation(r) \in [JobsOf[r] -> [Grants -> Nat]]
         /\ \A g \in Grants \ Issued, j \in JobsOf[r] : Allocation(r)[j][g] = 0
         /\ \A g \in Grants :
              SumFunction([j \in JobsOf[r] |-> Allocation(r)[j][g]]) \in Nat
<1> DEFINE quotes == [i \in DOMAIN Plan[r] |-> Quote[Plan[r][i]]]
           end(j) == Through(quotes, Position(Plan[r], j))
           new == Allocation(r)
<1>1. \A a \in Int, b \in Int, c \in Int, d \in Int : Overlap(a, b, c, d) \in Nat
  BY DEF Overlap
<1>2. ASSUME NEW j \in JobsOf[r] PROVE end(j) \in Int /\ Quote[j] \in Int
  <2>1. Position(Plan[r], j) \in 1..Len(Plan[r]) /\ DOMAIN Plan[r] = 1..Len(Plan[r])
        /\ Len(Plan[r]) \in Nat
        /\ \A i \in 1..Len(Plan[r]) : Plan[r][i] \in JobsOf[r]
    BY PlanFacts, PositionIn
  <2>2. \A i \in 1..Len(Plan[r]) : quotes[i] \in Nat
    BY <2>1, PlanFacts
  <2>3. Position(Plan[r], j) \in 0..Len(Plan[r])
    BY <2>1
  <2> HIDE DEF quotes
  <2>4. end(j) \in Nat
    BY <2>1, <2>2, <2>3, ThroughStep
  <2> QED BY <2>4, PlanFacts
<1>3. ASSUME NEW g \in Issued PROVE Ahead(g) \in Int /\ grant[g].available \in Int
  <2>1. Issued \subseteq Grants /\ \A h \in Grants : grant[h].available \in Int
    <3>1. Issued \subseteq Grants
      BY DEF RowsTyped, Issued, Range
    <3>2. \A h \in Grants : grant[h].available \in Int
      BY DEF RowsTyped, GrantRow
    <3> QED BY <3>1, <3>2
  <2>2. IsFiniteSet({h \in Issued : DrawOrder[h] < DrawOrder[g]})
    BY <2>1, BookAssumption, FS_Subset
  <2>3. \A h \in Issued : [x \in Issued |-> grant[x].available][h] \in Int
    BY <2>1
  <2>4. Ints([x \in Issued |-> grant[x].available],
             {h \in Issued : DrawOrder[h] < DrawOrder[g]})
    BY <2>3 DEF Ints
  <2>5. Ahead(g) \in Int
    BY <2>2, <2>4, SumInt DEF Ahead
  <2> QED BY <2>1, <2>5
<1>4. new = [j \in JobsOf[r] |-> [g \in Grants |->
        IF g \in Issued
        THEN Overlap(end(j) - Quote[j], end(j), Ahead(g), Ahead(g) + grant[g].available)
        ELSE 0]]
  BY DEF Allocation
<1> HIDE DEF end, new
<1>5. ASSUME NEW j \in JobsOf[r], NEW g \in Grants
      PROVE  new[j][g] \in Nat /\ (g \notin Issued => new[j][g] = 0)
  <2>1. CASE g \notin Issued
    BY <1>4, <2>1
  <2>2. CASE g \in Issued
    <3>1. /\ end(j) \in Int /\ end(j) - Quote[j] \in Int /\ Ahead(g) \in Int
          /\ Ahead(g) + grant[g].available \in Int
      BY <1>2, <1>3, <2>2
    <3>2. new[j][g] = Overlap(end(j) - Quote[j], end(j), Ahead(g),
                              Ahead(g) + grant[g].available)
      BY <1>4, <2>2
    <3> QED BY <1>1, <2>2, <3>1, <3>2
  <2> QED BY <2>1, <2>2
<1>6. new \in [JobsOf[r] -> [Grants -> Nat]]
  <2>1. new = [j \in JobsOf[r] |-> [g \in Grants |-> new[j][g]]]
    BY <1>4
  <2> QED BY <1>5, <2>1
<1>7. ASSUME NEW g \in Grants PROVE SumFunction([j \in JobsOf[r] |-> new[j][g]]) \in Nat
  <2>1. \A j \in JobsOf[r] : [x \in JobsOf[r] |-> new[x][g]][j] \in Nat
    BY <1>5
  <2>2. SumFunctionOnSet([j \in JobsOf[r] |-> new[j][g]], JobsOf[r]) \in Nat
    BY <2>1, PlanFacts, SumNat
  <2> QED BY <2>2 DEF SumFunction
<1> QED BY <1>5, <1>6, <1>7 DEF new

\* No two grants are drawn from at the same place in the order.
LEMMA DrawOrderStrict ==
  ASSUME issued \in Seq(Grants), IsInjective(issued)
  PROVE  /\ Issued \subseteq Grants /\ IsFiniteSet(Issued)
         /\ \A g \in Issued : DrawOrder[g] \in Int
         /\ \A g, h \in Issued : DrawOrder[g] = DrawOrder[h] => g = h
<1>1. /\ Issued \subseteq Grants /\ IsFiniteSet(Issued) /\ Len(issued) \in Nat
      /\ \A g \in Issued : Position(issued, g) \in 1..Len(issued)
                         /\ issued[Position(issued, g)] = g
  BY PositionIn DEF Issued
<1>2. \A g \in Issued : DrawOrder[g] = Position(issued, g)
                          + IF g \in PublicGrants THEN Len(issued) ELSE 0
  BY DEF DrawOrder
<1>3. ASSUME NEW g \in Issued, NEW h \in Issued, DrawOrder[g] = DrawOrder[h] PROVE g = h
  <2>1. Position(issued, g) = Position(issued, h)
    BY <1>1, <1>2, <1>3
  <2> QED BY <1>1, <2>1
<1>4. \A g \in Issued : DrawOrder[g] \in Int
  BY <1>1, <1>2
<1> QED BY <1>1, <1>3, <1>4

\* The grants can pay for a run.
Funded(r) == RunQuote[r] <= SumFunction([g \in Grants |-> grant[g].available])

\* Each job draws its quote, and no grant gives more than it has, although only
\* the totals were compared.
LEMMA AllocationAddsUp ==
  ASSUME BookInv, IsInjective(issued), \A g \in Grants : grant[g].available \in Nat,
         NEW r \in Runs, Funded(r)
  PROVE  /\ \A j \in JobsOf[r] : SumFunctionOnSet(Allocation(r)[j], Grants) = Quote[j]
         /\ \A g \in Grants : SumFunction([j \in JobsOf[r] |-> Allocation(r)[j][g]])
                              <= grant[g].available
<1> DEFINE plan == Plan[r]
           n == Len(plan)
           quotes == [i \in DOMAIN plan |-> Quote[plan[i]]]
           end(j) == Through(quotes, Position(plan, j))
           new == Allocation(r)
           free == [g \in Issued |-> grant[g].available]
<1>1. /\ plan \in Seq(Jobs) /\ IsInjective(plan) /\ JobsOf[r] = Range(plan)
      /\ DOMAIN plan = 1..n /\ n \in Nat
      /\ \A j \in JobsOf[r] : Position(plan, j) \in 1..n /\ plan[Position(plan, j)] = j
      /\ \A i \in 1..n : plan[i] \in JobsOf[r] /\ Position(plan, plan[i]) = i
  BY PlanFacts, PositionIn
<1>2. \A i \in 1..n : quotes[i] = Quote[plan[i]] /\ quotes[i] \in Nat
  BY <1>1, PlanFacts
<1>3. /\ Issued \subseteq Grants /\ IsFiniteSet(Issued)
      /\ \A g \in Issued : DrawOrder[g] \in Int /\ free[g] \in Nat
      /\ \A g, h \in Issued : DrawOrder[g] = DrawOrder[h] => g = h
  BY DrawOrderStrict DEF BookInv, RowsTyped
<1>4. new = [j \in JobsOf[r] |-> [g \in Grants |->
        IF g \in Issued
        THEN Overlap(end(j) - Quote[j], end(j), Ahead(g), Ahead(g) + grant[g].available)
        ELSE 0]]
  BY DEF Allocation
<1>5. ASSUME NEW g \in Issued
      PROVE  /\ Ahead(g) = SumFunctionOnSet(free, Below(Issued, DrawOrder, g))
             /\ Ahead(g) \in Nat
  <2>1. Ahead(g) = SumFunctionOnSet(free, Below(Issued, DrawOrder, g))
    BY DEF Ahead, Below
  <2>2. Below(Issued, DrawOrder, g) \subseteq Issued
    BY DEF Below
  <2>3. IsFiniteSet(Below(Issued, DrawOrder, g))
    BY <1>3, <2>2, FS_Subset
  <2>4. \A x \in Below(Issued, DrawOrder, g) : free[x] \in Nat
    BY <1>3, <2>2
  <2> QED BY <2>1, <2>3, <2>4, SumNat
<1>50. \A g \in Issued : free[g] = grant[g].available
  OBVIOUS
<1>51. \A g \in Issued : Ahead(g) \in Nat /\ grant[g].available \in Nat
  BY <1>3, <1>5
<1> HIDE DEF quotes, new, n, plan, free
<1>6. ASSUME NEW j \in JobsOf[r]
      PROVE  /\ end(j) \in Nat /\ end(j) - Quote[j] \in Nat /\ Quote[j] \in Nat
             /\ end(j) - Quote[j] = Through(quotes, Position(plan, j) - 1)
             /\ end(j) <= Through(quotes, n) /\ Through(quotes, n) \in Nat
  <2> DEFINE i == Position(plan, j)
  <2>1. /\ i \in 1..n /\ i \in 0..n /\ i - 1 \in 0..n /\ n \in 0..n /\ i <= n
        /\ quotes[i] = Quote[j]
    BY <1>1, <1>2
  <2> HIDE DEF i
  <2>2. /\ Through(quotes, i) = Through(quotes, i - 1) + Quote[j]
        /\ Through(quotes, i) \in Nat /\ Through(quotes, i - 1) \in Nat
        /\ Through(quotes, n) \in Nat
    <3>1. /\ \A k \in 0..n : Through(quotes, k) \in Nat
          /\ \A k \in 1..n : Through(quotes, k) = Through(quotes, k - 1) + quotes[k]
      BY <1>1, <1>2, ThroughStep
    <3> QED BY <2>1, <3>1
  <2>3. Through(quotes, i) <= Through(quotes, n)
    BY <1>1, <1>2, <2>1, ThroughGrows
  <2>4. Quote[j] \in Nat
    BY PlanFacts
  <2> QED BY <2>2, <2>3, <2>4 DEF i
<1>7. Through(quotes, n) = RunQuote[r]
  <2>1. IsFiniteSet(1..n) /\ JobsOf[r] = {plan[i] : i \in 1..n} /\ Ints(Quote, JobsOf[r])
    <3>1. IsFiniteSet(1..n)
      BY <1>1, FS_Interval
    <3> QED BY <1>1, <3>1, PlanFacts DEF Range, Ints
  <2>2. \A x \in 1..n, y \in 1..n : plan[x] = plan[y] => x = y
    BY <1>1
  <2> DEFINE S == 1..n
  <2>3. /\ IsFiniteSet(S) /\ JobsOf[r] = {plan[i] : i \in S}
        /\ \A x \in S, y \in S : plan[x] = plan[y] => x = y
        /\ \A x \in S : quotes[x] = Quote[plan[x]]
    BY <1>2, <2>1, <2>2
  <2> HIDE DEF S
  <2>4. SumFunctionOnSet(quotes, S) = SumFunctionOnSet(Quote, JobsOf[r])
    BY <2>1, <2>3, SumImage
  <2> QED BY <2>4, PlanFacts DEF Through, S
<1>8. ASSUME NEW j \in JobsOf[r] PROVE SumFunctionOnSet(new[j], Grants) = Quote[j]
  <2> DEFINE a == end(j) - Quote[j]
             b == end(j)
             start == [g \in Issued |-> Ahead(g)]
             total == SumFunctionOnSet(free, Issued)
  <2>1. a \in Nat /\ b \in Nat /\ a <= b /\ b - a = Quote[j] /\ b <= RunQuote[r]
    BY <1>6, <1>7
  <2>2. \A g \in Issued : new[j][g] = Overlap(a, b, start[g], start[g] + free[g])
    BY <1>3, <1>4, <1>50
  <2>3. \A g \in Issued : start[g] = SumFunctionOnSet(free, Below(Issued, DrawOrder, g))
    BY <1>5
  <2>4. \A g \in Issued : free[g] = [x \in Grants |-> grant[x].available][g]
    BY <1>3, <1>50
  <2> HIDE DEF a, b, start
  <2>5. SumFunctionOnSet(new[j], Issued) = Overlap(a, b, 0, total)
    <3> DEFINE f == new[j]
    <3>1. \A g \in Issued : f[g] = Overlap(a, b, start[g], start[g] + free[g])
      BY <2>2
    <3>2. \A g \in Issued : free[g] \in Nat /\ DrawOrder[g] \in Int
      BY <1>3
    <3>3. \A g, h \in Issued : DrawOrder[g] = DrawOrder[h] => g = h
      BY <1>3
    <3> HIDE DEF f
    <3>4. SumFunctionOnSet(f, Issued) = Overlap(a, b, 0, SumFunctionOnSet(free, Issued))
      <4>1. IsFiniteSet(Issued) /\ a \in Nat /\ b \in Nat /\ a <= b
        BY <1>3, <2>1
      <4> QED BY <2>3, <3>1, <3>2, <3>3, <4>1, OverlapAhead
    <3> QED BY <3>4 DEF f
  <2>6. RunQuote[r] <= total /\ total \in Nat
    <3> DEFINE all == [x \in Grants |-> grant[x].available]
    <3>1. Ints(all, Grants) /\ \A x \in Grants \ Issued : all[x] = 0
      BY DEF Ints, BookInv, UnissuedUntouched, Untouched
    <3>2. SumFunction(all) = SumFunctionOnSet(all, Grants)
      BY DEF SumFunction
    <3> HIDE DEF all
    <3>3. SumFunctionOnSet(all, Grants) = SumFunctionOnSet(all, Issued)
      BY <1>3, <3>1, BookAssumption, SumSupport
    <3>4. SumFunctionOnSet(free, Issued) = SumFunctionOnSet(all, Issued)
      BY <1>3, <2>4, SumEqual DEF all
    <3>5. total \in Nat
      BY <1>3, SumNat
    <3>6. RunQuote[r] <= SumFunction(all)
      BY DEF all, Funded
    <3> QED BY <3>2, <3>3, <3>4, <3>5, <3>6
  <2>7. Overlap(a, b, 0, total) = b - a
    <3>1. 0 \in Nat /\ 0 <= total /\ b <= total
      BY <2>1, <2>6, PlanFacts
    <3> HIDE DEF total
    <3> QED BY <2>1, <2>6, <3>1, OverlapLaws
  <2>8. SumFunctionOnSet(new[j], Grants) = SumFunctionOnSet(new[j], Issued)
    <3>1. Ints(new[j], Grants) /\ \A g \in Grants \ Issued : new[j][g] = 0
      BY AllocationType DEF Ints, new, BookInv
    <3> QED BY <1>3, <3>1, BookAssumption, SumSupport
  <2> QED BY <2>1, <2>5, <2>7, <2>8
<1>9. ASSUME NEW g \in Grants
      PROVE  SumFunction([j \in JobsOf[r] |-> new[j][g]]) <= grant[g].available
  <2> DEFINE column == [j \in JobsOf[r] |-> new[j][g]]
  <2>1. SumFunction(column) = SumFunctionOnSet(column, JobsOf[r])
    BY DEF SumFunction
  <2>2. CASE g \notin Issued
    <3>1. \A j \in JobsOf[r] : column[j] = 0
      BY <2>2, AllocationType DEF new, BookInv
    <3>2. SumFunctionOnSet(column, JobsOf[r]) = 0
      BY <3>1, PlanFacts, SumZero
    <3>3. 0 <= grant[g].available
      OBVIOUS
    <3> QED BY <2>1, <3>2, <3>3
  <2>3. CASE g \in Issued
    <3> DEFINE S == 1..n
               row == [i \in S |-> column[plan[i]]]
               a == Ahead(g)
               b == Ahead(g) + grant[g].available
    <3>1. a \in Nat /\ b \in Nat /\ a <= b
      BY <1>51, <2>3
    <3>2. ASSUME NEW i \in S
          PROVE  row[i] = Overlap(a, b, Through(quotes, i - 1), Through(quotes, i))
      <4> DEFINE j == plan[i]
      <4>1. j \in JobsOf[r] /\ Position(plan, j) = i
        BY <1>1
      <4>2. column[j] = Overlap(end(j) - Quote[j], end(j), a, b)
        BY <1>4, <2>3, <4>1
      <4>3. /\ end(j) \in Nat /\ end(j) - Quote[j] \in Nat /\ end(j) - Quote[j] <= end(j)
            /\ end(j) - Quote[j] = Through(quotes, i - 1) /\ end(j) = Through(quotes, i)
        BY <1>6, <4>1
      <4>4. row[i] = column[j]
        OBVIOUS
      <4> HIDE DEF a, b, row, column, j
      <4>5. column[j] = Overlap(Through(quotes, i - 1), Through(quotes, i), a, b)
        BY <4>2, <4>3
      <4> DEFINE lo == Through(quotes, i - 1)
                 hi == Through(quotes, i)
      <4>6. lo \in Nat /\ hi \in Nat /\ lo <= hi
        BY <4>3
      <4> HIDE DEF lo, hi
      <4>7. Overlap(lo, hi, a, b) = Overlap(a, b, lo, hi)
        BY <3>1, <4>6, OverlapLaws
      <4> QED BY <4>4, <4>5, <4>7 DEF lo, hi
    <3>3. SumFunctionOnSet(row, S) = Overlap(a, b, 0, Through(quotes, n))
      <4> HIDE DEF a, b, row
      <4>1. \A k \in 1..n :
              row[k] = Overlap(a, b, Through(quotes, k - 1), Through(quotes, k))
        BY <3>2
      <4>2. n \in Nat /\ \A i \in 1..n : quotes[i] \in Nat
        BY <1>1, <1>2
      <4>3. Pieces(row, quotes, a, b, n)
        BY <3>1, <4>1, <4>2 DEF Pieces
      <4> QED BY <4>3, PiecesSum
    <3>4. SumFunctionOnSet(row, S) = SumFunctionOnSet(column, JobsOf[r])
      <4>1. IsFiniteSet(S) /\ JobsOf[r] = {plan[i] : i \in S}
        BY <1>1, FS_Interval DEF Range
      <4>2. \A x \in S, y \in S : plan[x] = plan[y] => x = y
        BY <1>1
      <4>3. \A x \in S : row[x] = column[plan[x]]
        OBVIOUS
      <4>4. Ints(column, JobsOf[r])
        BY AllocationType DEF new, BookInv, Ints
      <4> HIDE DEF S, row, column
      <4> QED BY <4>1, <4>2, <4>3, <4>4, SumImage
    <3>5. Overlap(a, b, 0, Through(quotes, n)) <= b - a
      <4> DEFINE t == Through(quotes, n)
      <4>1. t \in Nat /\ 0 \in Nat /\ 0 <= t
        BY <1>7, PlanFacts
      <4> HIDE DEF a, b, t
      <4>2. Overlap(a, b, 0, t) <= b - a
        BY <3>1, <4>1, OverlapLaws
      <4> QED BY <4>2 DEF t
    <3>6. b - a = grant[g].available
      BY <1>51, <2>3
    <3> HIDE DEF a, b, row
    <3> QED BY <2>1, <3>3, <3>4, <3>5, <3>6
  <2> QED BY <2>2, <2>3
<1> QED BY <1>8, <1>9 DEF new

-----------------------------------------------------------------------------
(* Lemmas.                                                                 *)

\* Issued grants are grants.
LEMMA IssuedType == ASSUME issued \in Seq(Grants) PROVE Issued \subseteq Grants
BY DEF Issued, Range

\* An issued grant is whole.
LEMMA IssuedWhole ==
  ASSUME BookInv PROVE \A g \in Issued : Whole(grant[g]) = Amount[g]
BY DEF BookInv, RowsAddUp, Whole

\* Writing the parts of a grant.
LEMMA WriteGrant ==
  ASSUME NEW row \in GrantRow, NEW a \in Int, NEW b \in Int, NEW c \in Int
  PROVE  /\ [row EXCEPT !.available = a, !.reserved = b] \in GrantRow
         /\ [row EXCEPT !.available = a, !.reversed = b] \in GrantRow
         /\ [row EXCEPT !.reserved = a, !.captured = b, !.available = c] \in GrantRow
BY DEF GrantRow

\* A reservation, a settlement and a reversal move credits between the parts of
\* a grant.
LEMMA ReserveRow ==
  ASSUME NEW row \in GrantRow, NEW d \in Int,
         NEW new, new = [row EXCEPT !.available = @ - d, !.reserved = @ + d]
  PROVE  new \in GrantRow /\ Whole(new) = Whole(row)
<1>1. /\ row.available - d \in Int /\ row.reserved + d \in Int
      /\ row.available \in Int /\ row.reserved \in Int
  BY DEF GrantRow
<1>2. new \in GrantRow
  BY <1>1, WriteGrant
<1>3. Whole(new) = Whole(row)
  BY DEF GrantRow, Whole
<1> QED BY <1>2, <1>3

LEMMA CloseRow ==
  ASSUME NEW row \in GrantRow, NEW d \in Int, NEW o \in Outcome,
         NEW new,
         new = [row EXCEPT !.reserved = @ - d,
                           !.captured = IF o = "captured" THEN @ + d ELSE @,
                           !.available = IF o = "released" THEN @ + d ELSE @]
  PROVE  /\ new \in GrantRow /\ Whole(new) = Whole(row)
         /\ d = 0 /\ Untouched(row) => Untouched(new)
<1>1. /\ row.available \in Int /\ row.reserved \in Int /\ row.captured \in Int
      /\ row.reserved - d \in Int
      /\ (IF o = "captured" THEN row.captured + d ELSE row.captured) \in Int
      /\ (IF o = "released" THEN row.available + d ELSE row.available) \in Int
  BY DEF GrantRow
<1>2. new \in GrantRow
  BY <1>1, WriteGrant
<1>3. CASE o = "captured"
  <2>1. /\ new.available = row.available /\ new.reserved = row.reserved - d
        /\ new.captured = row.captured + d /\ new.reversed = row.reversed
    BY <1>3 DEF GrantRow
  <2>2. Whole(new) = Whole(row)
    BY <1>1, <2>1 DEF GrantRow, Whole
  <2>3. d = 0 /\ Untouched(row) => Untouched(new)
    BY <2>1 DEF Untouched
  <2> QED BY <1>2, <2>2, <2>3
<1>4. CASE o = "released"
  <2>1. /\ new.available = row.available + d /\ new.reserved = row.reserved - d
        /\ new.captured = row.captured /\ new.reversed = row.reversed
    BY <1>4 DEF GrantRow
  <2>2. Whole(new) = Whole(row)
    BY <1>1, <2>1 DEF GrantRow, Whole
  <2>3. d = 0 /\ Untouched(row) => Untouched(new)
    BY <2>1 DEF Untouched
  <2> QED BY <1>2, <2>2, <2>3
<1> QED BY <1>3, <1>4 DEF Outcome

LEMMA ReverseRow ==
  ASSUME NEW row \in GrantRow, NEW new,
         new = [row EXCEPT !.available = 0, !.reversed = @ + row.available]
  PROVE  /\ new \in GrantRow /\ Whole(new) = Whole(row)
         /\ Untouched(row) => Untouched(new)
<1>1. 0 \in Int /\ row.reversed + row.available \in Int
  BY DEF GrantRow
<1>2. new \in GrantRow
  BY <1>1, WriteGrant
<1>3. Whole(new) = Whole(row)
  BY DEF GrantRow, Whole
<1>4. Untouched(row) => Untouched(new)
  BY DEF GrantRow, Untouched
<1> QED BY <1>2, <1>3, <1>4

LEMMA ReinstateRow ==
  ASSUME NEW row \in GrantRow, NEW d \in Int, NEW new,
         new = [row EXCEPT !.available = @ + d, !.reversed = @ - d]
  PROVE  /\ new \in GrantRow /\ Whole(new) = Whole(row)
         /\ d = 0 /\ Untouched(row) => Untouched(new)
<1>1. /\ row.available + d \in Int /\ row.reversed - d \in Int
      /\ row.available \in Int /\ row.reversed \in Int
  BY DEF GrantRow
<1>2. new \in GrantRow
  BY <1>1, WriteGrant
<1>3. Whole(new) = Whole(row)
  BY DEF GrantRow, Whole
<1>4. d = 0 /\ Untouched(row) => Untouched(new)
  BY <1>1 DEF GrantRow, Untouched
<1> QED BY <1>2, <1>3, <1>4

\* The row of a new reservation, and that of one with a closed item.
LEMMA AdmitRow ==
  ASSUME NEW n \in Int,
         NEW new, new = [NoReservation EXCEPT !.status = "reserved", !.reserved = n]
  PROVE  /\ new \in ReservationRow /\ new.status # "none"
         /\ new.reserved + new.captured + new.released = n
<1>1. NoReservation \in ReservationRow
  BY DEF NoReservation, ReservationRow
<1>2. \A row \in ReservationRow :
        [row EXCEPT !.status = "reserved", !.reserved = n] \in ReservationRow
  BY DEF ReservationRow
<1>3. new \in ReservationRow
  BY <1>1, <1>2
<1>4. /\ new.status = "reserved" /\ new.reserved = n
      /\ new.captured = 0 /\ new.released = 0
  BY DEF NoReservation
<1> QED BY <1>3, <1>4

LEMMA ClosedRow ==
  ASSUME NEW s \in {"partial", "captured", "released"}, NEW a \in Int, NEW b \in Int,
         NEW c \in Int, NEW d \in Int,
         NEW new, new = [status |-> s, reserved |-> a, captured |-> b, released |-> c,
                         cost |-> d]
  PROVE  /\ new \in ReservationRow /\ new.status # "none"
         /\ new.reserved = a /\ new.captured = b /\ new.released = c
BY DEF ReservationRow, Outcome

\* Issuing a grant adds it to the issued ones.
LEMMA AppendIssues ==
  ASSUME issued \in Seq(Grants), NEW g \in Grants
  PROVE  /\ Append(issued, g) \in Seq(Grants)
         /\ Range(Append(issued, g)) = Range(issued) \cup {g}
<1>1. /\ Append(issued, g) \in Seq(Grants)
      /\ DOMAIN issued = 1..Len(issued) /\ Len(issued) \in Nat
      /\ DOMAIN Append(issued, g) = 1..(Len(issued) + 1)
      /\ \A i \in 1..Len(issued) : Append(issued, g)[i] = issued[i]
      /\ Append(issued, g)[Len(issued) + 1] = g
  OBVIOUS
<1>2. Range(Append(issued, g)) \subseteq Range(issued) \cup {g}
  BY <1>1 DEF Range
<1>3. Range(issued) \subseteq Range(Append(issued, g))
  BY <1>1 DEF Range
<1>4. g \in Range(Append(issued, g))
  BY <1>1 DEF Range
<1> QED BY <1>1, <1>2, <1>3, <1>4

\* The initial book.
LEMMA InitBook == Init => BookInv
<1> SUFFICES ASSUME Init PROVE BookInv
  OBVIOUS
<1>1. RowsTyped
  BY DEF Init, RowsTyped, GrantRow, ReservationRow, NoGrant, NoReservation, Idle
<1>2. Issued = {}
  BY DEF Init, Issued, Range
<1>3. UnissuedUntouched
  BY DEF Init, UnissuedUntouched, NoGrant, Untouched
<1>4. ItemsAdmitted
  BY DEF Init, ItemsAdmitted
<1>5. RowsAddUp
  BY <1>2 DEF Init, RowsAddUp, NoReservation
<1> QED BY <1>1, <1>3, <1>4, <1>5 DEF BookInv

-----------------------------------------------------------------------------
(* One lemma per action.                                                   *)

\* The grants G are issued.
Issue(G) ==
  /\ G \subseteq Grants /\ G \cap Issued = {}
  /\ issued' \in Seq(Grants) /\ Issued' = Issued \cup G
  /\ grant' = [g \in Grants |->
       IF g \in G THEN [grant[g] EXCEPT !.available = Amount[g]] ELSE grant[g]]
  /\ ledger' = ledger \cup {Entry(<<"grant">>, g, Amount[g], 0) : g \in G}
  /\ balance' = [balance EXCEPT !.available = @ + SumFunctionOnSet(Amount, G)]
  /\ UNCHANGED <<reservation, item, draw, storage, hold, settler>>

LEMMA AppendIssue ==
  ASSUME BookInv, NEW g \in Grants, AppendGrant(g)
  PROVE  Issue({g}) /\ (IsInjective(issued) => IsInjective(issued'))
<1>1. issued' \in Seq(Grants) /\ Issued' = Issued \cup {g}
  BY AppendIssues DEF AppendGrant, BookInv, RowsTyped, Issued
<1>2. {Entry(<<"grant">>, h, Amount[h], 0) : h \in {g}} = {Entry(<<"grant">>, g, Amount[g], 0)}
  OBVIOUS
<1>3. SumFunctionOnSet(Amount, {g}) = Amount[g]
  BY BookAssumption, SumSingleton
<1>4. grant' = [h \in Grants |->
        IF h \in {g} THEN [grant[h] EXCEPT !.available = Amount[h]] ELSE grant[h]]
  BY DEF AppendGrant, BookInv, RowsTyped
<1>5. ASSUME IsInjective(issued) PROVE IsInjective(issued')
  <2>1. issued' = Append(issued, g) /\ g \notin Issued /\ issued \in Seq(Grants)
    BY DEF AppendGrant, BookInv, RowsTyped
  <2>2. /\ DOMAIN issued = 1..Len(issued) /\ Len(issued) \in Nat
        /\ DOMAIN issued' = 1..(Len(issued) + 1)
        /\ \A i \in 1..Len(issued) : issued'[i] = issued[i]
        /\ issued'[Len(issued) + 1] = g
    BY <2>1
  <2>3. \A i \in 1..Len(issued) : issued[i] # g
    BY <2>1, <2>2 DEF Issued, Range
  <2>4. \A i, k \in 1..Len(issued) : issued[i] = issued[k] => i = k
    BY <1>5, <2>2 DEF IsInjective
  <2>5. \A i, k \in 1..(Len(issued) + 1) : issued'[i] = issued'[k] => i = k
    BY <2>2, <2>3, <2>4
  <2> QED BY <2>2, <2>5 DEF IsInjective
<1>6. Issue({g})
  BY <1>1, <1>2, <1>3, <1>4 DEF AppendGrant, Issue
<1> QED BY <1>5, <1>6

\* appendCreditGrant: a new grant is whole, and it was untouched before.
LEMMA IssueBook ==
  ASSUME BookInv, NEW G, Issue(G)
  PROVE  BookInv'
<1>1. issued' \in Seq(Grants) /\ Issued' = Issued \cup G
  BY DEF Issue
<1>2. /\ \A g \in G : g \in Grants /\ Amount[g] \in Nat /\ Untouched(grant[g])
      /\ UNCHANGED <<reservation, item, draw, settler>>
  BY BookAssumption DEF Issue, BookInv, UnissuedUntouched
<1>3. /\ grant' \in [Grants -> GrantRow]
      /\ \A g \in G : Whole(grant'[g]) = Amount[g]
      /\ \A h \in Grants \ G : grant'[h] = grant[h]
  <2>1. grant \in [Grants -> GrantRow]
    BY DEF BookInv, RowsTyped
  <2>2. grant' = [g \in Grants |->
          IF g \in G THEN [grant[g] EXCEPT !.available = Amount[g]] ELSE grant[g]]
    BY DEF Issue
  <2>3. ASSUME NEW g \in G PROVE grant'[g] \in GrantRow /\ Whole(grant'[g]) = Amount[g]
    <3>1. grant'[g] = [grant[g] EXCEPT !.available = Amount[g]] /\ grant[g] \in GrantRow
      BY <1>2, <2>1, <2>2
    <3>2. grant'[g] \in GrantRow
      BY <1>2, <3>1 DEF GrantRow
    <3>3. /\ grant'[g].available = Amount[g] /\ grant'[g].reserved = 0
          /\ grant'[g].captured = 0 /\ grant'[g].reversed = 0
      BY <1>2, <3>1 DEF GrantRow, Untouched
    <3>4. Whole(grant'[g]) = Amount[g]
      BY <1>2, <3>3 DEF Whole
    <3> QED BY <3>2, <3>4
  <2>4. \A h \in Grants \ G : grant'[h] = grant[h]
    BY <2>2
  <2>5. \A g \in Grants : grant'[g] \in GrantRow
    BY <2>1, <2>3, <2>4
  <2>6. grant' = [g \in Grants |-> grant'[g]]
    BY <2>2
  <2> QED BY <2>3, <2>4, <2>5, <2>6
<1>4. balance' = [available |-> balance'.available, reserved |-> balance'.reserved]
  BY DEF Issue, BookInv, RowsTyped
<1>5. RowsTyped'
  BY <1>1, <1>2, <1>3, <1>4 DEF BookInv, RowsTyped
<1>6. UnissuedUntouched'
  BY <1>1, <1>2, <1>3 DEF BookInv, UnissuedUntouched
<1>7. ItemsAdmitted'
  BY <1>2 DEF BookInv, ItemsAdmitted
<1>8. RowsAddUp'
  <2>1. \A h \in Issued' : grant'[h].available + grant'[h].reserved
                           + grant'[h].captured + grant'[h].reversed = Amount[h]
    <3> SUFFICES ASSUME NEW h \in Issued'
                 PROVE grant'[h].available + grant'[h].reserved
                         + grant'[h].captured + grant'[h].reversed = Amount[h]
      OBVIOUS
    <3>1. CASE h \in G
      BY <3>1, <1>3 DEF Whole
    <3>2. CASE h \notin G
      <4>1. h \in Issued /\ h \in Grants
        BY <3>2, <1>1, IssuedType DEF BookInv, RowsTyped
      <4> QED BY <3>2, <4>1, <1>3 DEF BookInv, RowsAddUp
    <3> QED BY <3>1, <3>2
  <2> QED BY <2>1, <1>2 DEF BookInv, RowsAddUp
<1> QED BY <1>5, <1>6, <1>7, <1>8 DEF BookInv

LEMMA AppendBook ==
  ASSUME BookInv, NEW g \in Grants, AppendGrant(g)
  PROVE  BookInv'
BY AppendIssue, IssueBook

\* reserveRunCredits: what leaves the available credits of a grant is reserved.
LEMMA ReserveBook ==
  ASSUME BookInv, NEW r \in Runs, Reserve(r)
  PROVE  BookInv'
<1> DEFINE new == Allocation(r)
           drawn == [g \in Grants |-> SumFunction([j \in JobsOf[r] |-> new[j][g]])]
<1>0. /\ new \in [JobsOf[r] -> [Grants -> Nat]]
      /\ drawn \in [Grants -> Nat]
      /\ \A j \in JobsOf[r], g \in Grants \ Issued : new[j][g] = 0
  BY AllocationType DEF BookInv
<1>1. /\ draw' = [j \in Jobs |-> IF j \in JobsOf[r] THEN new[j] ELSE draw[j]]
      /\ grant' = [g \in Grants |->
           IF g \in Issued THEN [grant[g] EXCEPT !.available = @ - drawn[g],
                                                 !.reserved = @ + drawn[g]]
                           ELSE grant[g]]
  BY DEF Reserve, WriteReservation
<1>2. /\ item' = [j \in Jobs |-> IF j \in JobsOf[r] THEN "reserved" ELSE item[j]]
      /\ reservation' = [reservation EXCEPT ![r] =
           [NoReservation EXCEPT !.status = "reserved", !.reserved = RunQuote[r]]]
      /\ balance' = [available |-> balance.available - RunQuote[r],
                     reserved  |-> balance.reserved + RunQuote[r]]
      /\ UNCHANGED <<issued, settler>>
  BY DEF Reserve, WriteReservation
<1>3. Issued' = Issued
  BY <1>2 DEF Issued
<1> HIDE DEF new, drawn
<1>5. \A g \in Grants : grant[g] \in GrantRow
  BY DEF BookInv, RowsTyped
<1>6. \A g \in Grants : /\ grant'[g] \in GrantRow
                        /\ g \notin Issued => grant'[g] = grant[g]
                        /\ Whole(grant'[g]) = Whole(grant[g])
  <2> SUFFICES ASSUME NEW g \in Grants
               PROVE  /\ grant'[g] \in GrantRow
                      /\ g \notin Issued => grant'[g] = grant[g]
                      /\ Whole(grant'[g]) = Whole(grant[g])
    OBVIOUS
  <2>1. CASE g \notin Issued
    BY <2>1, <1>1, <1>5
  <2>2. CASE g \in Issued
    <3>1. drawn[g] \in Nat
      BY <1>0
    <3>2. drawn[g] \in Int /\ grant[g] \in GrantRow
      BY <3>1, <1>5
    <3>3. grant'[g] = [grant[g] EXCEPT !.available = @ - drawn[g],
                                      !.reserved = @ + drawn[g]]
      BY <2>2, <1>1
    <3> QED BY <2>2, <3>2, <3>3, ReserveRow
  <2> QED BY <2>1, <2>2
<1>7. /\ reservation' \in [Runs -> ReservationRow]
      /\ reservation'[r].status # "none"
      /\ reservation'[r].reserved + reservation'[r].captured
           + reservation'[r].released = RunQuote[r]
      /\ \A s \in Runs \ {r} : reservation'[s] = reservation[s]
  <2>1. RunQuote[r] \in Int
    BY PlanFacts
  <2>2. reservation \in [Runs -> ReservationRow]
    BY DEF BookInv, RowsTyped
  <2>3. reservation'[r] = [NoReservation EXCEPT !.status = "reserved",
                                               !.reserved = RunQuote[r]]
    BY <1>2, <2>2
  <2>4. /\ reservation'[r] \in ReservationRow /\ reservation'[r].status # "none"
        /\ reservation'[r].reserved + reservation'[r].captured
             + reservation'[r].released = RunQuote[r]
    BY <2>1, <2>3, AdmitRow
  <2> QED BY <2>2, <2>4, <1>2
<1>8. RowsTyped'
  <2>1. grant' \in [Grants -> GrantRow]
    <3>1. grant' = [g \in Grants |-> grant'[g]]
      BY <1>1
    <3> QED BY <3>1, <1>6
  <2>2. draw' \in [Jobs -> [Grants -> Nat]]
    BY <1>0, <1>1 DEF BookInv, RowsTyped
  <2>3. item' \in [Jobs -> {"none", "reserved"} \cup Outcome]
    BY <1>2 DEF BookInv, RowsTyped
  <2>4. balance' = [available |-> balance'.available, reserved |-> balance'.reserved]
    BY <1>2
  <2> QED BY <2>1, <2>2, <2>3, <2>4, <1>2, <1>7 DEF BookInv, RowsTyped
<1>9. UnissuedUntouched'
  <2> SUFFICES ASSUME NEW g \in Grants \ Issued
               PROVE Untouched(grant'[g]) /\ \A j \in Jobs : draw'[j][g] = 0
    BY <1>3 DEF UnissuedUntouched
  <2>1. Untouched(grant[g]) /\ \A j \in Jobs : draw[j][g] = 0
    BY DEF BookInv, UnissuedUntouched
  <2> QED BY <2>1, <1>0, <1>1, <1>6
<1>10. ItemsAdmitted'
  BY <1>2, <1>7 DEF BookInv, ItemsAdmitted
<1>11. RowsAddUp'
  <2>1. Issued \subseteq Grants
    BY IssuedType DEF BookInv, RowsTyped
  <2>2. \A g \in Issued : Whole(grant'[g]) = Amount[g]
    BY <2>1, <1>6, IssuedWhole
  <2> QED BY <2>2, <1>3, <1>7 DEF BookInv, RowsAddUp, Whole
<1> QED BY <1>8, <1>9, <1>10, <1>11 DEF BookInv

\* The run of a job that has an item.
LEMMA RunOfJob ==
  ASSUME BookInv, NEW j \in Jobs, item[j] # "none",
         NEW r, r = (CHOOSE x \in Runs : j \in JobsOf[x])
  PROVE  r \in Runs /\ j \in JobsOf[r] /\ reservation[r].status # "none"
<1>1. PICK s \in Runs : j \in JobsOf[s] /\ reservation[s].status # "none"
  BY DEF BookInv, ItemsAdmitted
<1>2. r \in Runs /\ j \in JobsOf[r]
  BY <1>1
<1>3. r = s
  BY <1>1, <1>2, BookAssumption
<1> QED BY <1>1, <1>2, <1>3

\* One item is closed: grants and reservation keep their totals.
LEMMA CloseBook ==
  ASSUME BookInv, NEW j \in Jobs, item[j] = "reserved", NEW o \in Outcome,
         CloseItem(j, o), UNCHANGED <<issued, draw>>,
         settler' \in [Settlers -> [job : Jobs, outcome : Outcome] \cup {Idle}]
  PROVE  BookInv'
<1> DEFINE r == CHOOSE x \in Runs : j \in JobsOf[x]
           res == reservation[r]
           new == reservation'[r]
<1>1. r \in Runs /\ j \in JobsOf[r] /\ res.status # "none"
  BY RunOfJob
<1>2. /\ item' = [item EXCEPT ![j] = o]
      /\ grant' = [g \in Grants |->
           [grant[g] EXCEPT !.reserved = @ - draw[j][g],
                            !.captured = IF o = "captured" THEN @ + draw[j][g] ELSE @,
                            !.available = IF o = "released" THEN @ + draw[j][g] ELSE @]]
      /\ balance' = [balance EXCEPT !.reserved = @ - Quote[j],
                                    !.available = IF o = "released" THEN @ + Quote[j] ELSE @]
  BY DEF CloseItem
<1>3. \A g \in Grants : grant[g] \in GrantRow /\ draw[j][g] \in Int
  BY DEF BookInv, RowsTyped
<1>4. \A g \in Grants : /\ grant'[g] \in GrantRow
                        /\ g \notin Issued => Untouched(grant'[g])
                        /\ Whole(grant'[g]) = Whole(grant[g])
  <2> SUFFICES ASSUME NEW g \in Grants
               PROVE  /\ grant'[g] \in GrantRow
                      /\ g \notin Issued => Untouched(grant'[g])
                      /\ Whole(grant'[g]) = Whole(grant[g])
    OBVIOUS
  <2>1. grant'[g] = [grant[g] EXCEPT !.reserved = @ - draw[j][g],
                       !.captured = IF o = "captured" THEN @ + draw[j][g] ELSE @,
                       !.available = IF o = "released" THEN @ + draw[j][g] ELSE @]
    BY <1>2
  <2>2. g \notin Issued => Untouched(grant[g]) /\ draw[j][g] = 0
    BY DEF BookInv, UnissuedUntouched
  <2>3. /\ grant'[g] \in GrantRow /\ Whole(grant'[g]) = Whole(grant[g])
        /\ draw[j][g] = 0 /\ Untouched(grant[g]) => Untouched(grant'[g])
    BY <1>3, <2>1, CloseRow
  <2> QED BY <2>2, <2>3
<1>5. /\ reservation' = [reservation EXCEPT ![r] = new]
      /\ new \in ReservationRow /\ new.status # "none"
      /\ new.reserved + new.captured + new.released
           = res.reserved + res.captured + res.released
  <2> DEFINE reserved == res.reserved - Quote[j]
             captured == res.captured + IF o = "captured" THEN Quote[j] ELSE 0
             released == res.released + IF o = "released" THEN Quote[j] ELSE 0
             closed == [status |-> ReservationStatus(r, reserved, captured, released),
                        reserved |-> reserved, captured |-> captured,
                        released |-> released,
                        cost |-> IF reserved = 0 THEN captured ELSE res.cost]
  <2>1. reservation' = [reservation EXCEPT ![r] = closed]
    BY DEF CloseItem
  <2>2. res \in ReservationRow /\ Quote[j] \in Nat
    BY <1>1, BookAssumption DEF BookInv, RowsTyped
  <2>3. /\ reserved \in Int /\ captured \in Int /\ released \in Int
        /\ reserved + captured + released = res.reserved + res.captured + res.released
    <3> HIDE DEF res
    <3> QED BY <2>2 DEF ReservationRow, Outcome
  <2>4. ReservationStatus(r, reserved, captured, released)
          \in {"partial", "captured", "released"}
    BY DEF ReservationStatus
  <2>5. closed \in ReservationRow /\ closed.status # "none"
    <3>1. res.cost \in Int
      BY <2>2 DEF ReservationRow
    <3>2. (IF reserved = 0 THEN captured ELSE res.cost) \in Int
      BY <2>3, <3>1
    <3> HIDE DEF reserved, captured, released, res
    <3> QED BY <2>3, <2>4, <3>2, ClosedRow
  <2>6. new = closed
    BY <2>1, <1>1 DEF BookInv, RowsTyped
  <2>7. /\ closed.reserved = reserved /\ closed.captured = captured
        /\ closed.released = released
    OBVIOUS
  <2> HIDE DEF closed, reserved, captured, released, res
  <2> QED BY <2>1, <2>3, <2>5, <2>6, <2>7
<1>6. \A s \in Runs : /\ reservation'[s] \in ReservationRow
                      /\ reservation[s].status # "none" => reservation'[s].status # "none"
                      /\ reservation'[s].status # "none" => reservation[s].status # "none"
                      /\ reservation'[s].reserved + reservation'[s].captured
                           + reservation'[s].released
                         = reservation[s].reserved + reservation[s].captured
                           + reservation[s].released
  <2>1. reservation \in [Runs -> ReservationRow]
    BY DEF BookInv, RowsTyped
  <2> HIDE DEF r
  <2> QED BY <2>1, <1>1, <1>5
<1> HIDE DEF r, res, new
<1>7. RowsTyped'
  <2>1. grant' \in [Grants -> GrantRow]
    <3>1. grant' = [g \in Grants |-> grant'[g]]
      BY <1>2
    <3> QED BY <3>1, <1>4
  <2>2. item' \in [Jobs -> {"none", "reserved"} \cup Outcome]
    BY <1>2 DEF BookInv, RowsTyped
  <2>3. balance' = [available |-> balance'.available, reserved |-> balance'.reserved]
    BY <1>2 DEF BookInv, RowsTyped
  <2>4. reservation' \in [Runs -> ReservationRow]
    BY <1>5, <1>6 DEF BookInv, RowsTyped
  <2> QED BY <2>1, <2>2, <2>3, <2>4 DEF BookInv, RowsTyped
<1>8. Issued' = Issued
  BY DEF Issued
<1>9. UnissuedUntouched'
  <2>1. \A g \in Grants \ Issued : \A x \in Jobs : draw[x][g] = 0
    BY DEF BookInv, UnissuedUntouched
  <2> QED BY <2>1, <1>4, <1>8 DEF UnissuedUntouched
<1>10. ItemsAdmitted'
  <2> SUFFICES ASSUME NEW x \in Jobs, item'[x] # "none"
               PROVE \E s \in Runs : x \in JobsOf[s] /\ reservation'[s].status # "none"
    BY DEF ItemsAdmitted
  <2>1. item[x] # "none"
    BY <1>2 DEF BookInv, RowsTyped
  <2>2. PICK s \in Runs : x \in JobsOf[s] /\ reservation[s].status # "none"
    BY <2>1 DEF BookInv, ItemsAdmitted
  <2> QED BY <2>2, <1>6
<1>11. RowsAddUp'
  <2>1. Issued \subseteq Grants
    BY IssuedType DEF BookInv, RowsTyped
  <2>2. \A g \in Issued : Whole(grant'[g]) = Amount[g]
    BY <2>1, <1>4, IssuedWhole
  <2>3. \A s \in Runs : reservation'[s].status # "none" =>
          reservation'[s].reserved + reservation'[s].captured
            + reservation'[s].released = RunQuote[s]
    <3>1. \A s \in Runs : reservation[s].status # "none" =>
            reservation[s].reserved + reservation[s].captured
              + reservation[s].released = RunQuote[s]
      BY DEF BookInv, RowsAddUp
    <3> QED BY <3>1, <1>6
  <2> QED BY <2>2, <2>3, <1>8 DEF RowsAddUp, Whole
<1> QED BY <1>7, <1>9, <1>10, <1>11 DEF BookInv

\* settleGenerationJobCredits: whoever comes first closes the item, whoever comes
\* later finds it closed.
LEMMA SettleBook ==
  ASSUME BookInv, NEW s \in Settlers, Settle(s)
  PROVE  BookInv'
<1>1. /\ settler[s].job \in Jobs /\ settler[s].outcome \in Outcome
      /\ settler' \in [Settlers -> [job : Jobs, outcome : Outcome] \cup {Idle}]
      /\ UNCHANGED <<issued, draw>>
  BY DEF Settle, BookInv, RowsTyped
<1>2. CASE item[settler[s].job] = "reserved" /\ CloseItem(settler[s].job, settler[s].outcome)
  BY <1>1, <1>2, CloseBook
<1>3. CASE UNCHANGED <<grant, balance, reservation, item>>
  BY <1>1, <1>3 DEF BookInv, RowsTyped, UnissuedUntouched, ItemsAdmitted, RowsAddUp, Issued
<1> QED BY <1>2, <1>3 DEF Settle

\* reverseUnusedCreditGrant: what was available is reversed.
LEMMA ReverseBook ==
  ASSUME BookInv, NEW G, NEW event, ReverseUnused(G, event)
  PROVE  BookInv'
<1>1. /\ UNCHANGED <<issued, reservation, item, draw, settler>>
      /\ balance' = [balance EXCEPT !.available = balance'.available]
  BY DEF ReverseUnused, BookInv, RowsTyped
<1>2. balance' = [available |-> balance'.available, reserved |-> balance'.reserved]
  BY DEF ReverseUnused, BookInv, RowsTyped
<1>3. \A h \in Grants : /\ grant'[h] \in GrantRow
                        /\ Whole(grant'[h]) = Whole(grant[h])
                        /\ (h \notin Issued => Untouched(grant'[h]))
  <2> SUFFICES ASSUME NEW h \in Grants
               PROVE  /\ grant'[h] \in GrantRow
                      /\ Whole(grant'[h]) = Whole(grant[h])
                      /\ (h \notin Issued => Untouched(grant'[h]))
    OBVIOUS
  <2>1. grant[h] \in GrantRow /\ (h \notin Issued => Untouched(grant[h]))
    BY DEF BookInv, RowsTyped, UnissuedUntouched
  <2>2. \/ grant'[h] = [grant[h] EXCEPT !.available = 0, !.reversed = @ + grant[h].available]
        \/ grant'[h] = grant[h]
    BY DEF ReverseUnused, Reversible
  <2> QED BY <2>1, <2>2, ReverseRow
<1>4. RowsTyped'
  <2>1. grant' \in [Grants -> GrantRow]
    <3>1. grant' = [h \in Grants |-> grant'[h]]
      BY DEF ReverseUnused
    <3> QED BY <3>1, <1>3
  <2> QED BY <2>1, <1>1, <1>2 DEF BookInv, RowsTyped
<1>5. Issued' = Issued /\ Issued \subseteq Grants
  BY <1>1, IssuedType DEF Issued, BookInv, RowsTyped
<1>6. UnissuedUntouched'
  BY <1>1, <1>3, <1>5 DEF BookInv, UnissuedUntouched
<1>7. ItemsAdmitted'
  BY <1>1 DEF BookInv, ItemsAdmitted
<1>8. RowsAddUp'
  <2>1. \A h \in Issued : Whole(grant'[h]) = Amount[h]
    BY <1>3, <1>5, IssuedWhole
  <2> QED BY <2>1, <1>1, <1>5 DEF BookInv, RowsAddUp, Whole
<1> QED BY <1>4, <1>6, <1>7, <1>8 DEF BookInv

\* reinstateReversedCreditGrant: what was reversed is available again.
LEMMA ReinstateBook ==
  ASSUME BookInv, NEW credits, NEW event, Reinstate(credits, event),
         \A g \in DOMAIN credits : credits[g] \in Nat
  PROVE  BookInv'
<1>1. UNCHANGED <<issued, reservation, item, draw, settler>>
  BY DEF Reinstate
<1>2. balance' = [available |-> balance'.available, reserved |-> balance'.reserved]
  BY DEF Reinstate, BookInv, RowsTyped
<1>3. \A h \in Grants : /\ grant'[h] \in GrantRow
                        /\ Whole(grant'[h]) = Whole(grant[h])
                        /\ (h \notin Issued => Untouched(grant'[h]))
  <2> SUFFICES ASSUME NEW h \in Grants
               PROVE  /\ grant'[h] \in GrantRow
                      /\ Whole(grant'[h]) = Whole(grant[h])
                      /\ (h \notin Issued => Untouched(grant'[h]))
    OBVIOUS
  <2>1. grant[h] \in GrantRow /\ (h \notin Issued => Untouched(grant[h]))
    BY DEF BookInv, RowsTyped, UnissuedUntouched
  <2>2. CASE h \in Reversible(DOMAIN credits, event)
    <3>1. credits[h] \in Nat /\ grant[h].reversed >= credits[h]
      BY <2>2 DEF Reinstate, Reversible
    <3>2. grant'[h] = [grant[h] EXCEPT !.available = @ + credits[h],
                                      !.reversed = @ - credits[h]]
      BY <2>2 DEF Reinstate
    <3>3. Untouched(grant[h]) => credits[h] = 0
      BY <3>1 DEF Untouched
    <3>4. credits[h] \in Int
      BY <3>1
    <3> QED BY <2>1, <3>2, <3>3, <3>4, ReinstateRow
  <2>3. CASE h \notin Reversible(DOMAIN credits, event)
    <3>1. grant'[h] = grant[h]
      BY <2>3 DEF Reinstate
    <3> QED BY <2>1, <3>1
  <2> QED BY <2>2, <2>3
<1>4. RowsTyped'
  <2>1. grant' \in [Grants -> GrantRow]
    <3>1. grant' = [h \in Grants |-> grant'[h]]
      BY DEF Reinstate
    <3> QED BY <3>1, <1>3
  <2> QED BY <2>1, <1>1, <1>2 DEF BookInv, RowsTyped
<1>5. Issued' = Issued /\ Issued \subseteq Grants
  BY <1>1, IssuedType DEF Issued, BookInv, RowsTyped
<1>6. UnissuedUntouched'
  BY <1>1, <1>3, <1>5 DEF BookInv, UnissuedUntouched
<1>7. ItemsAdmitted'
  BY <1>1 DEF BookInv, ItemsAdmitted
<1>8. RowsAddUp'
  <2>1. \A h \in Issued : Whole(grant'[h]) = Amount[h]
    BY <1>3, <1>5, IssuedWhole
  <2> QED BY <2>1, <1>1, <1>5 DEF BookInv, RowsAddUp, Whole
<1> QED BY <1>4, <1>6, <1>7, <1>8 DEF BookInv

-----------------------------------------------------------------------------
(* The invariant.                                                          *)

LEMMA NextBook == BookInv /\ [Next]_vars => BookInv'
<1> SUFFICES ASSUME BookInv, [Next]_vars PROVE BookInv'
  OBVIOUS
<1>1. ASSUME NEW g \in Grants, AppendGrant(g) PROVE BookInv'
  BY <1>1, AppendBook
<1>2. ASSUME NEW r \in Runs, Reserve(r) PROVE BookInv'
  BY <1>2, ReserveBook
<1>3. ASSUME NEW s \in Settlers, NEW j \in Jobs, NEW o \in Outcome, BeginSettle(s, j, o)
      PROVE BookInv'
  BY <1>3 DEF BeginSettle, book, BookInv, RowsTyped, UnissuedUntouched, ItemsAdmitted,
              RowsAddUp, Issued
<1>4. ASSUME NEW s \in Settlers, Settle(s) PROVE BookInv'
  BY <1>4, SettleBook
<1>5. ASSUME NEW g \in Grants, NEW e \in Reversals, Reverse(g, e) PROVE BookInv'
  BY <1>5, ReverseBook DEF Reverse
<1>6. CASE UNCHANGED vars
  BY <1>6 DEF vars, book, BookInv, RowsTyped, UnissuedUntouched, ItemsAdmitted, RowsAddUp,
              Issued
<1> QED BY <1>1, <1>2, <1>3, <1>4, <1>5, <1>6 DEF Next

\* The rows of grants and reservations add up in every reachable state, so that
\* no transaction of credit-accounting.ts or billing-state.ts is aborted by a
\* CHECK constraint, whatever the grants, plans, quotes and settlers.
THEOREM RowsCorrect == Spec => []RowsAddUp
<1>1. Spec => []BookInv
  BY InitBook, NextBook, PTL DEF Spec
<1>2. BookInv => RowsAddUp
  BY DEF BookInv
<1> QED BY <1>1, <1>2, PTL

-----------------------------------------------------------------------------
(* The purse.                                                              *)

LEMMA InitPurse == Init => Purse!Init
BY DEF Init, Purse!Init

LEMMA StepPurse == BookInv /\ [Next]_vars => [Purse!Next]_Purse!vars
<1> SUFFICES ASSUME BookInv, [Next]_vars PROVE [Purse!Next]_Purse!vars
  OBVIOUS
<1>0. /\ balance = [available |-> balance.available, reserved |-> balance.reserved]
      /\ item \in [Jobs -> {"none", "reserved"} \cup Outcome]
  BY DEF BookInv, RowsTyped
<1>1. ASSUME NEW g \in Grants, AppendGrant(g) PROVE Purse!Adjust
  BY <1>0, <1>1 DEF AppendGrant, Purse!Adjust
<1>2. ASSUME NEW r \in Runs, Reserve(r) PROVE Purse!HoldRun(r)
  <2>1. \A j \in JobsOf[r] : item[j] = "none"
    <3> SUFFICES ASSUME NEW j \in JobsOf[r], item[j] # "none" PROVE FALSE
      OBVIOUS
    <3>1. j \in Jobs
      BY PlanFacts
    <3>2. PICK s \in Runs : j \in JobsOf[s] /\ reservation[s].status # "none"
      BY <3>1 DEF BookInv, ItemsAdmitted
    <3>3. s = r
      BY <3>2, BookAssumption
    <3> QED BY <1>2, <3>2, <3>3 DEF Reserve, WriteReservation, Admissible
  <2>2. balance.available >= RunQuote[r]
    BY <1>2 DEF Reserve, WriteReservation, Admissible
  <2>3. /\ balance' = [available |-> balance.available - RunQuote[r],
                       reserved  |-> balance.reserved + RunQuote[r]]
        /\ item' = [j \in Jobs |-> IF j \in JobsOf[r] THEN "reserved" ELSE item[j]]
    BY <1>2 DEF Reserve, WriteReservation
  <2>4. /\ balance'.available = balance.available - RunQuote[r]
        /\ balance'.reserved = balance.reserved + RunQuote[r]
    BY <2>3
  <2> QED BY <2>1, <2>2, <2>3, <2>4 DEF Purse!HoldRun
<1>3. ASSUME NEW s \in Settlers, NEW j \in Jobs, NEW o \in Outcome, BeginSettle(s, j, o)
      PROVE UNCHANGED Purse!vars
  BY <1>3 DEF BeginSettle, book, Purse!vars
<1>4. ASSUME NEW s \in Settlers, Settle(s)
      PROVE \/ \E j \in Jobs : Purse!Spend(j) \/ Purse!GiveBack(j)
            \/ UNCHANGED Purse!vars
  <2> DEFINE j == settler[s].job
             o == settler[s].outcome
  <2>1. j \in Jobs /\ o \in Outcome
    BY <1>4 DEF Settle, BookInv, RowsTyped
  <2>2. CASE item[j] = "reserved" /\ CloseItem(j, o)
    <3>1. /\ item' = [item EXCEPT ![j] = o]
          /\ balance' = [balance EXCEPT !.reserved = @ - Quote[j],
                           !.available = IF o = "released" THEN @ + Quote[j] ELSE @]
      BY <2>2 DEF CloseItem
    <3>2. /\ balance'.reserved = balance.reserved - Quote[j]
          /\ balance'.available = IF o = "released" THEN balance.available + Quote[j]
                                                    ELSE balance.available
      BY <1>0, <3>1
    <3>3. CASE o = "captured"
      <4>1. Purse!Spend(j)
        <5> HIDE DEF j, o
        <5> QED BY <2>2, <3>1, <3>2, <3>3 DEF Purse!Spend
      <4> QED BY <2>1, <4>1
    <3>4. CASE o = "released"
      <4>1. Purse!GiveBack(j)
        <5> HIDE DEF j, o
        <5> QED BY <2>2, <3>1, <3>2, <3>4 DEF Purse!GiveBack
      <4> QED BY <2>1, <4>1
    <3> QED BY <2>1, <3>3, <3>4 DEF Outcome
  <2>3. CASE UNCHANGED <<grant, balance, reservation, item>>
    BY <2>3 DEF Purse!vars
  <2> QED BY <1>4, <2>2, <2>3 DEF Settle
<1>5. ASSUME NEW g \in Grants, NEW e \in Reversals, Reverse(g, e) PROVE Purse!Adjust
  BY <1>0, <1>5 DEF Reverse, ReverseUnused, Purse!Adjust
<1>6. CASE UNCHANGED vars
  BY <1>6 DEF vars, book, Purse!vars
<1> QED BY <1>1, <1>2, <1>3, <1>4, <1>5, <1>6 DEF Next, Purse!Next

\* The credit book implements the purse: however the settlers of a job race, its
\* hold is spent once or returned once, in full.
THEOREM PurseKept == Spec => KeepsPurse
<1>1. Spec => []BookInv
  BY InitBook, NextBook, PTL DEF Spec
<1> QED BY <1>1, InitPurse, StepPurse, PTL DEF Spec, KeepsPurse, Purse!Spec

-----------------------------------------------------------------------------
(* The books agree.                                                        *)

\* The jobs whose credits are reserved.
OpenItems == {j \in Jobs : item[j] = "reserved"}

\* No column of a grant is negative.
Columns ==
  \A g \in Grants : /\ grant[g].available \in Nat /\ grant[g].reserved \in Nat
                    /\ grant[g].captured \in Nat /\ grant[g].reversed \in Nat

\* A job has drawn its quote, and a grant holds what open items drew from it.
DrawsQuoted ==
  \A j \in Jobs : item[j] # "none" => SumFunctionOnSet(draw[j], Grants) = Quote[j]
HeldByItems ==
  \A g \in Grants :
    grant[g].reserved = SumFunctionOnSet([j \in Jobs |-> draw[j][g]], OpenItems)

\* The balance is the sum of the grants.
BalanceOfGrants ==
  /\ balance.available = SumFunction([g \in Grants |-> grant[g].available])
  /\ balance.reserved = SumFunction([g \in Grants |-> grant[g].reserved])

\* The ledger is a finite list of entries, adds up to the balance, and has no
\* entry of an event that has not happened.
LedgerRows ==
  /\ IsFiniteSet(ledger)
  /\ \A e \in ledger : e.grant \in Grants /\ e.available \in Int /\ e.reserved \in Int
LedgerOfBalance ==
  /\ balance.available = SumFunction([e \in ledger |-> e.available])
  /\ balance.reserved = SumFunction([e \in ledger |-> e.reserved])
LedgerEvents ==
  \A e \in ledger :
    /\ e.event = <<"grant">> => e.grant \in Issued
    /\ \A j \in Jobs : e.event = <<"reserve", j>> => item[j] # "none"
    /\ \A j \in Jobs, o \in Outcome : e.event = <<o, j>> => item[j] = o

\* An admitted run has an item for each of its jobs; another has no reservation.
RunRows ==
  \A r \in Runs :
    /\ reservation[r].status = "none" => reservation[r] = NoReservation
    /\ reservation[r].status # "none" => \A j \in JobsOf[r] : item[j] # "none"
    /\ reservation[r].cost \in Nat

\* The storage held is what the jobs hold.
StorageHeld ==
  /\ storage = [used |-> storage.used, reserved |-> storage.reserved, limit |-> storage.limit]
  /\ storage.used \in Nat /\ storage.limit \in Limits
  /\ hold \in [Jobs -> Nat]
  /\ \A j \in Jobs : item[j] = "none" => hold[j] = 0
  /\ storage.reserved = SumFunctionOnSet(hold, Jobs)

AccountTyped == account \in [status : {"active", "blocked_review"}, reason : Reason]

Books ==
  /\ BookInv /\ IsInjective(issued) /\ Columns /\ DrawsQuoted /\ HeldByItems
  /\ BalanceOfGrants /\ LedgerRows /\ LedgerOfBalance /\ LedgerEvents
  /\ RunRows /\ ReservationsAddUp /\ StorageHeld /\ AccountTyped

\* New entries add to what the ledger says.
LEMMA LedgerGrows ==
  ASSUME LedgerRows, NEW N, IsFiniteSet(N), N \cap ledger = {}, ledger' = ledger \cup N,
         \A e \in N : e.grant \in Grants /\ e.available \in Int /\ e.reserved \in Int
  PROVE  /\ LedgerRows'
         /\ SumFunction([e \in ledger' |-> e.available])
              = SumFunction([e \in ledger |-> e.available])
                + SumFunction([e \in N |-> e.available])
         /\ SumFunction([e \in ledger' |-> e.reserved])
              = SumFunction([e \in ledger |-> e.reserved])
                + SumFunction([e \in N |-> e.reserved])
<1>1. IsFiniteSet(ledger) /\ IsFiniteSet(ledger \cup N)
  BY FS_Union DEF LedgerRows
<1>2. LedgerRows'
  BY <1>1 DEF LedgerRows
<1>3. ASSUME NEW h, \A e \in ledger' : h[e] \in Int
      PROVE  SumFunction([e \in ledger' |-> h[e]])
               = SumFunction([e \in ledger |-> h[e]]) + SumFunction([e \in N |-> h[e]])
  <2> DEFINE f == [e \in ledger' |-> h[e]]
             g == [e \in ledger |-> h[e]]
  <2>1. /\ SumFunction(f) = SumFunctionOnSet(f, ledger \cup N)
        /\ SumFunction(g) = SumFunctionOnSet(g, ledger)
        /\ SumFunction([e \in N |-> h[e]]) = SumFunctionOnSet([e \in N |-> h[e]], N)
    BY <1>3 DEF SumFunction
  <2>2. /\ \A e \in ledger \cup N : f[e] = h[e]
        /\ \A e \in ledger : g[e] = h[e]
        /\ \A e \in N : [x \in N |-> h[x]][e] = h[e]
    BY <1>3
  <2>3. /\ SumFunctionOnSet(f, ledger \cup N) = SumFunctionOnSet(h, ledger \cup N)
        /\ SumFunctionOnSet(g, ledger) = SumFunctionOnSet(h, ledger)
    BY <1>1, <2>2, SumEqual
  <2>4. SumFunctionOnSet([e \in N |-> h[e]], N) = SumFunctionOnSet(h, N)
    BY <2>2, SumEqual
  <2>5. Ints(h, ledger \cup N) /\ ledger \cap N = {}
    BY <1>3 DEF Ints
  <2>6. SumFunctionOnSet(h, ledger \cup N)
          = SumFunctionOnSet(h, ledger) + SumFunctionOnSet(h, N)
    BY <1>1, <2>5, SumUnion
  <2> QED BY <2>1, <2>3, <2>4, <2>6
<1> DEFINE a == [e \in ledger' |-> e.available]
           b == [e \in ledger' |-> e.reserved]
<1>4. \A e \in ledger' : a[e] \in Int /\ b[e] \in Int
  BY <1>2 DEF LedgerRows
<1>5. /\ a = [e \in ledger' |-> a[e]] /\ b = [e \in ledger' |-> b[e]]
      /\ [e \in ledger |-> e.available] = [e \in ledger |-> a[e]]
      /\ [e \in ledger |-> e.reserved] = [e \in ledger |-> b[e]]
      /\ [e \in N |-> e.available] = [e \in N |-> a[e]]
      /\ [e \in N |-> e.reserved] = [e \in N |-> b[e]]
  OBVIOUS
<1>6. /\ SumFunction(a) = SumFunction([e \in ledger |-> a[e]]) + SumFunction([e \in N |-> a[e]])
      /\ SumFunction(b) = SumFunction([e \in ledger |-> b[e]]) + SumFunction([e \in N |-> b[e]])
  <2> HIDE DEF a, b
  <2>1. /\ SumFunction([e \in ledger' |-> a[e]])
             = SumFunction([e \in ledger |-> a[e]]) + SumFunction([e \in N |-> a[e]])
        /\ SumFunction([e \in ledger' |-> b[e]])
             = SumFunction([e \in ledger |-> b[e]]) + SumFunction([e \in N |-> b[e]])
    BY <1>3, <1>4
  <2> QED BY <1>5, <2>1
<1> QED BY <1>2, <1>5, <1>6

\* The entries of one event for a set of grants.
Entries(event, P, a, b) == {Entry(event, g, a[g], b[g]) : g \in P}

LEMMA EntrySums ==
  ASSUME NEW P, P \subseteq Grants, NEW a, NEW b, \A g \in P : a[g] \in Int /\ b[g] \in Int,
         NEW event, NEW N, N = Entries(event, P, a, b)
  PROVE  /\ IsFiniteSet(N)
         /\ \A e \in N : /\ e.event = event /\ e.grant \in P
                         /\ e.available = a[e.grant] /\ e.reserved = b[e.grant]
                         /\ e.available \in Int /\ e.reserved \in Int
         /\ SumFunction([e \in N |-> e.available]) = SumFunctionOnSet(a, P)
         /\ SumFunction([e \in N |-> e.reserved]) = SumFunctionOnSet(b, P)
<1> DEFINE entry == [g \in P |-> Entry(event, g, a[g], b[g])]
           x == [e \in N |-> e.available]
           y == [e \in N |-> e.reserved]
<1>1. IsFiniteSet(P)
  BY BookAssumption, FS_Subset
<1>2. N = {entry[g] : g \in P}
  BY DEF Entries
<1>3. \A g \in P : /\ entry[g].event = event /\ entry[g].grant = g
                   /\ entry[g].available = a[g] /\ entry[g].reserved = b[g]
  BY DEF Entry
<1>4. \A g \in P, h \in P : entry[g] = entry[h] => g = h
  BY <1>3
<1>5. \A e \in N : \E g \in P : e = entry[g]
  BY <1>2
<1> HIDE DEF entry
<1>6. \A e \in N : /\ e.event = event /\ e.grant \in P
                   /\ e.available = a[e.grant] /\ e.reserved = b[e.grant]
                   /\ e.available \in Int /\ e.reserved \in Int
  BY <1>3, <1>5
<1>7. /\ Ints(x, N) /\ Ints(y, N)
      /\ \A g \in P : a[g] = x[entry[g]] /\ b[g] = y[entry[g]]
  BY <1>2, <1>3, <1>6 DEF Ints
<1>8. /\ SumFunction(x) = SumFunctionOnSet(x, N)
      /\ SumFunction(y) = SumFunctionOnSet(y, N)
  BY DEF SumFunction
<1>9. /\ IsFiniteSet(N)
      /\ SumFunctionOnSet(a, P) = SumFunctionOnSet(x, N)
      /\ SumFunctionOnSet(b, P) = SumFunctionOnSet(y, N)
  <2> HIDE DEF x, y
  <2> QED BY <1>1, <1>2, <1>4, <1>7, SumImage
<1> QED BY <1>6, <1>8, <1>9

\* Available and reserved credits of the grants are integers that can be summed.
LEMMA ColumnsSum ==
  ASSUME Columns
  PROVE  /\ Ints([g \in Grants |-> grant[g].available], Grants)
         /\ Ints([g \in Grants |-> grant[g].reserved], Grants)
         /\ SumFunction([g \in Grants |-> grant[g].available])
              = SumFunctionOnSet([g \in Grants |-> grant[g].available], Grants)
         /\ SumFunction([g \in Grants |-> grant[g].reserved])
              = SumFunctionOnSet([g \in Grants |-> grant[g].reserved], Grants)
         /\ SumFunction([g \in Grants |-> grant[g].available]) \in Nat
         /\ SumFunction([g \in Grants |-> grant[g].reserved]) \in Nat
<1> DEFINE a == [g \in Grants |-> grant[g].available]
           b == [g \in Grants |-> grant[g].reserved]
<1>1. \A g \in Grants : a[g] \in Nat /\ b[g] \in Nat
  BY DEF Columns
<1>2. SumFunction(a) = SumFunctionOnSet(a, Grants) /\ SumFunction(b) = SumFunctionOnSet(b, Grants)
  BY DEF SumFunction
<1> HIDE DEF a, b
<1>3. SumFunctionOnSet(a, Grants) \in Nat /\ SumFunctionOnSet(b, Grants) \in Nat
  BY <1>1, BookAssumption, SumNat
<1>4. Ints(a, Grants) /\ Ints(b, Grants)
  BY <1>1 DEF Ints
<1> QED BY <1>2, <1>3, <1>4 DEF a, b

\* What a step adds to the available and the reserved credits of each grant, it
\* adds to their sums.
LEMMA GrantsMove ==
  ASSUME Columns, Columns', BalanceOfGrants, NEW x, NEW y,
         \A g \in Grants : /\ x[g] \in Int /\ y[g] \in Int
                           /\ grant'[g].available = grant[g].available + x[g]
                           /\ grant'[g].reserved = grant[g].reserved + y[g],
         balance'.available = balance.available + SumFunctionOnSet(x, Grants),
         balance'.reserved = balance.reserved + SumFunctionOnSet(y, Grants)
  PROVE  BalanceOfGrants'
<1> DEFINE a == [g \in Grants |-> grant[g].available]
           b == [g \in Grants |-> grant[g].reserved]
           c == [g \in Grants |-> grant'[g].available]
           d == [g \in Grants |-> grant'[g].reserved]
<1>1. Ints(x, Grants) /\ Ints(y, Grants) /\ IsFiniteSet(Grants)
  BY BookAssumption DEF Ints
<1>2. Ints(a, Grants) /\ Ints(b, Grants)
  BY DEF Ints, Columns
<1>3. \A g \in Grants : c[g] = a[g] + x[g] /\ d[g] = b[g] + y[g]
  OBVIOUS
<1>4. /\ SumFunction(a) = SumFunctionOnSet(a, Grants)
      /\ SumFunction(b) = SumFunctionOnSet(b, Grants)
      /\ SumFunction(c) = SumFunctionOnSet(c, Grants)
      /\ SumFunction(d) = SumFunctionOnSet(d, Grants)
  BY DEF SumFunction
<1>5. balance.available = SumFunction(a) /\ balance.reserved = SumFunction(b)
  BY DEF BalanceOfGrants
<1> HIDE DEF a, b, c, d
<1>6. /\ SumFunctionOnSet(c, Grants) = SumFunctionOnSet(a, Grants) + SumFunctionOnSet(x, Grants)
      /\ SumFunctionOnSet(d, Grants) = SumFunctionOnSet(b, Grants) + SumFunctionOnSet(y, Grants)
  BY <1>1, <1>2, <1>3, SumPlus
<1>7. balance'.available = SumFunction(c) /\ balance'.reserved = SumFunction(d)
  BY <1>4, <1>5, <1>6
<1> QED BY <1>7 DEF BalanceOfGrants, c, d

\* What the new entries say is what the balance does.
LEMMA LedgerMoves ==
  ASSUME LedgerRows, LedgerOfBalance, NEW N, IsFiniteSet(N), N \cap ledger = {},
         ledger' = ledger \cup N,
         \A e \in N : e.grant \in Grants /\ e.available \in Int /\ e.reserved \in Int,
         balance'.available = balance.available + SumFunction([e \in N |-> e.available]),
         balance'.reserved = balance.reserved + SumFunction([e \in N |-> e.reserved])
  PROVE  LedgerRows' /\ LedgerOfBalance'
<1>1. /\ LedgerRows'
      /\ SumFunction([e \in ledger' |-> e.available])
           = SumFunction([e \in ledger |-> e.available])
             + SumFunction([e \in N |-> e.available])
      /\ SumFunction([e \in ledger' |-> e.reserved])
           = SumFunction([e \in ledger |-> e.reserved])
             + SumFunction([e \in N |-> e.reserved])
  BY LedgerGrows
<1>2. /\ balance.available = SumFunction([e \in ledger |-> e.available])
      /\ balance.reserved = SumFunction([e \in ledger |-> e.reserved])
  BY DEF LedgerOfBalance
<1>3. /\ balance'.available = SumFunction([e \in ledger' |-> e.available])
      /\ balance'.reserved = SumFunction([e \in ledger' |-> e.reserved])
  BY <1>1, <1>2
<1> QED BY <1>1, <1>3 DEF LedgerOfBalance

\* The quotes of a run's items with this status; ReservationsAddUp of one run.
PartOf(r, status) == SumFunctionOnSet(Quote, {j \in JobsOf[r] : item[j] = status})
RunAddsUp(r) ==
  /\ reservation[r].reserved = PartOf(r, "reserved")
  /\ reservation[r].captured = PartOf(r, "captured")
  /\ reservation[r].released = PartOf(r, "released")
  /\ reservation[r].status \in Outcome => PartOf(r, reservation[r].status) = RunQuote[r]
  /\ reservation[r].status # "none" /\ reservation[r].reserved = 0 =>
       reservation[r].cost = reservation[r].captured
  /\ reservation[r].status # "none" => PartOf(r, "none") = 0

LEMMA AddUpByRun ==
  /\ ReservationsAddUp <=> \A r \in Runs : RunAddsUp(r)
  /\ ReservationsAddUp' <=> \A r \in Runs : RunAddsUp(r)'
<1>1. ReservationsAddUp <=> \A r \in Runs : RunAddsUp(r)
  BY DEF ReservationsAddUp, RunAddsUp, PartOf
<1>2. ReservationsAddUp' <=> \A r \in Runs : RunAddsUp(r)'
  BY DEF ReservationsAddUp, RunAddsUp, PartOf
<1> QED BY <1>1, <1>2

\* A run whose row and items do not move still adds up.
LEMMA RunStays ==
  ASSUME NEW r \in Runs, RunAddsUp(r), reservation'[r] = reservation[r],
         \A j \in JobsOf[r] : item'[j] = item[j]
  PROVE  RunAddsUp(r)'
<1>1. ASSUME NEW status PROVE PartOf(r, status)' = PartOf(r, status)
  <2>1. {j \in JobsOf[r] : item'[j] = status} = {j \in JobsOf[r] : item[j] = status}
    OBVIOUS
  <2> QED BY <2>1 DEF PartOf
<1>2. /\ PartOf(r, "reserved")' = PartOf(r, "reserved")
      /\ PartOf(r, "captured")' = PartOf(r, "captured")
      /\ PartOf(r, "released")' = PartOf(r, "released")
      /\ PartOf(r, "none")' = PartOf(r, "none")
  BY <1>1
<1> QED BY <1>2 DEF RunAddsUp, Outcome

\* When only grants, balance and ledger move, the rest of the books stays.
LEMMA RestKept ==
  ASSUME Books, UNCHANGED <<reservation, item, draw, storage, hold>>,
         account' \in [status : {"active", "blocked_review"}, reason : Reason],
         \A g \in Grants : grant'[g].reserved = grant[g].reserved
  PROVE  /\ DrawsQuoted' /\ HeldByItems' /\ RunRows' /\ ReservationsAddUp'
         /\ StorageHeld' /\ AccountTyped'
<1>1. OpenItems' = OpenItems
  BY DEF OpenItems
<1>2. HeldByItems'
  BY <1>1 DEF Books, HeldByItems
<1>3. DrawsQuoted' /\ RunRows' /\ StorageHeld' /\ AccountTyped'
  BY DEF Books, DrawsQuoted, RunRows, StorageHeld, AccountTyped
<1>4. ReservationsAddUp'
  BY AddUpByRun, RunStays DEF Books
<1> QED BY <1>2, <1>3, <1>4

LEMMA InitBooks == ASSUME Init PROVE Books
<1>1. BookInv
  BY InitBook
<1>2. IsInjective(issued)
  BY DEF Init, IsInjective
<1>3. /\ Columns /\ DrawsQuoted /\ LedgerEvents /\ RunRows
      /\ AccountTyped
  <2>1. Columns
    BY DEF Init, Columns, NoGrant
  <2>2. DrawsQuoted
    BY DEF Init, DrawsQuoted
  <2>3. LedgerEvents
    BY DEF Init, LedgerEvents
  <2>4. RunRows
    <3>1. \A r \in Runs : reservation[r] = NoReservation
      BY DEF Init
    <3> QED BY <3>1 DEF RunRows, NoReservation
  <2>5. AccountTyped
    BY DEF Init, AccountTyped, Reason
  <2> QED BY <2>1, <2>2, <2>3, <2>4, <2>5
<1>4. OpenItems = {}
  BY DEF Init, OpenItems
<1>5. HeldByItems
  <2> SUFFICES ASSUME NEW g \in Grants
               PROVE grant[g].reserved = SumFunctionOnSet([j \in Jobs |-> draw[j][g]], OpenItems)
    BY DEF HeldByItems
  <2>1. SumFunctionOnSet([j \in Jobs |-> draw[j][g]], {}) = 0
    BY SumEmpty
  <2>2. grant[g].reserved = 0
    BY DEF Init, NoGrant
  <2> QED BY <1>4, <2>1, <2>2
<1>6. BalanceOfGrants
  <2> DEFINE a == [g \in Grants |-> grant[g].available]
             b == [g \in Grants |-> grant[g].reserved]
  <2>1. \A g \in Grants : a[g] = 0 /\ b[g] = 0
    BY DEF Init, NoGrant
  <2>2. /\ SumFunction(a) = SumFunctionOnSet(a, Grants)
        /\ SumFunction(b) = SumFunctionOnSet(b, Grants)
    BY DEF SumFunction
  <2> HIDE DEF a, b
  <2>3. SumFunctionOnSet(a, Grants) = 0 /\ SumFunctionOnSet(b, Grants) = 0
    BY <2>1, BookAssumption, SumZero
  <2>4. balance.available = 0 /\ balance.reserved = 0
    BY DEF Init
  <2> QED BY <2>2, <2>3, <2>4 DEF BalanceOfGrants, a, b
<1>7. LedgerRows /\ LedgerOfBalance
  <2>1. ledger = {}
    BY DEF Init
  <2>2. /\ SumFunction([e \in {} |-> e.available]) = SumFunctionOnSet([e \in {} |-> e.available], {})
        /\ SumFunction([e \in {} |-> e.reserved]) = SumFunctionOnSet([e \in {} |-> e.reserved], {})
    BY DEF SumFunction
  <2>3. /\ SumFunction([e \in {} |-> e.available]) = 0
        /\ SumFunction([e \in {} |-> e.reserved]) = 0
    BY <2>2, SumEmpty
  <2>4. balance.available = 0 /\ balance.reserved = 0
    BY DEF Init
  <2> QED BY <2>1, <2>3, <2>4, FS_EmptySet DEF LedgerRows, LedgerOfBalance
<1>8. StorageHeld
  <2>1. \A j \in Jobs : hold[j] = 0
    BY DEF Init
  <2>2. SumFunctionOnSet(hold, Jobs) = 0
    BY <2>1, BookAssumption, SumZero
  <2> QED BY <2>2 DEF Init, StorageHeld
<1>9. ReservationsAddUp
  <2> SUFFICES ASSUME NEW r \in Runs
               PROVE LET of(status) == SumFunctionOnSet(Quote, {j \in JobsOf[r] : item[j] = status})
                         res == reservation[r]
                     IN /\ res.reserved = of("reserved")
                        /\ res.captured = of("captured") /\ res.released = of("released")
                        /\ res.status \in Outcome => of(res.status) = RunQuote[r]
                        /\ res.status # "none" /\ res.reserved = 0 => res.cost = res.captured
                        /\ res.status # "none" => of("none") = 0
    BY DEF ReservationsAddUp
  <2>1. reservation[r] = NoReservation
    BY DEF Init
  <2>2. \A j \in JobsOf[r] : item[j] = "none"
    BY PlanFacts DEF Init
  <2>3. /\ {j \in JobsOf[r] : item[j] = "reserved"} = {}
        /\ {j \in JobsOf[r] : item[j] = "captured"} = {}
        /\ {j \in JobsOf[r] : item[j] = "released"} = {}
    BY <2>2
  <2>4. SumFunctionOnSet(Quote, {}) = 0
    BY SumEmpty
  <2> QED BY <2>1, <2>3, <2>4 DEF NoReservation, Outcome
<1> QED BY <1>1, <1>2, <1>3, <1>5, <1>6, <1>7, <1>8, <1>9 DEF Books
\* Which entries are recorded decides what an event may still do.
LEMMA EventsKept ==
  ASSUME LedgerRows, LedgerEvents, NEW N, ledger' = ledger \cup N,
         Issued \subseteq Issued',
         \A j \in Jobs : item[j] # "none" => item'[j] # "none",
         \A j \in Jobs : item[j] \in Outcome => item'[j] = item[j],
         \A e \in N : /\ e.event = <<"grant">> => e.grant \in Issued'
                      /\ \A j \in Jobs : e.event = <<"reserve", j>> => item'[j] # "none"
                      /\ \A j \in Jobs, o \in Outcome : e.event = <<o, j>> => item'[j] = o
  PROVE  LedgerEvents'
<1> SUFFICES ASSUME NEW e \in ledger'
             PROVE /\ e.event = <<"grant">> => e.grant \in Issued'
                   /\ \A j \in Jobs : e.event = <<"reserve", j>> => item'[j] # "none"
                   /\ \A j \in Jobs, o \in Outcome : e.event = <<o, j>> => item'[j] = o
  BY DEF LedgerEvents
<1>1. CASE e \in N
  BY <1>1
<1>2. CASE e \in ledger
  BY <1>2 DEF LedgerEvents
<1> QED BY <1>1, <1>2

\* appendCreditGrant: grants, balance and ledger grow by the same credits.
LEMMA IssueBooks ==
  ASSUME Books, NEW G, Issue(G), IsInjective(issued)',
         account' \in [status : {"active", "blocked_review"}, reason : Reason]
  PROVE  Books'
<1> DEFINE zero == [g \in Grants |-> 0]
           added == [g \in Grants |-> IF g \in G THEN Amount[g] ELSE 0]
           N == {Entry(<<"grant">>, g, Amount[g], 0) : g \in G}
<1>1. BookInv'
  BY IssueBook DEF Books
<1>2. /\ G \subseteq Grants /\ G \cap Issued = {} /\ Issued' = Issued \cup G
      /\ grant' = [g \in Grants |->
           IF g \in G THEN [grant[g] EXCEPT !.available = Amount[g]] ELSE grant[g]]
      /\ ledger' = ledger \cup N
      /\ balance' = [balance EXCEPT !.available = @ + SumFunctionOnSet(Amount, G)]
      /\ UNCHANGED <<reservation, item, draw, storage, hold, settler>>
  BY DEF Issue
<1>3. IsFiniteSet(G) /\ \A g \in Grants : Amount[g] \in Nat
  BY <1>2, BookAssumption, FS_Subset
<1>4. \A g \in Grants : /\ grant'[g].available = grant[g].available + added[g]
                        /\ grant'[g].reserved = grant[g].reserved + 0
                        /\ grant'[g].captured = grant[g].captured
                        /\ grant'[g].reversed = grant[g].reversed
                        /\ grant[g].available \in Nat /\ grant[g].reserved \in Nat
                        /\ grant[g].captured \in Nat /\ grant[g].reversed \in Nat
  <2> SUFFICES ASSUME NEW g \in Grants
               PROVE  /\ grant'[g].available = grant[g].available + added[g]
                      /\ grant'[g].reserved = grant[g].reserved + 0
                      /\ grant'[g].captured = grant[g].captured
                      /\ grant'[g].reversed = grant[g].reversed
                      /\ grant[g].available \in Nat /\ grant[g].reserved \in Nat
                      /\ grant[g].captured \in Nat /\ grant[g].reversed \in Nat
    OBVIOUS
  <2>1. /\ grant[g] \in GrantRow
        /\ grant[g].available \in Nat /\ grant[g].reserved \in Nat
        /\ grant[g].captured \in Nat /\ grant[g].reversed \in Nat
    BY DEF Books, Columns, BookInv, RowsTyped
  <2>2. CASE g \in G
    <3>1. grant[g].available = 0
      BY <1>2, <2>2 DEF Books, BookInv, UnissuedUntouched, Untouched
    <3>2. grant'[g] = [grant[g] EXCEPT !.available = Amount[g]]
      BY <1>2, <2>2
    <3>3. /\ grant'[g].available = Amount[g]
          /\ grant'[g].reserved = grant[g].reserved
          /\ grant'[g].captured = grant[g].captured
          /\ grant'[g].reversed = grant[g].reversed
      BY <2>1, <3>2 DEF GrantRow
    <3> QED BY <1>3, <2>1, <2>2, <3>1, <3>3
  <2>3. CASE g \notin G
    BY <1>2, <2>1, <2>3
  <2> QED BY <2>2, <2>3
<1>5. Columns'
  BY <1>3, <1>4 DEF Columns
<1>6. /\ SumFunctionOnSet(added, Grants) = SumFunctionOnSet(Amount, G)
      /\ SumFunctionOnSet(zero, Grants) = 0
      /\ \A g \in Grants : added[g] \in Int /\ zero[g] = 0
  <2>1. \A g \in Grants : added[g] \in Nat /\ zero[g] = 0
    BY <1>3
  <2>2. \A g \in G : added[g] = Amount[g]
    BY <1>2
  <2>3. \A g \in Grants \ G : added[g] = 0
    OBVIOUS
  <2> HIDE DEF added, zero
  <2>4. Ints(added, Grants) /\ \A g \in Grants : added[g] \in Int
    BY <2>1 DEF Ints
  <2>5. SumFunctionOnSet(added, Grants) = SumFunctionOnSet(added, G)
    BY <1>2, <2>3, <2>4, BookAssumption, SumSupport
  <2>6. SumFunctionOnSet(added, G) = SumFunctionOnSet(Amount, G)
    BY <1>3, <2>2, SumEqual
  <2>7. SumFunctionOnSet(zero, Grants) = 0
    BY <2>1, BookAssumption, SumZero
  <2> QED BY <2>1, <2>4, <2>5, <2>6, <2>7
<1>7. /\ balance'.available = balance.available + SumFunctionOnSet(Amount, G)
      /\ balance'.reserved = balance.reserved /\ balance.reserved \in Nat
  <2>1. /\ balance = [available |-> balance.available, reserved |-> balance.reserved]
        /\ balance.reserved \in Nat
    BY ColumnsSum DEF Books, BookInv, RowsTyped, BalanceOfGrants
  <2> QED BY <1>2, <2>1
<1>8. BalanceOfGrants'
  <2> HIDE DEF added, zero
  <2>1. \A g \in Grants : /\ added[g] \in Int /\ zero[g] \in Int
                          /\ grant'[g].available = grant[g].available + added[g]
                          /\ grant'[g].reserved = grant[g].reserved + zero[g]
    BY <1>4, <1>6
  <2>2. /\ balance'.available = balance.available + SumFunctionOnSet(added, Grants)
        /\ balance'.reserved = balance.reserved + SumFunctionOnSet(zero, Grants)
    BY <1>6, <1>7
  <2> QED BY <1>5, <2>1, <2>2, GrantsMove DEF Books
<1>9. /\ IsFiniteSet(N)
      /\ \A e \in N : /\ e.event = <<"grant">> /\ e.grant \in G
                      /\ e.available \in Int /\ e.reserved \in Int
      /\ SumFunction([e \in N |-> e.available]) = SumFunctionOnSet(Amount, G)
      /\ SumFunction([e \in N |-> e.reserved]) = 0
  <2>1. N = Entries(<<"grant">>, G, Amount, zero)
    BY <1>2 DEF Entries
  <2>2. \A g \in G : Amount[g] \in Int /\ zero[g] \in Int /\ zero[g] = 0
    BY <1>2, <1>3
  <2>3. SumFunctionOnSet(zero, G) = 0
    <3> HIDE DEF zero
    <3> QED BY <1>3, <2>2, SumZero
  <2> HIDE DEF N, zero
  <2>4. /\ IsFiniteSet(N)
        /\ \A e \in N : /\ e.event = <<"grant">> /\ e.grant \in G
                        /\ e.available \in Int /\ e.reserved \in Int
        /\ SumFunction([e \in N |-> e.available]) = SumFunctionOnSet(Amount, G)
        /\ SumFunction([e \in N |-> e.reserved]) = SumFunctionOnSet(zero, G)
    BY <1>2, <2>1, <2>2, EntrySums
  <2> QED BY <2>3, <2>4
<1> HIDE DEF N
<1>10. N \cap ledger = {}
  BY <1>2, <1>9 DEF Books, LedgerEvents
<1>11. LedgerRows' /\ LedgerOfBalance'
  <2>1. \A e \in N : e.grant \in Grants /\ e.available \in Int /\ e.reserved \in Int
    BY <1>2, <1>9
  <2>2. /\ balance'.available = balance.available + SumFunction([e \in N |-> e.available])
        /\ balance'.reserved = balance.reserved + SumFunction([e \in N |-> e.reserved])
    BY <1>7, <1>9
  <2> QED BY <1>2, <1>9, <1>10, <2>1, <2>2, LedgerMoves DEF Books
<1>12. LedgerEvents'
  <2>1. \A e \in N : e.event = <<"grant">> /\ e.grant \in Issued'
    BY <1>2, <1>9
  <2>2. <<"grant">> # <<"grant", 1>> /\ Len(<<"grant">>) = 1
    OBVIOUS
  <2>3. \A j \in Jobs : <<"grant">> # <<"reserve", j>>
    OBVIOUS
  <2>4. \A j \in Jobs, o \in Outcome : <<"grant">> # <<o, j>>
    OBVIOUS
  <2> QED BY <1>2, <2>1, <2>3, <2>4, EventsKept DEF Books
<1>13. /\ DrawsQuoted' /\ HeldByItems' /\ RunRows' /\ ReservationsAddUp'
       /\ StorageHeld' /\ AccountTyped'
  <2>1. \A g \in Grants : grant'[g].reserved = grant[g].reserved
    BY <1>4
  <2> QED BY <1>2, <2>1, RestKept
<1> QED BY <1>1, <1>5, <1>8, <1>11, <1>12, <1>13 DEF Books
\* An event that is neither a grant nor about a job.
Foreign(event) ==
  /\ event # <<"grant">> /\ \A j \in Jobs : event # <<"reserve", j>>
  /\ \A j \in Jobs, o \in Outcome : event # <<o, j>>

\* A step that moves available credits, by x, between a grant and what is reversed.
Nothing == [g \in Grants |-> 0]
MovedBy(x) ==
  \A g \in Grants : /\ x[g] \in Int
                    /\ grant'[g].available = grant[g].available + x[g]
                    /\ grant'[g].reserved = grant[g].reserved
                    /\ grant'[g].captured = grant[g].captured
                    /\ grant'[g].available \in Nat /\ grant'[g].reversed \in Nat

\* A foreign event moves available credits of the grants G, by x; every entry it
\* makes is new.
LEMMA ForeignBooks ==
  ASSUME Books, BookInv', NEW event, Foreign(event), NEW G, G \subseteq Grants,
         NEW P, P \subseteq G, NEW x, MovedBy(x),
         \A g \in G : ~Recorded(event, g),
         \A g \in Grants \ P : x[g] = 0,
         ledger' = ledger \cup Entries(event, P, x, Nothing),
         balance' = [balance EXCEPT !.available = @ + SumFunctionOnSet(x, Grants)],
         account' \in [status : {"active", "blocked_review"}, reason : Reason],
         UNCHANGED <<issued, reservation, item, draw, storage, hold>>
  PROVE  Books'
<1> DEFINE N == Entries(event, P, x, Nothing)
<1>1. /\ P \subseteq Grants /\ IsFiniteSet(P) /\ IsFiniteSet(Grants)
      /\ Ints(x, Grants) /\ \A g \in P : x[g] \in Int /\ Nothing[g] \in Int
      /\ \A g \in Grants : x[g] \in Int /\ Nothing[g] = 0
      /\ \A g \in Grants : grant'[g].reserved = grant[g].reserved
  BY BookAssumption, FS_Subset DEF Ints, MovedBy, Nothing
<1>2. /\ SumFunctionOnSet(x, Grants) = SumFunctionOnSet(x, P)
      /\ SumFunctionOnSet(Nothing, P) = 0 /\ SumFunctionOnSet(Nothing, Grants) = 0
  <2>1. SumFunctionOnSet(x, Grants) = SumFunctionOnSet(x, P)
    BY <1>1, SumSupport
  <2>2. SumFunctionOnSet(Nothing, P) = 0
    BY <1>1, SumZero
  <2>3. SumFunctionOnSet(Nothing, Grants) = 0
    BY <1>1, SumZero
  <2> QED BY <2>1, <2>2, <2>3
<1>3. /\ IsFiniteSet(N)
      /\ \A e \in N : /\ e.event = event /\ e.grant \in P
                      /\ e.available \in Int /\ e.reserved \in Int
      /\ SumFunction([e \in N |-> e.available]) = SumFunctionOnSet(x, P)
      /\ SumFunction([e \in N |-> e.reserved]) = SumFunctionOnSet(Nothing, P)
  <2>1. N = Entries(event, P, x, Nothing)
    OBVIOUS
  <2> HIDE DEF N
  <2> QED BY <1>1, <2>1, EntrySums
<1>4. ledger' = ledger \cup N
  OBVIOUS
<1> HIDE DEF N
<1>5. N \cap ledger = {}
  BY <1>3 DEF Recorded
<1>6. /\ balance'.available = balance.available + SumFunctionOnSet(x, Grants)
      /\ balance'.reserved = balance.reserved + SumFunctionOnSet(Nothing, Grants)
  <2>1. /\ balance = [available |-> balance.available, reserved |-> balance.reserved]
        /\ balance.reserved \in Nat
    BY ColumnsSum DEF Books, BookInv, RowsTyped, BalanceOfGrants
  <2> QED BY <1>2, <2>1
<1>7. Columns'
  BY DEF Books, Columns, MovedBy
<1>8. BalanceOfGrants'
  <2>1. \A g \in Grants : /\ x[g] \in Int /\ Nothing[g] \in Int
                          /\ grant'[g].available = grant[g].available + x[g]
                          /\ grant'[g].reserved = grant[g].reserved + Nothing[g]
    BY <1>1 DEF Books, Columns, MovedBy
  <2> QED BY <1>6, <1>7, <2>1, GrantsMove DEF Books
<1>9. LedgerRows' /\ LedgerOfBalance'
  <2>1. \A e \in N : e.grant \in Grants /\ e.available \in Int /\ e.reserved \in Int
    BY <1>1, <1>3
  <2>2. /\ balance'.available = balance.available + SumFunction([e \in N |-> e.available])
        /\ balance'.reserved = balance.reserved + SumFunction([e \in N |-> e.reserved])
    BY <1>2, <1>3, <1>6
  <2> QED BY <1>3, <1>4, <1>5, <2>1, <2>2, LedgerMoves DEF Books
<1>10. Issued' = Issued
  BY DEF Issued
<1>11. LedgerEvents'
  BY <1>3, <1>4, <1>10, EventsKept DEF Books, Foreign
<1>12. /\ DrawsQuoted' /\ HeldByItems' /\ RunRows' /\ ReservationsAddUp'
       /\ StorageHeld' /\ AccountTyped'
  <2>1. UNCHANGED <<reservation, item, draw, storage, hold>>
    OBVIOUS
  <2> QED BY <1>1, <2>1, RestKept
<1>13. IsInjective(issued)'
  BY DEF Books
<1> QED BY <1>7, <1>8, <1>9, <1>11, <1>12, <1>13 DEF Books

\* reverseUnusedCreditGrant: what the grants had available leaves the balance.
LEMMA ReverseBooks ==
  ASSUME Books, NEW G, G \subseteq Grants, NEW event, Foreign(event),
         ReverseUnused(G, event),
         account' \in [status : {"active", "blocked_review"}, reason : Reason]
  PROVE  Books'
<1> DEFINE R == Reversible(G, event)
           P == {g \in R : grant[g].available > 0}
           x == [g \in Grants |-> IF g \in R THEN -grant[g].available ELSE 0]
           gone == [g \in R |-> grant[g].available]
<1>1. /\ grant' = [g \in Grants |->
           IF g \in R THEN [grant[g] EXCEPT !.available = 0, !.reversed = @ + grant[g].available]
                      ELSE grant[g]]
      /\ ledger' = ledger \cup {Entry(event, g, -grant[g].available, 0) : g \in P}
      /\ balance' = [balance EXCEPT !.available = @ - SumFunction(gone)]
      /\ UNCHANGED <<issued, reservation, item, draw, storage, hold>>
  BY DEF ReverseUnused
<1>2. BookInv'
  BY ReverseBook DEF Books
<1>3. R \subseteq Grants /\ P \subseteq R /\ IsFiniteSet(R) /\ \A g \in R : ~Recorded(event, g)
  <2>1. R \subseteq Grants /\ P \subseteq R /\ \A g \in R : ~Recorded(event, g)
    BY DEF Reversible
  <2> QED BY <2>1, BookAssumption, FS_Subset
<1>4. \A g \in Grants : /\ grant[g] \in GrantRow
                        /\ grant[g].available \in Nat /\ grant[g].reversed \in Nat
  BY DEF Books, Columns, BookInv, RowsTyped
<1> HIDE DEF R
<1>5. \A g \in Grants : /\ x[g] \in Int
                        /\ grant'[g].available = grant[g].available + x[g]
                        /\ grant'[g].reserved = grant[g].reserved
                        /\ grant'[g].captured = grant[g].captured
                        /\ grant'[g].available \in Nat /\ grant'[g].reversed \in Nat
  <2> SUFFICES ASSUME NEW g \in Grants
               PROVE  /\ x[g] \in Int
                      /\ grant'[g].available = grant[g].available + x[g]
                      /\ grant'[g].reserved = grant[g].reserved
                      /\ grant'[g].captured = grant[g].captured
                      /\ grant'[g].available \in Nat /\ grant'[g].reversed \in Nat
    OBVIOUS
  <2>1. CASE g \in R
    <3>1. grant'[g] = [grant[g] EXCEPT !.available = 0, !.reversed = @ + grant[g].available]
      BY <1>1, <2>1
    <3>2. /\ grant'[g].available = 0 /\ grant'[g].reserved = grant[g].reserved
          /\ grant'[g].captured = grant[g].captured
          /\ grant'[g].reversed = grant[g].reversed + grant[g].available
      BY <1>4, <3>1 DEF GrantRow
    <3> QED BY <1>4, <2>1, <3>2
  <2>2. CASE g \notin R
    <3>1. grant'[g] = grant[g] /\ x[g] = 0
      BY <1>1, <2>2
    <3> HIDE DEF x
    <3> QED BY <1>4, <3>1
  <2> QED BY <2>1, <2>2
<1>6. \A g \in Grants \ P : x[g] = 0
  BY <1>4
<1>7. ledger' = ledger \cup Entries(event, P, x, Nothing)
  <2>1. \A g \in P : Entry(event, g, x[g], Nothing[g]) = Entry(event, g, -grant[g].available, 0)
    BY <1>3 DEF Nothing
  <2> QED BY <1>1, <2>1 DEF Entries
<1>8. balance' = [balance EXCEPT !.available = @ + SumFunctionOnSet(x, Grants)]
  <2>1. SumFunction(gone) = SumFunctionOnSet(gone, R)
    BY DEF SumFunction
  <2>2. \A g \in R : gone[g] \in Nat /\ x[g] = 0 - gone[g] /\ Nothing[g] = 0
    BY <1>3, <1>4 DEF Nothing
  <2>3. \A g \in Grants \ R : x[g] = 0
    OBVIOUS
  <2> HIDE DEF gone, x, Nothing
  <2>4. Ints(gone, R) /\ Ints(Nothing, R) /\ Ints(x, Grants)
    BY <1>5, <2>2 DEF Ints
  <2>5. \A g \in R : x[g] = Nothing[g] - gone[g]
    BY <2>2
  <2>6. SumFunctionOnSet(x, R) = SumFunctionOnSet(Nothing, R) - SumFunctionOnSet(gone, R)
    BY <1>3, <2>4, <2>5, SumMinus
  <2>7. SumFunctionOnSet(Nothing, R) = 0
    BY <1>3, <2>2, SumZero
  <2>8. SumFunctionOnSet(x, Grants) = SumFunctionOnSet(x, R)
    BY <1>3, <2>3, <2>4, BookAssumption, SumSupport
  <2>9. SumFunctionOnSet(gone, R) \in Nat /\ balance.available \in Nat
    BY <1>3, <2>2, SumNat, ColumnsSum DEF Books, BalanceOfGrants
  <2>10. balance.available - SumFunction(gone) = balance.available + SumFunctionOnSet(x, Grants)
    BY <2>1, <2>6, <2>7, <2>8, <2>9
  <2> QED BY <1>1, <2>10
<1> HIDE DEF x, P, gone
<1>9. MovedBy(x)
  BY <1>5 DEF MovedBy
<1>10. UNCHANGED <<issued, reservation, item, draw, storage, hold>>
  BY <1>1
<1> QED BY <1>2, <1>3, <1>6, <1>7, <1>8, <1>9, <1>10, ForeignBooks

\* reinstateReversedCreditGrant: what comes back was reversed, and the entry is
\* written even when it is nothing.
LEMMA ReinstateBooks ==
  ASSUME Books, NEW credits, DOMAIN credits \subseteq Grants,
         \A g \in DOMAIN credits : credits[g] \in Nat, NEW event, Foreign(event),
         Reinstate(credits, event),
         account' \in [status : {"active", "blocked_review"}, reason : Reason]
  PROVE  Books'
<1> DEFINE R == Reversible(DOMAIN credits, event)
           x == [g \in Grants |-> IF g \in R THEN credits[g] ELSE 0]
           given == [g \in R |-> credits[g]]
<1>1. /\ \A g \in R : grant[g].reversed >= credits[g]
      /\ grant' = [g \in Grants |->
           IF g \in R THEN [grant[g] EXCEPT !.available = @ + credits[g],
                                            !.reversed = @ - credits[g]]
                      ELSE grant[g]]
      /\ ledger' = ledger \cup {Entry(event, g, credits[g], 0) : g \in R}
      /\ balance' = [balance EXCEPT !.available = @ + SumFunction(given)]
      /\ UNCHANGED <<issued, reservation, item, draw, storage, hold>>
  BY DEF Reinstate
<1>2. BookInv'
  BY ReinstateBook DEF Books
<1>3. /\ R \subseteq Grants /\ IsFiniteSet(R) /\ \A g \in R : ~Recorded(event, g)
      /\ \A g \in R : credits[g] \in Nat
  <2>1. /\ R \subseteq Grants /\ \A g \in R : ~Recorded(event, g)
        /\ \A g \in R : credits[g] \in Nat
    BY DEF Reversible
  <2> QED BY <2>1, BookAssumption, FS_Subset
<1>4. \A g \in Grants : /\ grant[g] \in GrantRow
                        /\ grant[g].available \in Nat /\ grant[g].reversed \in Nat
  BY DEF Books, Columns, BookInv, RowsTyped
<1> HIDE DEF R
<1>5. \A g \in Grants : /\ x[g] \in Int
                        /\ grant'[g].available = grant[g].available + x[g]
                        /\ grant'[g].reserved = grant[g].reserved
                        /\ grant'[g].captured = grant[g].captured
                        /\ grant'[g].available \in Nat /\ grant'[g].reversed \in Nat
  <2> SUFFICES ASSUME NEW g \in Grants
               PROVE  /\ x[g] \in Int
                      /\ grant'[g].available = grant[g].available + x[g]
                      /\ grant'[g].reserved = grant[g].reserved
                      /\ grant'[g].captured = grant[g].captured
                      /\ grant'[g].available \in Nat /\ grant'[g].reversed \in Nat
    OBVIOUS
  <2>1. CASE g \in R
    <3>1. grant'[g] = [grant[g] EXCEPT !.available = @ + credits[g],
                                      !.reversed = @ - credits[g]]
      BY <1>1, <2>1
    <3>2. /\ grant'[g].available = grant[g].available + credits[g]
          /\ grant'[g].reserved = grant[g].reserved
          /\ grant'[g].captured = grant[g].captured
          /\ grant'[g].reversed = grant[g].reversed - credits[g]
      BY <1>4, <3>1 DEF GrantRow
    <3>3. credits[g] \in Nat /\ grant[g].reversed >= credits[g] /\ x[g] = credits[g]
      BY <1>1, <1>3, <2>1
    <3> HIDE DEF x
    <3> QED BY <1>4, <2>1, <3>2, <3>3
  <2>2. CASE g \notin R
    <3>1. grant'[g] = grant[g] /\ x[g] = 0
      BY <1>1, <2>2
    <3> HIDE DEF x
    <3> QED BY <1>4, <3>1
  <2> QED BY <2>1, <2>2
<1>6. \A g \in Grants \ R : x[g] = 0
  OBVIOUS
<1>7. ledger' = ledger \cup Entries(event, R, x, Nothing)
  <2>1. \A g \in R : Entry(event, g, x[g], Nothing[g]) = Entry(event, g, credits[g], 0)
    BY <1>3 DEF Nothing
  <2> QED BY <1>1, <2>1 DEF Entries
<1>8. balance' = [balance EXCEPT !.available = @ + SumFunctionOnSet(x, Grants)]
  <2>1. SumFunction(given) = SumFunctionOnSet(given, R)
    BY DEF SumFunction
  <2>2. \A g \in R : given[g] = x[g]
    BY <1>3
  <2> HIDE DEF given, x
  <2>3. Ints(x, Grants)
    BY <1>5 DEF Ints
  <2>4. SumFunctionOnSet(given, R) = SumFunctionOnSet(x, R)
    BY <1>3, <2>2, SumEqual
  <2>5. SumFunctionOnSet(x, Grants) = SumFunctionOnSet(x, R)
    BY <1>3, <1>6, <2>3, BookAssumption, SumSupport
  <2> QED BY <1>1, <2>1, <2>4, <2>5
<1> HIDE DEF x, given
<1>9. MovedBy(x)
  BY <1>5 DEF MovedBy
<1>10. UNCHANGED <<issued, reservation, item, draw, storage, hold>>
  BY <1>1
<1> QED BY <1>2, <1>3, <1>6, <1>7, <1>8, <1>9, <1>10, ForeignBooks
\* Closing an item moves its quote from the open part of the run to another.
LEMMA PartMoves ==
  ASSUME item \in [Jobs -> {"none", "reserved"} \cup Outcome],
         NEW r \in Runs, NEW j \in JobsOf[r], item[j] = "reserved", NEW o \in Outcome,
         item' = [item EXCEPT ![j] = o]
  PROVE  /\ PartOf(r, "reserved")' = PartOf(r, "reserved") - Quote[j]
         /\ PartOf(r, o)' = PartOf(r, o) + Quote[j]
         /\ \A p \in Outcome \ {o} : PartOf(r, p)' = PartOf(r, p)
         /\ PartOf(r, "none")' = PartOf(r, "none")
         /\ PartOf(r, "reserved") \in Nat /\ PartOf(r, "none") \in Nat
         /\ \A p \in Outcome : PartOf(r, p) \in Nat
<1> DEFINE with(s) == {k \in JobsOf[r] : item[k] = s}
           next(s) == {k \in JobsOf[r] : item'[k] = s}
<1>1. /\ j \in Jobs /\ JobsOf[r] \subseteq Jobs /\ IsFiniteSet(JobsOf[r])
      /\ \A k \in JobsOf[r] : Quote[k] \in Nat
  BY PlanFacts
<1>2. \A k \in JobsOf[r] : item'[k] = IF k = j THEN o ELSE item[k]
  BY <1>1
<1>3. \A s : /\ with(s) \subseteq JobsOf[r] /\ next(s) \subseteq JobsOf[r]
             /\ PartOf(r, s) = SumFunctionOnSet(Quote, with(s))
             /\ PartOf(r, s)' = SumFunctionOnSet(Quote, next(s))
  BY DEF PartOf
<1>4. /\ next("reserved") = with("reserved") \ {j} /\ j \in with("reserved")
      /\ next(o) = with(o) \cup {j} /\ j \notin with(o)
      /\ \A p \in Outcome \ {o} : next(p) = with(p)
      /\ next("none") = with("none")
  BY <1>2 DEF Outcome
<1> HIDE DEF with, next
<1>5. \A s : /\ IsFiniteSet(with(s)) /\ Ints(Quote, with(s)) /\ Ints(Quote, with(s) \cup {j})
             /\ \A k \in with(s) : Quote[k] \in Nat
  BY <1>1, <1>3, FS_Subset DEF Ints
<1>6. \A s : SumFunctionOnSet(Quote, with(s)) \in Nat
  BY <1>5, SumNat
<1>7. SumFunctionOnSet(Quote, with("reserved"))
        = Quote[j] + SumFunctionOnSet(Quote, next("reserved"))
  <2> DEFINE S == with("reserved")
  <2>1. /\ IsFiniteSet(S) /\ Ints(Quote, S) /\ j \in S /\ next("reserved") = S \ {j}
    BY <1>4, <1>5
  <2> HIDE DEF S
  <2>2. SumFunctionOnSet(Quote, S) = Quote[j] + SumFunctionOnSet(Quote, S \ {j})
    BY <2>1, SumRemove
  <2> QED BY <2>1, <2>2 DEF S
<1>8. SumFunctionOnSet(Quote, next(o)) = Quote[j] + SumFunctionOnSet(Quote, with(o))
  BY <1>4, <1>5, SumAdd
<1>9. IsFiniteSet(next("reserved")) /\ \A k \in next("reserved") : Quote[k] \in Nat
  BY <1>1, <1>3, FS_Subset
<1>10. SumFunctionOnSet(Quote, next("reserved")) \in Nat
  BY <1>9, SumNat
<1> DEFINE u == SumFunctionOnSet(Quote, with("reserved"))
           v == SumFunctionOnSet(Quote, next("reserved"))
           w == SumFunctionOnSet(Quote, with(o))
           z == SumFunctionOnSet(Quote, next(o))
           q == Quote[j]
<1>11. u \in Nat /\ v \in Nat /\ w \in Nat /\ q \in Nat /\ u = q + v /\ z = q + w
  BY <1>1, <1>6, <1>7, <1>8, <1>10
<1>12. /\ PartOf(r, "reserved") = u /\ PartOf(r, "reserved")' = v
       /\ PartOf(r, o) = w /\ PartOf(r, o)' = z
  BY <1>3
<1> HIDE DEF u, v, w, z, q
<1>13. v = u - q /\ z = w + q
  BY <1>11
<1>14. \A p \in Outcome \ {o} : PartOf(r, p)' = PartOf(r, p)
  BY <1>3, <1>4
<1>15. PartOf(r, "none")' = PartOf(r, "none")
  BY <1>3, <1>4
<1>16. /\ PartOf(r, "reserved") \in Nat /\ PartOf(r, "none") \in Nat
       /\ \A p \in Outcome : PartOf(r, p) \in Nat
  BY <1>3, <1>6
<1> QED BY <1>12, <1>13, <1>14, <1>15, <1>16 DEF q

\* The reservation of the run follows its items.
LEMMA CloseRun ==
  ASSUME Books, NEW j \in Jobs, item[j] = "reserved", NEW o \in Outcome, CloseItem(j, o)
  PROVE  RunRows' /\ ReservationsAddUp'
<1> DEFINE r == CHOOSE x \in Runs : j \in JobsOf[x]
           res == reservation[r]
           reserved == res.reserved - Quote[j]
           captured == res.captured + IF o = "captured" THEN Quote[j] ELSE 0
           released == res.released + IF o = "released" THEN Quote[j] ELSE 0
           new == [status |-> ReservationStatus(r, reserved, captured, released),
                   reserved |-> reserved, captured |-> captured, released |-> released,
                   cost |-> IF reserved = 0 THEN captured ELSE res.cost]
<1>1. r \in Runs /\ j \in JobsOf[r] /\ res.status # "none"
  BY RunOfJob DEF Books
<1>2. item' = [item EXCEPT ![j] = o] /\ reservation' = [reservation EXCEPT ![r] = new]
  BY DEF CloseItem
<1>3. /\ reservation \in [Runs -> ReservationRow]
      /\ item \in [Jobs -> {"none", "reserved"} \cup Outcome]
  BY DEF Books, BookInv, RowsTyped
<1>4. reservation'[r] = new /\ \A s \in Runs \ {r} : reservation'[s] = reservation[s]
  BY <1>1, <1>2, <1>3
<1>5. \A s \in Runs : RunAddsUp(s)
  BY AddUpByRun DEF Books
<1>6. /\ new.reserved = reserved /\ new.captured = captured /\ new.released = released
      /\ new.cost = (IF reserved = 0 THEN captured ELSE res.cost)
      /\ new.status = ReservationStatus(r, reserved, captured, released)
  OBVIOUS
<1> HIDE DEF new, r
<1>7. /\ res.reserved = PartOf(r, "reserved") /\ res.captured = PartOf(r, "captured")
      /\ res.released = PartOf(r, "released") /\ PartOf(r, "none") = 0
  BY <1>1, <1>5 DEF RunAddsUp
<1>8. /\ PartOf(r, "reserved")' = PartOf(r, "reserved") - Quote[j]
      /\ PartOf(r, o)' = PartOf(r, o) + Quote[j]
      /\ \A p \in Outcome \ {o} : PartOf(r, p)' = PartOf(r, p)
      /\ PartOf(r, "none")' = PartOf(r, "none")
      /\ PartOf(r, "reserved") \in Nat /\ PartOf(r, "none") \in Nat
      /\ \A p \in Outcome : PartOf(r, p) \in Nat
  BY <1>1, <1>2, <1>3, PartMoves
<1>9. Quote[j] \in Nat
  BY BookAssumption
<1>10. /\ reserved = PartOf(r, "reserved")' /\ captured = PartOf(r, "captured")'
       /\ released = PartOf(r, "released")' /\ PartOf(r, "none")' = 0
       /\ captured \in Nat
  <2>1. CASE o = "captured"
    <3>1. /\ PartOf(r, "captured")' = PartOf(r, "captured") + Quote[j]
          /\ PartOf(r, "released")' = PartOf(r, "released")
          /\ PartOf(r, "captured") \in Nat /\ PartOf(r, "released") \in Nat
      BY <1>8, <2>1 DEF Outcome
    <3> HIDE DEF res
    <3>2. captured = res.captured + Quote[j] /\ released = res.released + 0
      BY <2>1
    <3> QED BY <1>7, <1>8, <1>9, <3>1, <3>2
  <2>2. CASE o = "released"
    <3>1. /\ PartOf(r, "captured")' = PartOf(r, "captured")
          /\ PartOf(r, "released")' = PartOf(r, "released") + Quote[j]
          /\ PartOf(r, "captured") \in Nat /\ PartOf(r, "released") \in Nat
      BY <1>8, <2>2 DEF Outcome
    <3> HIDE DEF res
    <3>2. captured = res.captured + 0 /\ released = res.released + Quote[j]
      BY <2>2
    <3> QED BY <1>7, <1>8, <1>9, <3>1, <3>2
  <2> QED BY <2>1, <2>2 DEF Outcome
<1> HIDE DEF reserved, captured, released
<1>11. RunAddsUp(r)'
  <2>1. /\ new.status \in {"partial", "captured", "released"}
        /\ new.status = "captured" => captured = RunQuote[r]
        /\ new.status = "released" => released = RunQuote[r]
    BY <1>6 DEF ReservationStatus
  <2> DEFINE next(s) == SumFunctionOnSet(Quote, {k \in JobsOf[r] : item'[k] = s})
  <2>2. /\ PartOf(r, "reserved")' = next("reserved") /\ PartOf(r, "none")' = next("none")
        /\ PartOf(r, "captured")' = next("captured")
        /\ PartOf(r, "released")' = next("released")
        /\ \A s : PartOf(r, s)' = next(s)
    BY DEF PartOf
  <2>3. RunAddsUp(r)' <=>
          /\ reservation'[r].reserved = next("reserved")
          /\ reservation'[r].captured = next("captured")
          /\ reservation'[r].released = next("released")
          /\ reservation'[r].status \in Outcome =>
               next(reservation'[r].status) = RunQuote[r]
          /\ reservation'[r].status # "none" /\ reservation'[r].reserved = 0 =>
               reservation'[r].cost = reservation'[r].captured
          /\ reservation'[r].status # "none" => next("none") = 0
    BY DEF RunAddsUp, PartOf
  <2> HIDE DEF next
  <2>4. new.status \in Outcome => next(new.status) = RunQuote[r]
    BY <1>10, <2>1, <2>2 DEF Outcome
  <2> QED BY <1>4, <1>6, <1>10, <2>2, <2>3, <2>4
<1>12. ASSUME NEW s \in Runs, s # r PROVE RunAddsUp(s)'
  <2>1. j \notin JobsOf[s]
    BY <1>1, <1>12, BookAssumption
  <2>2. \A k \in JobsOf[s] : item'[k] = item[k]
    BY <1>2, <1>3, <2>1, PlanFacts
  <2> QED BY <1>4, <1>5, <1>12, <2>2, RunStays
<1>13. ReservationsAddUp'
  BY <1>11, <1>12, AddUpByRun
<1>14. RunRows'
  <2> SUFFICES ASSUME NEW s \in Runs
               PROVE  /\ reservation'[s].status = "none" => reservation'[s] = NoReservation
                      /\ reservation'[s].status # "none" => \A k \in JobsOf[s] : item'[k] # "none"
                      /\ reservation'[s].cost \in Nat
    BY DEF RunRows
  <2>1. /\ reservation[s].status = "none" => reservation[s] = NoReservation
        /\ reservation[s].status # "none" => \A k \in JobsOf[s] : item[k] # "none"
        /\ reservation[s].cost \in Nat
    BY DEF Books, RunRows
  <2>2. \A k \in JobsOf[s] : item[k] # "none" => item'[k] # "none"
    BY <1>2, <1>3, PlanFacts DEF Outcome
  <2>3. CASE s = r
    <3>1. new.status # "none"
      BY <1>6 DEF ReservationStatus
    <3> QED BY <1>1, <1>4, <1>6, <1>10, <2>1, <2>2, <2>3, <3>1
  <2>4. CASE s # r
    BY <1>4, <2>1, <2>2, <2>4
  <2> QED BY <2>3, <2>4
<1> QED BY <1>13, <1>14
\* The grants a job drew from.
DrawnFrom(j) == {g \in Grants : draw[j][g] > 0}

\* What a job drew, summed over the grants or over those it drew from.
LEMMA DrawSums ==
  ASSUME Books, NEW j \in Jobs, item[j] # "none", NEW x, NEW y, NEW c \in {0, 1},
         \A g \in Grants : x[g] = c * draw[j][g] /\ y[g] = -draw[j][g],
         NEW P, P = DrawnFrom(j)
  PROVE  /\ \A g \in Grants : x[g] \in Int /\ y[g] \in Int
         /\ SumFunctionOnSet(x, Grants) = c * Quote[j]
         /\ SumFunctionOnSet(y, Grants) = -Quote[j]
         /\ SumFunctionOnSet(x, P) = c * Quote[j]
         /\ SumFunctionOnSet(y, P) = -Quote[j]
<1> DEFINE zero == [g \in Grants |-> 0]
           d == draw[j]
<1>1. /\ IsFiniteSet(Grants) /\ P \subseteq Grants /\ Quote[j] \in Nat
      /\ \A g \in Grants : d[g] \in Nat /\ zero[g] = 0
  BY BookAssumption DEF Books, BookInv, RowsTyped, DrawnFrom
<1>2. \A g \in Grants \ P : d[g] = 0
  BY <1>1 DEF DrawnFrom
<1>3. SumFunctionOnSet(d, Grants) = Quote[j]
  BY DEF Books, DrawsQuoted
<1>4. \A g \in Grants : x[g] = c * d[g] /\ y[g] = zero[g] - d[g]
  BY <1>1
<1> HIDE DEF d, zero
<1>5. \A g \in Grants : x[g] \in Int /\ y[g] \in Int
  BY <1>1, <1>4
<1>6. Ints(x, Grants) /\ Ints(y, Grants) /\ Ints(d, Grants) /\ Ints(zero, Grants)
  BY <1>1, <1>5 DEF Ints
<1>7. SumFunctionOnSet(zero, Grants) = 0
  BY <1>1, SumZero
<1>8. SumFunctionOnSet(y, Grants) = -Quote[j]
  <2>1. SumFunctionOnSet(y, Grants)
          = SumFunctionOnSet(zero, Grants) - SumFunctionOnSet(d, Grants)
    BY <1>1, <1>4, <1>6, SumMinus
  <2> QED BY <1>1, <1>3, <1>7, <2>1
<1>9. SumFunctionOnSet(x, Grants) = c * Quote[j]
  <2>1. CASE c = 0
    <3>1. \A g \in Grants : x[g] = 0
      BY <1>1, <1>4, <2>1
    <3>2. SumFunctionOnSet(x, Grants) = 0
      BY <1>1, <3>1, SumZero
    <3> QED BY <1>1, <2>1, <3>2
  <2>2. CASE c = 1
    <3>1. \A g \in Grants : x[g] = d[g]
      BY <1>1, <1>4, <2>2
    <3>2. SumFunctionOnSet(x, Grants) = SumFunctionOnSet(d, Grants)
      BY <1>1, <3>1, SumEqual
    <3> QED BY <1>1, <1>3, <2>2, <3>2
  <2> QED BY <2>1, <2>2
<1>10. \A g \in Grants \ P : x[g] = 0 /\ y[g] = 0
  BY <1>1, <1>2, <1>4
<1>11. /\ SumFunctionOnSet(x, Grants) = SumFunctionOnSet(x, P)
       /\ SumFunctionOnSet(y, Grants) = SumFunctionOnSet(y, P)
  BY <1>1, <1>6, <1>10, SumSupport
<1> QED BY <1>5, <1>8, <1>9, <1>11

\* The held credits of a grant without those of one more open item.
LEMMA HeldLess ==
  ASSUME Books, NEW j \in Jobs, item[j] = "reserved", NEW g \in Grants
  PROVE  /\ draw[j][g] <= grant[g].reserved
         /\ SumFunctionOnSet([k \in Jobs |-> draw[k][g]], OpenItems \ {j})
              = grant[g].reserved - draw[j][g]
<1> DEFINE f == [k \in Jobs |-> draw[k][g]]
<1>1. /\ OpenItems \subseteq Jobs /\ IsFiniteSet(OpenItems) /\ j \in OpenItems
      /\ grant[g].reserved = SumFunctionOnSet(f, OpenItems)
  BY BookAssumption, FS_Subset DEF OpenItems, Books, HeldByItems
<1>2. \A k \in OpenItems : f[k] \in Nat
  BY <1>1 DEF Books, BookInv, RowsTyped
<1>3. f[j] = draw[j][g]
  OBVIOUS
<1> DEFINE v == SumFunctionOnSet(f, OpenItems \ {j})
<1> HIDE DEF f
<1>4. f[j] <= SumFunctionOnSet(f, OpenItems)
  BY <1>1, <1>2, SumMember
<1>5. Ints(f, OpenItems)
  BY <1>2 DEF Ints
<1>6. SumFunctionOnSet(f, OpenItems) = f[j] + v
  BY <1>1, <1>5, SumRemove
<1>7. IsFiniteSet(OpenItems \ {j}) /\ \A k \in OpenItems \ {j} : f[k] \in Nat
  BY <1>1, <1>2, FS_Subset
<1>8. v \in Nat
  BY <1>7, SumNat
<1>9. f[j] \in Nat
  BY <1>1, <1>2
<1> HIDE DEF v
<1>10. v = grant[g].reserved - f[j]
  BY <1>1, <1>6, <1>8, <1>9
<1> QED BY <1>1, <1>3, <1>4, <1>10 DEF f, v

\* settleGenerationJobCredits: what an item held is spent or goes back, in the
\* grants, the balance, the ledger and the reservation alike.
LEMMA CloseBooks ==
  ASSUME Books, NEW j \in Jobs, item[j] = "reserved", NEW o \in Outcome, CloseItem(j, o),
         UNCHANGED <<account, issued, draw>>,
         settler' \in [Settlers -> [job : Jobs, outcome : Outcome] \cup {Idle}]
  PROVE  Books'
<1> DEFINE back == IF o = "released" THEN 1 ELSE 0
           x == [g \in Grants |-> back * draw[j][g]]
           y == [g \in Grants |-> -draw[j][g]]
           P == {g \in Grants : draw[j][g] > 0}
           N == Entries(<<o, j>>, P, x, y)
<1>1. BookInv'
  BY CloseBook DEF Books
<1>2. RunRows' /\ ReservationsAddUp'
  BY CloseRun
<1>3. /\ item' = [item EXCEPT ![j] = o]
      /\ grant' = [g \in Grants |->
          [grant[g] EXCEPT !.reserved = @ - draw[j][g],
                           !.captured = IF o = "captured" THEN @ + draw[j][g] ELSE @,
                           !.available = IF o = "released" THEN @ + draw[j][g] ELSE @]]
      /\ ledger' = ledger \cup {Entry(<<o, j>>, g, back * draw[j][g], -draw[j][g]) : g \in P}
      /\ balance' = [balance EXCEPT !.reserved = @ - Quote[j],
                                    !.available = IF o = "released" THEN @ + Quote[j] ELSE @]
      /\ storage' = [storage EXCEPT !.reserved = @ - hold[j]]
      /\ hold' = [hold EXCEPT ![j] = 0]
  BY DEF CloseItem
<1>4. /\ item \in [Jobs -> {"none", "reserved"} \cup Outcome] /\ Quote[j] \in Nat
      /\ draw \in [Jobs -> [Grants -> Nat]]
      /\ \A g \in Grants : grant[g] \in GrantRow /\ draw[j][g] \in Nat
  BY BookAssumption DEF Books, BookInv, RowsTyped
<1>5. /\ item'[j] = o /\ \A k \in Jobs \ {j} : item'[k] = item[k]
      /\ \A k \in Jobs : item'[k] # "none" => item[k] # "none"
      /\ \A k \in Jobs : item[k] # "none" => item'[k] # "none"
  BY <1>3, <1>4 DEF Outcome
<1>6. /\ \A g \in Grants : x[g] \in Int /\ y[g] \in Int
      /\ SumFunctionOnSet(x, Grants) = back * Quote[j]
      /\ SumFunctionOnSet(y, Grants) = -Quote[j]
      /\ SumFunctionOnSet(x, P) = back * Quote[j]
      /\ SumFunctionOnSet(y, P) = -Quote[j]
  <2>1. /\ back \in {0, 1}
        /\ \A g \in Grants : x[g] = back * draw[j][g] /\ y[g] = -draw[j][g]
        /\ item[j] # "none"
    OBVIOUS
  <2> HIDE DEF x, y, back, P
  <2>2. back \in {0, 1} /\ item[j] # "none"
    BY <2>1
  <2>3. \A g \in Grants : x[g] = back * draw[j][g] /\ y[g] = -draw[j][g]
    BY <2>1
  <2>4. P = DrawnFrom(j)
    BY DEF P, DrawnFrom
  <2> QED BY <2>2, <2>3, <2>4, DrawSums
<1>7. \A g \in Grants : /\ grant'[g].available = grant[g].available + x[g]
                        /\ grant'[g].reserved = grant[g].reserved - draw[j][g]
                        /\ grant'[g].reserved = grant[g].reserved + y[g]
                        /\ grant'[g].available \in Nat /\ grant'[g].reserved \in Nat
                        /\ grant'[g].captured \in Nat /\ grant'[g].reversed \in Nat
  <2> SUFFICES ASSUME NEW g \in Grants
               PROVE  /\ grant'[g].available = grant[g].available + x[g]
                      /\ grant'[g].reserved = grant[g].reserved - draw[j][g]
                      /\ grant'[g].reserved = grant[g].reserved + y[g]
                      /\ grant'[g].available \in Nat /\ grant'[g].reserved \in Nat
                      /\ grant'[g].captured \in Nat /\ grant'[g].reversed \in Nat
    OBVIOUS
  <2>1. /\ grant[g].available \in Nat /\ grant[g].reserved \in Nat
        /\ grant[g].captured \in Nat /\ grant[g].reversed \in Nat
    BY DEF Books, Columns
  <2>2. draw[j][g] <= grant[g].reserved
    BY HeldLess
  <2> DEFINE c == grant[g].captured + draw[j][g]
             a == grant[g].available + draw[j][g]
             u == grant[g].reserved - draw[j][g]
  <2>3. a \in Nat /\ c \in Nat /\ u \in Nat /\ u = grant[g].reserved + y[g]
    BY <1>4, <2>1, <2>2
  <2>4. grant'[g] = [grant[g] EXCEPT !.reserved = u,
                       !.captured = IF o = "captured" THEN c ELSE grant[g].captured,
                       !.available = IF o = "released" THEN a ELSE grant[g].available]
    BY <1>3
  <2>5. x[g] = IF o = "released" THEN draw[j][g] ELSE 0
    BY <1>4
  <2>6. a = grant[g].available + draw[j][g] /\ u = grant[g].reserved - draw[j][g]
    OBVIOUS
  <2> HIDE DEF a, c, u, x, y
  <2>7. /\ grant'[g].reserved = u
        /\ grant'[g].captured = IF o = "captured" THEN c ELSE grant[g].captured
        /\ grant'[g].available = IF o = "released" THEN a ELSE grant[g].available
        /\ grant'[g].reversed = grant[g].reversed
    BY <1>4, <2>4 DEF GrantRow
  <2>8. grant[g].available + 0 = grant[g].available
    BY <2>1
  <2>9. grant'[g].available = grant[g].available + x[g] /\ grant'[g].available \in Nat
    BY <2>1, <2>3, <2>5, <2>6, <2>7, <2>8
  <2>10. grant'[g].captured \in Nat
    BY <2>1, <2>3, <2>7
  <2> QED BY <2>1, <2>3, <2>6, <2>7, <2>9, <2>10
<1>8. Columns'
  BY <1>7 DEF Columns
<1>9. /\ balance'.available = balance.available + back * Quote[j]
      /\ balance'.reserved = balance.reserved + (-Quote[j])
  <2>1. /\ balance = [available |-> balance.available, reserved |-> balance.reserved]
        /\ balance.available \in Nat /\ balance.reserved \in Nat
    BY ColumnsSum DEF Books, BookInv, RowsTyped, BalanceOfGrants
  <2>2. /\ balance'.reserved = balance.reserved - Quote[j]
        /\ balance'.available = IF o = "released" THEN balance.available + Quote[j]
                                                  ELSE balance.available
    BY <1>3, <2>1
  <2>3. back * Quote[j] = IF o = "released" THEN Quote[j] ELSE 0
    BY <1>4
  <2> HIDE DEF back
  <2> QED BY <1>4, <2>1, <2>2, <2>3
<1>10. ledger' = ledger \cup N
  <2>1. \A g \in P : Entry(<<o, j>>, g, x[g], y[g])
                       = Entry(<<o, j>>, g, back * draw[j][g], -draw[j][g])
    OBVIOUS
  <2>2. N = {Entry(<<o, j>>, g, back * draw[j][g], -draw[j][g]) : g \in P}
    BY <2>1 DEF Entries
  <2> QED BY <1>3, <2>2
<1>11. P \subseteq Grants
  OBVIOUS
<1> HIDE DEF x, y, back, P
<1>12. BalanceOfGrants'
  <2>1. \A g \in Grants : /\ x[g] \in Int /\ y[g] \in Int
                          /\ grant'[g].available = grant[g].available + x[g]
                          /\ grant'[g].reserved = grant[g].reserved + y[g]
    BY <1>6, <1>7
  <2>2. /\ balance'.available = balance.available + SumFunctionOnSet(x, Grants)
        /\ balance'.reserved = balance.reserved + SumFunctionOnSet(y, Grants)
    BY <1>6, <1>9
  <2> QED BY <1>8, <2>1, <2>2, GrantsMove DEF Books
<1>13. /\ IsFiniteSet(N)
       /\ \A e \in N : /\ e.event = <<o, j>> /\ e.grant \in P
                       /\ e.available \in Int /\ e.reserved \in Int
       /\ SumFunction([e \in N |-> e.available]) = SumFunctionOnSet(x, P)
       /\ SumFunction([e \in N |-> e.reserved]) = SumFunctionOnSet(y, P)
  <2>1. N = Entries(<<o, j>>, P, x, y)
    OBVIOUS
  <2> HIDE DEF N
  <2>2. \A g \in P : x[g] \in Int /\ y[g] \in Int
    BY <1>6, <1>11
  <2> QED BY <1>11, <2>1, <2>2, EntrySums
<1> HIDE DEF N
<1>14. N \cap ledger = {}
  <2>1. \A e \in ledger : e.event = <<o, j>> => item[j] = o
    BY DEF Books, LedgerEvents
  <2> QED BY <1>13, <2>1 DEF Outcome
<1>15. LedgerRows' /\ LedgerOfBalance'
  <2>1. \A e \in N : e.grant \in Grants /\ e.available \in Int /\ e.reserved \in Int
    BY <1>11, <1>13
  <2>2. /\ balance'.available = balance.available + SumFunction([e \in N |-> e.available])
        /\ balance'.reserved = balance.reserved + SumFunction([e \in N |-> e.reserved])
    BY <1>6, <1>9, <1>13
  <2> QED BY <1>10, <1>13, <1>14, <2>1, <2>2, LedgerMoves DEF Books
<1>16. LedgerEvents'
  <2>1. Issued \subseteq Issued'
    BY DEF Issued
  <2>2. \A k \in Jobs : item[k] \in Outcome => item'[k] = item[k]
    BY <1>5 DEF Outcome
  <2>3. ASSUME NEW e \in N
        PROVE  /\ e.event = <<"grant">> => e.grant \in Issued'
               /\ \A k \in Jobs : e.event = <<"reserve", k>> => item'[k] # "none"
               /\ \A k \in Jobs, p \in Outcome : e.event = <<p, k>> => item'[k] = p
    <3>1. e.event = <<o, j>> /\ o # "reserve"
      BY <1>13 DEF Outcome
    <3>2. \A a, b : <<o, j>> = <<a, b>> => a = o /\ b = j
      OBVIOUS
    <3>3. <<o, j>> # <<"grant">>
      OBVIOUS
    <3> QED BY <1>5, <3>1, <3>2, <3>3
  <2> QED BY <1>5, <1>10, <2>1, <2>2, <2>3, EventsKept DEF Books
<1>17. DrawsQuoted'
  BY <1>5 DEF Books, DrawsQuoted
<1>18. HeldByItems'
  <2>1. OpenItems' = OpenItems \ {j}
    BY <1>5 DEF OpenItems, Outcome
  <2>2. \A g \in Grants : SumFunctionOnSet([k \in Jobs |-> draw[k][g]], OpenItems \ {j})
                            = grant[g].reserved - draw[j][g]
    BY HeldLess
  <2> QED BY <1>7, <2>1, <2>2 DEF HeldByItems
<1>19. StorageHeld'
  <2>1. /\ storage = [used |-> storage.used, reserved |-> storage.reserved,
                      limit |-> storage.limit]
        /\ storage.used \in Nat /\ storage.limit \in Limits
        /\ hold \in [Jobs -> Nat] /\ storage.reserved = SumFunctionOnSet(hold, Jobs)
        /\ \A k \in Jobs : item[k] = "none" => hold[k] = 0
    BY DEF Books, StorageHeld
  <2>2. /\ hold' \in [Jobs -> Nat] /\ hold'[j] = 0
        /\ \A k \in Jobs \ {j} : hold'[k] = hold[k]
    BY <1>3, <2>1
  <2>3. Ints(hold, Jobs) /\ Ints(hold', Jobs) /\ IsFiniteSet(Jobs)
    BY <2>1, <2>2, BookAssumption DEF Ints
  <2>4. SumFunctionOnSet(hold', Jobs) = SumFunctionOnSet(hold, Jobs) - hold[j] + hold'[j]
    BY <2>2, <2>3, SumUpdate
  <2>5. SumFunctionOnSet(hold, Jobs) \in Int /\ hold[j] \in Int
    BY <2>1, <2>3, SumInt
  <2>6. /\ storage' = [used |-> storage.used, reserved |-> storage.reserved - hold[j],
                       limit |-> storage.limit]
    BY <1>3, <2>1
  <2>7. storage'.reserved = SumFunctionOnSet(hold', Jobs)
    BY <2>1, <2>2, <2>4, <2>5, <2>6
  <2>8. \A k \in Jobs : item'[k] = "none" => hold'[k] = 0
    BY <1>5, <2>1, <2>2
  <2> QED BY <2>1, <2>2, <2>6, <2>7, <2>8 DEF StorageHeld
<1>20. AccountTyped' /\ IsInjective(issued)'
  BY DEF Books, AccountTyped
<1> QED BY <1>1, <1>2, <1>8, <1>12, <1>15, <1>16, <1>17, <1>18, <1>19, <1>20 DEF Books

LEMMA SettleBooks ==
  ASSUME Books, NEW s \in Settlers, Settle(s)
  PROVE  Books'
<1>1. /\ settler[s].job \in Jobs /\ settler[s].outcome \in Outcome
      /\ settler' \in [Settlers -> [job : Jobs, outcome : Outcome] \cup {Idle}]
      /\ UNCHANGED <<account, issued, draw>>
  BY DEF Settle, Books, BookInv, RowsTyped
<1>2. CASE item[settler[s].job] = "reserved" /\ CloseItem(settler[s].job, settler[s].outcome)
  BY <1>1, <1>2, CloseBooks
<1>3. CASE UNCHANGED <<grant, balance, ledger, reservation, item, storage, hold>>
  <2>1. BookInv'
    BY SettleBook DEF Books
  <2>2. /\ Issued' = Issued /\ OpenItems' = OpenItems
        /\ UNCHANGED <<reservation, item, draw, storage, hold>>
    BY <1>1, <1>3 DEF Issued, OpenItems
  <2>3. \A g \in Grants : grant'[g].reserved = grant[g].reserved
    BY <1>3
  <2>4. account' \in [status : {"active", "blocked_review"}, reason : Reason]
    BY <1>1 DEF Books, AccountTyped
  <2>5. /\ DrawsQuoted' /\ HeldByItems' /\ RunRows' /\ ReservationsAddUp'
        /\ StorageHeld' /\ AccountTyped'
    BY <2>2, <2>3, <2>4, RestKept
  <2>6. Columns' /\ BalanceOfGrants' /\ LedgerRows' /\ LedgerOfBalance' /\ LedgerEvents'
    BY <1>3, <2>2 DEF Books, Columns, BalanceOfGrants, LedgerRows, LedgerOfBalance, LedgerEvents
  <2> QED BY <1>1, <2>1, <2>5, <2>6 DEF Books
<1> QED BY <1>2, <1>3 DEF Settle
\* What a run draws from each grant.
Drawn(r) == [g \in Grants |-> SumFunction([j \in JobsOf[r] |-> Allocation(r)[j][g]])]

\* An admitted run is paid in full: each job draws its quote, no grant gives more
\* than it has, and together they give the quote of the run.
LEMMA Admitted ==
  ASSUME Books, NEW r \in Runs, Reserve(r)
  PROVE  /\ IsFiniteSet(JobsOf[r]) /\ JobsOf[r] \subseteq Jobs /\ RunQuote[r] \in Nat
         /\ Allocation(r) \in [JobsOf[r] -> [Grants -> Nat]]
         /\ \A j \in JobsOf[r] : item[j] = "none"
         /\ \A j \in JobsOf[r] : SumFunctionOnSet(Allocation(r)[j], Grants) = Quote[j]
         /\ \A g \in Grants : /\ Drawn(r)[g] \in Nat /\ Drawn(r)[g] <= grant[g].available
                              /\ g \notin Issued => Drawn(r)[g] = 0
         /\ SumFunctionOnSet(Drawn(r), Grants) = RunQuote[r]
<1> DEFINE J == JobsOf[r]
           new == Allocation(r)
<1>1. /\ IsFiniteSet(J) /\ J \subseteq Jobs /\ RunQuote[r] \in Nat
      /\ RunQuote[r] = SumFunctionOnSet(Quote, J)
  BY PlanFacts
<1>2. /\ new \in [J -> [Grants -> Nat]] /\ Drawn(r) \in [Grants -> Nat]
      /\ \A j \in J, g \in Grants \ Issued : new[j][g] = 0
  BY AllocationType DEF Books, BookInv, Drawn
<1>3. \A j \in J : item[j] = "none"
  <2> SUFFICES ASSUME NEW j \in J, item[j] # "none" PROVE FALSE
    OBVIOUS
  <2>1. PICK s \in Runs : j \in JobsOf[s] /\ reservation[s].status # "none"
    BY <1>1 DEF Books, BookInv, ItemsAdmitted
  <2>2. s = r
    BY <2>1, BookAssumption
  <2> QED BY <2>1, <2>2 DEF Reserve, WriteReservation, Admissible
<1>4. Funded(r)
  <2>1. /\ balance.available >= RunQuote[r]
        /\ balance.available = SumFunction([g \in Grants |-> grant[g].available])
        /\ SumFunction([g \in Grants |-> grant[g].available]) \in Nat
    BY ColumnsSum DEF Reserve, WriteReservation, Admissible, Books, BalanceOfGrants
  <2> QED BY <1>1, <2>1 DEF Funded
<1>5. /\ \A j \in J : SumFunctionOnSet(new[j], Grants) = Quote[j]
      /\ \A g \in Grants : SumFunction([j \in J |-> new[j][g]]) <= grant[g].available
  <2>1. \A g \in Grants : grant[g].available \in Nat
    BY DEF Books, Columns
  <2> QED BY <1>4, <2>1, AllocationAddsUp DEF Books
<1>6. \A g \in Grants : Drawn(r)[g] = SumFunctionOnSet([j \in J |-> new[j][g]], J)
  BY DEF Drawn, SumFunction
<1>7. \A g \in Grants \ Issued : Drawn(r)[g] = 0
  <2> SUFFICES ASSUME NEW g \in Grants \ Issued
               PROVE SumFunctionOnSet([j \in J |-> new[j][g]], J) = 0
    BY <1>6
  <2> DEFINE f == [j \in J |-> new[j][g]]
  <2>1. \A j \in J : f[j] = 0
    BY <1>2
  <2> HIDE DEF f
  <2>2. SumFunctionOnSet(f, J) = 0
    BY <1>1, <2>1, SumZero
  <2> QED BY <2>2 DEF f
<1> HIDE DEF new, J
<1>8. SumFunctionOnSet(Drawn(r), Grants) = RunQuote[r]
  <2> DEFINE row == [j \in J |-> SumFunctionOnSet(new[j], Grants)]
             cell == [g \in Grants |-> [j \in J |-> new[j][g]]]
             col == [g \in Grants |-> SumFunctionOnSet(cell[g], J)]
  <2>1. SumFunctionOnSet(row, J) = SumFunctionOnSet(col, Grants)
    <3>1. IsFiniteSet(J) /\ IsFiniteSet(Grants)
      BY <1>1, BookAssumption DEF J
    <3>2. \A i \in J, j \in Grants : new[i][j] \in Int
      BY <1>1, <1>2 DEF J, new
    <3>3. IsTable(new, J, Grants, row, cell, col)
      BY <3>2 DEF IsTable
    <3> HIDE DEF row, cell, col
    <3> QED BY <3>1, <3>3, TableSums
  <2>2. \A j \in J : row[j] = Quote[j]
    BY <1>5
  <2>3. \A g \in Grants : col[g] = Drawn(r)[g]
    BY <1>6
  <2> HIDE DEF row, col
  <2>4. SumFunctionOnSet(row, J) = SumFunctionOnSet(Quote, J)
    BY <1>1, <2>2, SumEqual
  <2>5. SumFunctionOnSet(col, Grants) = SumFunctionOnSet(Drawn(r), Grants)
    BY <2>3, BookAssumption, SumEqual
  <2> QED BY <1>1, <2>1, <2>4, <2>5
<1>9. \A g \in Grants : Drawn(r)[g] <= grant[g].available
  BY <1>5 DEF Drawn, J, new
<1> QED BY <1>1, <1>2, <1>3, <1>5, <1>7, <1>8, <1>9 DEF J, new

\* The entries of a reservation: what they add up to is what the jobs drew.
ReserveEntries(r) ==
  UNION {{Entry(<<"reserve", j>>, g, -Allocation(r)[j][g], Allocation(r)[j][g]) :
            g \in {x \in Grants : Allocation(r)[j][x] > 0}} : j \in JobsOf[r]}

LEMMA ReserveSums ==
  ASSUME Books, NEW r \in Runs, Reserve(r), NEW N, N = ReserveEntries(r)
  PROVE  /\ IsFiniteSet(N)
         /\ \A e \in N : /\ \E j \in JobsOf[r] : e.event = <<"reserve", j>>
                         /\ e.grant \in Grants /\ e.available \in Int /\ e.reserved \in Int
         /\ SumFunction([e \in N |-> e.available]) = -RunQuote[r]
         /\ SumFunction([e \in N |-> e.reserved]) = RunQuote[r]
<1> DEFINE J == JobsOf[r]
           new == Allocation(r)
           pos(j) == {g \in Grants : new[j][g] > 0}
           minus == [j \in J |-> [g \in Grants |-> -new[j][g]]]
           part == [j \in J |-> Entries(<<"reserve", j>>, pos(j), minus[j], new[j])]
           a == [e \in N |-> e.available]
           b == [e \in N |-> e.reserved]
           of == [e \in N |-> e.event[2]]
<1>1. /\ IsFiniteSet(J) /\ RunQuote[r] \in Nat /\ new \in [J -> [Grants -> Nat]]
      /\ \A j \in J : SumFunctionOnSet(new[j], Grants) = Quote[j] /\ Quote[j] \in Nat
      /\ RunQuote[r] = SumFunctionOnSet(Quote, J)
  BY Admitted, PlanFacts
<1>2. N = UNION {part[j] : j \in J}
  <2>1. \A j \in J : part[j] =
          {Entry(<<"reserve", j>>, g, -new[j][g], new[j][g]) : g \in pos(j)}
    <3> SUFFICES ASSUME NEW j \in J
                 PROVE part[j] = {Entry(<<"reserve", j>>, g, -new[j][g], new[j][g]) : g \in pos(j)}
      OBVIOUS
    <3>1. \A g \in pos(j) : minus[j][g] = -new[j][g]
      OBVIOUS
    <3>2. part[j] = Entries(<<"reserve", j>>, pos(j), minus[j], new[j])
      OBVIOUS
    <3> HIDE DEF minus, part
    <3> QED BY <3>1, <3>2 DEF Entries
  <2> DEFINE cells(j) == {Entry(<<"reserve", j>>, g, -new[j][g], new[j][g]) : g \in pos(j)}
  <2>2. N = UNION {cells(j) : j \in J}
    BY DEF ReserveEntries
  <2>3. \A j \in J : part[j] = cells(j)
    BY <2>1
  <2> HIDE DEF part, cells
  <2>4. {cells(j) : j \in J} = {part[j] : j \in J}
    BY <2>3
  <2> QED BY <2>2, <2>4
<1>3. \A j \in J : /\ pos(j) \subseteq Grants
                   /\ \A g \in Grants : minus[j][g] = 0 - new[j][g] /\ minus[j][g] \in Int
                                        /\ new[j][g] \in Nat
                   /\ \A g \in Grants \ pos(j) : minus[j][g] = 0 /\ new[j][g] = 0
  BY <1>1
<1>4. \A j \in J : part[j] = Entries(<<"reserve", j>>, pos(j), minus[j], new[j])
  OBVIOUS
<1> HIDE DEF pos, minus, part, new, J
<1>5. ASSUME NEW j \in J
      PROVE  /\ IsFiniteSet(part[j])
             /\ \A e \in part[j] : /\ e.event = <<"reserve", j>> /\ e.grant \in Grants
                                   /\ e.available \in Int /\ e.reserved \in Int
             /\ SumFunction([e \in part[j] |-> e.available]) = -Quote[j]
             /\ SumFunction([e \in part[j] |-> e.reserved]) = Quote[j]
  <2> DEFINE m == minus[j]
             n == new[j]
             P == pos(j)
             M == part[j]
             zero == [g \in Grants |-> 0]
  <2>1. /\ P \subseteq Grants /\ \A g \in P : m[g] \in Int /\ n[g] \in Int
        /\ M = Entries(<<"reserve", j>>, P, m, n)
        /\ \A g \in Grants : /\ zero[g] = 0 /\ m[g] = zero[g] - n[g]
                             /\ m[g] \in Int /\ n[g] \in Int
        /\ \A g \in Grants \ P : m[g] = 0 /\ n[g] = 0
        /\ SumFunctionOnSet(n, Grants) = Quote[j] /\ Quote[j] \in Nat
    BY <1>1, <1>3, <1>4
  <2> HIDE DEF m, n, P, M, zero
  <2>2. Ints(m, Grants) /\ Ints(n, Grants) /\ Ints(zero, Grants)
    BY <2>1 DEF Ints
  <2>3. /\ IsFiniteSet(M)
        /\ \A e \in M : /\ e.event = <<"reserve", j>> /\ e.grant \in P
                        /\ e.available \in Int /\ e.reserved \in Int
        /\ SumFunction([e \in M |-> e.available]) = SumFunctionOnSet(m, P)
        /\ SumFunction([e \in M |-> e.reserved]) = SumFunctionOnSet(n, P)
    BY <2>1, EntrySums
  <2>4. /\ SumFunctionOnSet(m, Grants) = SumFunctionOnSet(m, P)
        /\ SumFunctionOnSet(n, Grants) = SumFunctionOnSet(n, P)
    BY <2>1, <2>2, BookAssumption, SumSupport
  <2>5. SumFunctionOnSet(zero, Grants) = 0
    BY <2>1, BookAssumption, SumZero
  <2>6. SumFunctionOnSet(m, Grants) = SumFunctionOnSet(zero, Grants) - SumFunctionOnSet(n, Grants)
    BY <2>1, <2>2, BookAssumption, SumMinus
  <2>7. SumFunctionOnSet(m, P) = -Quote[j] /\ SumFunctionOnSet(n, P) = Quote[j]
    BY <2>1, <2>4, <2>5, <2>6
  <2> QED BY <2>1, <2>3, <2>7 DEF M
<1>6. IsFiniteSet(N)
  <2> DEFINE Parts == {part[j] : j \in J}
  <2>1. IsFiniteSet(J)
    BY <1>1 DEF J
  <2>2. IsFiniteSet(Parts)
    BY <2>1, FiniteImage
  <2>3. \A p \in Parts : IsFiniteSet(p)
    BY <1>5
  <2>4. N = UNION Parts
    BY <1>2
  <2> HIDE DEF Parts
  <2> QED BY <2>2, <2>3, <2>4, FS_UNION
<1>7. \A e \in N : \E j \in J : e \in part[j]
  BY <1>2
<1>8. \A e \in N : /\ \E j \in J : e.event = <<"reserve", j>>
                   /\ e.grant \in Grants /\ e.available \in Int /\ e.reserved \in Int
  BY <1>5, <1>7
<1>9. \A j \in J : part[j] = {e \in N : of[e] = j}
  <2> SUFFICES ASSUME NEW j \in J PROVE part[j] = {e \in N : of[e] = j}
    OBVIOUS
  <2>1. part[j] \subseteq N /\ \A e \in part[j] : e.event = <<"reserve", j>>
    BY <1>2, <1>5
  <2>2. \A e \in part[j] : of[e] = j
    BY <2>1
  <2>3. ASSUME NEW e \in N, of[e] = j PROVE e \in part[j]
    <3>1. PICK k \in J : e \in part[k]
      BY <1>7
    <3>2. e.event = <<"reserve", k>>
      BY <1>5, <3>1
    <3>3. of[e] = k
      BY <3>2
    <3> QED BY <2>3, <3>1, <3>3
  <2> QED BY <2>1, <2>2, <2>3
<1>10. \A e \in N : of[e] \in J
  <2> SUFFICES ASSUME NEW e \in N PROVE of[e] \in J
    OBVIOUS
  <2>1. PICK j \in J : e.event = <<"reserve", j>>
    BY <1>8
  <2> QED BY <2>1
<1>11. Ints(a, N) /\ Ints(b, N)
  BY <1>8 DEF Ints
<1>12. SumFunction(a) = SumFunctionOnSet(a, N) /\ SumFunction(b) = SumFunctionOnSet(b, N)
  BY DEF SumFunction
<1>13. ASSUME NEW j \in J
       PROVE  /\ SumFunctionOnSet(a, {e \in N : of[e] = j}) = -Quote[j]
              /\ SumFunctionOnSet(b, {e \in N : of[e] = j}) = Quote[j]
  <2> DEFINE M == part[j]
             c == [e \in M |-> e.available]
             d == [e \in M |-> e.reserved]
  <2>1. /\ M \subseteq N /\ IsFiniteSet(M) /\ M = {e \in N : of[e] = j}
        /\ SumFunction(c) = -Quote[j] /\ SumFunction(d) = Quote[j]
    BY <1>5, <1>9
  <2>2. SumFunction(c) = SumFunctionOnSet(c, M) /\ SumFunction(d) = SumFunctionOnSet(d, M)
    BY DEF SumFunction
  <2>3. \A e \in M : a[e] = c[e] /\ b[e] = d[e]
    BY <2>1
  <2> HIDE DEF M, a, b, c, d, of
  <2>4. /\ SumFunctionOnSet(a, M) = SumFunctionOnSet(c, M)
        /\ SumFunctionOnSet(b, M) = SumFunctionOnSet(d, M)
    <3>1. IsFiniteSet(M)
      BY <2>1
    <3>2. SumFunctionOnSet(a, M) = SumFunctionOnSet(c, M)
      BY ONLY <2>3, <3>1, SumEqual
    <3>3. SumFunctionOnSet(b, M) = SumFunctionOnSet(d, M)
      BY ONLY <2>3, <3>1, SumEqual
    <3> QED BY <3>2, <3>3
  <2>5. SumFunctionOnSet(a, M) = -Quote[j] /\ SumFunctionOnSet(b, M) = Quote[j]
    BY <2>1, <2>2, <2>4
  <2> QED BY <2>1, <2>5
<1> DEFINE byA == [j \in J |-> SumFunctionOnSet(a, {e \in N : of[e] = j})]
           byB == [j \in J |-> SumFunctionOnSet(b, {e \in N : of[e] = j})]
           zero == [j \in J |-> 0]
<1>14. \A j \in J : byA[j] = zero[j] - Quote[j] /\ byB[j] = Quote[j] /\ zero[j] = 0
  <2>1. \A j \in J : Quote[j] \in Nat
    BY <1>1 DEF J
  <2> HIDE DEF a, b, of
  <2> QED BY <1>13, <2>1
<1> HIDE DEF a, b, of
<1>15. SumFunctionOnSet(a, N) = SumFunctionOnSet(byA, J) /\ SumFunctionOnSet(b, N) = SumFunctionOnSet(byB, J)
  <2>1. IsFiniteSet(J)
    BY <1>1 DEF J
  <2> QED BY <1>6, <1>10, <1>11, <2>1, SumGroup
<1> HIDE DEF byA, byB, zero
<1>16. /\ SumFunctionOnSet(byA, J) = -RunQuote[r]
       /\ SumFunctionOnSet(byB, J) = RunQuote[r]
  <2>1. /\ IsFiniteSet(J) /\ \A j \in J : Quote[j] \in Nat
        /\ RunQuote[r] = SumFunctionOnSet(Quote, J) /\ RunQuote[r] \in Nat
    BY <1>1 DEF J
  <2>2. Ints(Quote, J) /\ Ints(zero, J)
    BY <1>14, <2>1 DEF Ints
  <2>3. SumFunctionOnSet(byB, J) = SumFunctionOnSet(Quote, J)
    BY <1>14, <2>1, SumEqual
  <2>4. SumFunctionOnSet(byA, J) = SumFunctionOnSet(zero, J) - SumFunctionOnSet(Quote, J)
    BY <1>14, <2>1, <2>2, SumMinus
  <2>5. SumFunctionOnSet(zero, J) = 0
    BY <1>14, <2>1, SumZero
  <2> QED BY <2>1, <2>3, <2>4, <2>5
<1>17. /\ SumFunction([e \in N |-> e.available]) = -RunQuote[r]
       /\ SumFunction([e \in N |-> e.reserved]) = RunQuote[r]
  BY <1>12, <1>15, <1>16 DEF a, b
<1> QED BY <1>6, <1>8, <1>17 DEF J
\* A reservation lays hold on what its jobs draw.
LEMMA ReserveHolds ==
  ASSUME Books, NEW r \in Runs, Reserve(r)
  PROVE  DrawsQuoted' /\ HeldByItems' /\ StorageHeld'
<1> DEFINE J == JobsOf[r]
           new == Allocation(r)
<1>1. /\ IsFiniteSet(J) /\ J \subseteq Jobs /\ new \in [J -> [Grants -> Nat]]
      /\ \A j \in J : item[j] = "none"
      /\ \A j \in J : SumFunctionOnSet(new[j], Grants) = Quote[j]
      /\ \A g \in Grants : g \notin Issued => Drawn(r)[g] = 0
  BY Admitted
<1>2. \A g \in Grants : Drawn(r)[g] = SumFunctionOnSet([j \in J |-> new[j][g]], J)
  BY DEF Drawn, SumFunction
<1>3. /\ draw' = [j \in Jobs |-> IF j \in J THEN new[j] ELSE draw[j]]
      /\ grant' = [g \in Grants |->
           IF g \in Issued THEN [grant[g] EXCEPT !.available = @ - Drawn(r)[g],
                                                 !.reserved = @ + Drawn(r)[g]]
                           ELSE grant[g]]
      /\ item' = [j \in Jobs |-> IF j \in J THEN "reserved" ELSE item[j]]
      /\ storage' = [storage EXCEPT !.reserved = @ + RunHold[r]]
      /\ hold' = [j \in Jobs |-> IF j \in J THEN Hold[j] ELSE hold[j]]
  BY DEF Reserve, WriteReservation, Drawn
<1>4. \A g \in Grants : grant[g] \in GrantRow /\ \A j \in Jobs : draw[j][g] \in Nat
  BY DEF Books, BookInv, RowsTyped
<1> HIDE DEF new, J
<1>5. DrawsQuoted'
  <2> SUFFICES ASSUME NEW j \in Jobs, item'[j] # "none"
               PROVE SumFunctionOnSet(draw'[j], Grants) = Quote[j]
    BY DEF DrawsQuoted
  <2>1. CASE j \in J
    BY <1>1, <1>3, <2>1
  <2>2. CASE j \notin J
    <3>1. item[j] # "none" /\ draw'[j] = draw[j]
      BY <1>3, <2>2
    <3> QED BY <3>1 DEF Books, DrawsQuoted
  <2> QED BY <2>1, <2>2
<1>6. ASSUME NEW g \in Grants
      PROVE  grant'[g].reserved = SumFunctionOnSet([j \in Jobs |-> draw'[j][g]], OpenItems')
  <2> DEFINE f == [j \in Jobs |-> draw[j][g]]
             h == [j \in J |-> new[j][g]]
             k == [j \in Jobs |-> draw'[j][g]]
             open == OpenItems
  <2>1. /\ OpenItems' = open \cup J /\ open \cap J = {} /\ open \subseteq Jobs
        /\ IsFiniteSet(open) /\ IsFiniteSet(J)
    <3>1. /\ OpenItems' = open \cup J /\ open \cap J = {} /\ open \subseteq Jobs
      BY <1>1, <1>3 DEF OpenItems
    <3>2. IsFiniteSet(Jobs) /\ IsFiniteSet(J)
      BY <1>1, BookAssumption DEF J
    <3> QED BY <3>1, <3>2, FS_Subset
  <2>2. /\ \A j \in open : k[j] = f[j] /\ f[j] \in Nat
        /\ \A j \in J : k[j] = h[j] /\ h[j] \in Nat
    BY <1>1, <1>3, <1>4, <2>1
  <2>3. grant[g].reserved = SumFunctionOnSet(f, open) /\ Drawn(r)[g] = SumFunctionOnSet(h, J)
    BY <1>2 DEF Books, HeldByItems
  <2>4. grant'[g].reserved = grant[g].reserved + Drawn(r)[g]
    <3>1. CASE g \in Issued
      <4>1. grant'[g] = [grant[g] EXCEPT !.available = @ - Drawn(r)[g],
                                         !.reserved = @ + Drawn(r)[g]]
        BY <1>3, <3>1
      <4> QED BY <1>4, <4>1 DEF GrantRow
    <3>2. CASE g \notin Issued
      <4>1. grant'[g] = grant[g] /\ Drawn(r)[g] = 0 /\ grant[g].reserved \in Int
        BY <1>1, <1>3, <1>4, <3>2 DEF GrantRow
      <4> QED BY <4>1
    <3> QED BY <3>1, <3>2
  <2> HIDE DEF f, h, k, open
  <2>5. Ints(k, open \cup J)
    BY <2>2 DEF Ints
  <2>6. SumFunctionOnSet(k, open \cup J) = SumFunctionOnSet(k, open) + SumFunctionOnSet(k, J)
    BY <2>1, <2>5, SumUnion
  <2>7. SumFunctionOnSet(k, open) = SumFunctionOnSet(f, open)
    BY <2>1, <2>2, SumEqual
  <2>8. SumFunctionOnSet(k, J) = SumFunctionOnSet(h, J)
    BY <2>1, <2>2, SumEqual
  <2>9. grant'[g].reserved = SumFunctionOnSet(k, OpenItems')
    BY <2>1, <2>3, <2>4, <2>6, <2>7, <2>8
  <2> QED BY <2>9 DEF k
<1>7. HeldByItems'
  BY <1>6 DEF HeldByItems
<1>8. StorageHeld'
  <2>1. /\ storage = [used |-> storage.used, reserved |-> storage.reserved,
                      limit |-> storage.limit]
        /\ storage.used \in Nat /\ storage.limit \in Limits
        /\ hold \in [Jobs -> Nat] /\ storage.reserved = SumFunctionOnSet(hold, Jobs)
        /\ \A k \in Jobs : item[k] = "none" => hold[k] = 0
    BY DEF Books, StorageHeld
  <2> DEFINE rest == Jobs \ J
             n == RunHold[r]
  <2>2. /\ J \subseteq Jobs /\ IsFiniteSet(J) /\ IsFiniteSet(Jobs) /\ IsFiniteSet(rest)
        /\ \A j \in Jobs : Hold[j] \in Nat
    BY <1>1, BookAssumption, FS_Subset
  <2>3. /\ \A j \in J : hold'[j] = Hold[j] /\ hold[j] = 0
        /\ \A j \in rest : hold'[j] = hold[j]
        /\ hold' \in [Jobs -> Nat]
    BY <1>1, <1>3, <2>1, <2>2
  <2>4. n = SumFunctionOnSet(Hold, J)
    BY DEF RunHold, J
  <2>5. Ints(hold, Jobs) /\ Ints(hold', Jobs)
    BY <2>1, <2>3 DEF Ints
  <2>6. /\ SumFunctionOnSet(hold, Jobs) = SumFunctionOnSet(hold, J) + SumFunctionOnSet(hold, rest)
        /\ SumFunctionOnSet(hold', Jobs) = SumFunctionOnSet(hold', J) + SumFunctionOnSet(hold', rest)
    BY <2>2, <2>5, SumSplit
  <2> HIDE DEF rest, n
  <2>7. SumFunctionOnSet(hold, J) = 0
    BY <2>2, <2>3, SumZero
  <2>8. SumFunctionOnSet(hold', J) = SumFunctionOnSet(Hold, J)
    BY <2>2, <2>3, SumEqual
  <2>9. SumFunctionOnSet(hold', rest) = SumFunctionOnSet(hold, rest)
    BY <2>2, <2>3, SumEqual
  <2>10. SumFunctionOnSet(Hold, J) \in Nat
    BY <2>2, SumNat
  <2>11. SumFunctionOnSet(hold, rest) \in Nat
    <3>1. \A j \in rest : hold[j] \in Nat
      BY <2>1 DEF rest
    <3> QED BY <2>2, <3>1, SumNat
  <2>12. SumFunctionOnSet(hold', Jobs) = storage.reserved + n
    BY <2>1, <2>4, <2>6, <2>7, <2>8, <2>9, <2>10, <2>11
  <2>13. storage' = [used |-> storage.used, reserved |-> storage.reserved + n,
                     limit |-> storage.limit]
    BY <1>3, <2>1 DEF n
  <2>14. \A k \in Jobs : item'[k] = "none" => hold'[k] = 0
    BY <1>3, <2>1
  <2> QED BY <2>1, <2>3, <2>12, <2>13, <2>14 DEF StorageHeld
<1> QED BY <1>5, <1>7, <1>8

\* The reservation of an admitted run adds up to its items.
LEMMA ReserveRun ==
  ASSUME Books, NEW r \in Runs, Reserve(r)
  PROVE  RunRows' /\ ReservationsAddUp'
<1>1. /\ reservation' = [reservation EXCEPT ![r] =
           [NoReservation EXCEPT !.status = "reserved", !.reserved = RunQuote[r]]]
      /\ item' = [j \in Jobs |-> IF j \in JobsOf[r] THEN "reserved" ELSE item[j]]
      /\ reservation \in [Runs -> ReservationRow]
  BY DEF Reserve, WriteReservation, Books, BookInv, RowsTyped
<1>2. /\ reservation'[r].status = "reserved" /\ reservation'[r].reserved = RunQuote[r]
      /\ reservation'[r].captured = 0 /\ reservation'[r].released = 0
      /\ reservation'[r].cost = 0
      /\ \A s \in Runs \ {r} : reservation'[s] = reservation[s]
  <2>1. reservation'[r] = [NoReservation EXCEPT !.status = "reserved", !.reserved = RunQuote[r]]
    BY <1>1
  <2> QED BY <1>1, <2>1 DEF NoReservation
<1>3. /\ JobsOf[r] \subseteq Jobs /\ RunQuote[r] = SumFunctionOnSet(Quote, JobsOf[r])
  BY PlanFacts
<1>4. RunAddsUp(r)'
  <2>1. \A j \in JobsOf[r] : item'[j] = "reserved"
    BY <1>1, <1>3
  <2>2. /\ {j \in JobsOf[r] : item'[j] = "reserved"} = JobsOf[r]
        /\ {j \in JobsOf[r] : item'[j] = "captured"} = {}
        /\ {j \in JobsOf[r] : item'[j] = "released"} = {}
        /\ {j \in JobsOf[r] : item'[j] = "none"} = {}
    BY <2>1
  <2> DEFINE next(s) == SumFunctionOnSet(Quote, {k \in JobsOf[r] : item'[k] = s})
  <2>3. /\ next("reserved") = RunQuote[r] /\ next("captured") = 0
        /\ next("released") = 0 /\ next("none") = 0
    BY <1>3, <2>2, SumEmpty
  <2>4. RunAddsUp(r)' <=>
          /\ reservation'[r].reserved = next("reserved")
          /\ reservation'[r].captured = next("captured")
          /\ reservation'[r].released = next("released")
          /\ reservation'[r].status \in Outcome =>
               next(reservation'[r].status) = RunQuote[r]
          /\ reservation'[r].status # "none" /\ reservation'[r].reserved = 0 =>
               reservation'[r].cost = reservation'[r].captured
          /\ reservation'[r].status # "none" => next("none") = 0
    BY DEF RunAddsUp, PartOf
  <2> HIDE DEF next
  <2> QED BY <1>2, <2>3, <2>4 DEF Outcome
<1>5. \A s \in Runs : RunAddsUp(s)
  BY AddUpByRun DEF Books
<1>6. ASSUME NEW s \in Runs, s # r PROVE RunAddsUp(s)'
  <2>1. JobsOf[s] \cap JobsOf[r] = {} /\ JobsOf[s] \subseteq Jobs
    BY <1>6, BookAssumption, PlanFacts
  <2>2. \A j \in JobsOf[s] : item'[j] = item[j]
    BY <1>1, <2>1
  <2>3. reservation'[s] = reservation[s] /\ RunAddsUp(s)
    BY <1>2, <1>5, <1>6
  <2> QED BY <2>2, <2>3, RunStays
<1>7. ReservationsAddUp'
  BY <1>4, <1>6, AddUpByRun
<1>8. RunRows'
  <2> SUFFICES ASSUME NEW s \in Runs
               PROVE  /\ reservation'[s].status = "none" => reservation'[s] = NoReservation
                      /\ reservation'[s].status # "none" => \A k \in JobsOf[s] : item'[k] # "none"
                      /\ reservation'[s].cost \in Nat
    BY DEF RunRows
  <2>1. /\ reservation[s].status = "none" => reservation[s] = NoReservation
        /\ reservation[s].status # "none" => \A k \in JobsOf[s] : item[k] # "none"
        /\ reservation[s].cost \in Nat /\ JobsOf[s] \subseteq Jobs
    BY PlanFacts DEF Books, RunRows
  <2>2. CASE s = r
    BY <1>1, <1>2, <1>3, <2>2
  <2>3. CASE s # r
    BY <1>1, <1>2, <2>1, <2>3
  <2> QED BY <2>2, <2>3
<1> QED BY <1>7, <1>8

\* reserveRunCredits: what the run's jobs draw moves from available to reserved,
\* in the grants, the balance and the ledger alike.
LEMMA ReserveBooks ==
  ASSUME Books, NEW r \in Runs, Reserve(r)
  PROVE  Books'
<1> DEFINE x == [g \in Grants |-> -Drawn(r)[g]]
           y == Drawn(r)
           zero == [g \in Grants |-> 0]
           q == RunQuote[r]
           N == ReserveEntries(r)
<1>1. BookInv'
  BY ReserveBook DEF Books
<1>2. /\ DrawsQuoted' /\ HeldByItems' /\ StorageHeld' /\ RunRows' /\ ReservationsAddUp'
  BY ReserveHolds, ReserveRun
<1>3. /\ JobsOf[r] \subseteq Jobs /\ q \in Nat
      /\ \A j \in JobsOf[r] : item[j] = "none"
      /\ \A g \in Grants : /\ y[g] \in Nat /\ y[g] <= grant[g].available
                           /\ g \notin Issued => y[g] = 0
      /\ SumFunctionOnSet(y, Grants) = q
  BY Admitted
<1>4. /\ grant' = [g \in Grants |->
           IF g \in Issued THEN [grant[g] EXCEPT !.available = @ - y[g], !.reserved = @ + y[g]]
                           ELSE grant[g]]
      /\ ledger' = ledger \cup N
      /\ item' = [j \in Jobs |-> IF j \in JobsOf[r] THEN "reserved" ELSE item[j]]
      /\ balance' = [available |-> balance.available - q, reserved  |-> balance.reserved + q]
      /\ UNCHANGED <<account, issued, settler>>
  BY DEF Reserve, WriteReservation, Drawn, ReserveEntries
<1>5. \A g \in Grants : /\ x[g] = zero[g] - y[g] /\ zero[g] = 0
                        /\ x[g] \in Int /\ y[g] \in Int
  BY <1>3
<1> HIDE DEF y
<1>6. \A g \in Grants : /\ grant'[g].available = grant[g].available + x[g]
                        /\ grant'[g].reserved = grant[g].reserved + y[g]
                        /\ grant'[g].available \in Nat /\ grant'[g].reserved \in Nat
                        /\ grant'[g].captured \in Nat /\ grant'[g].reversed \in Nat
  <2> SUFFICES ASSUME NEW g \in Grants
               PROVE  /\ grant'[g].available = grant[g].available + x[g]
                      /\ grant'[g].reserved = grant[g].reserved + y[g]
                      /\ grant'[g].available \in Nat /\ grant'[g].reserved \in Nat
                      /\ grant'[g].captured \in Nat /\ grant'[g].reversed \in Nat
    OBVIOUS
  <2>1. /\ grant[g].available \in Nat /\ grant[g].reserved \in Nat
        /\ grant[g].captured \in Nat /\ grant[g].reversed \in Nat
        /\ grant[g] \in GrantRow
    BY DEF Books, Columns, BookInv, RowsTyped
  <2>2. /\ y[g] \in Nat /\ y[g] <= grant[g].available /\ x[g] = 0 - y[g]
        /\ g \notin Issued => y[g] = 0
    BY <1>3, <1>5
  <2> HIDE DEF x
  <2>3. CASE g \in Issued
    <3>1. grant'[g] = [grant[g] EXCEPT !.available = @ - y[g], !.reserved = @ + y[g]]
      BY <1>4, <2>3
    <3>2. /\ grant'[g].available = grant[g].available - y[g]
          /\ grant'[g].reserved = grant[g].reserved + y[g]
          /\ grant'[g].captured = grant[g].captured
          /\ grant'[g].reversed = grant[g].reversed
      BY <2>1, <3>1 DEF GrantRow
    <3> QED BY <2>1, <2>2, <3>2
  <2>4. CASE g \notin Issued
    <3>1. grant'[g] = grant[g]
      BY <1>4, <2>4
    <3>2. y[g] = 0 /\ x[g] = 0
      BY <2>2, <2>4
    <3> QED BY <2>1, <3>1, <3>2
  <2> QED BY <2>3, <2>4
<1> HIDE DEF x, zero, q
<1>7. Columns'
  BY <1>6 DEF Columns
<1>8. SumFunctionOnSet(x, Grants) = -q
  <2>1. Ints(zero, Grants) /\ Ints(y, Grants) /\ IsFiniteSet(Grants)
    BY <1>5, BookAssumption DEF Ints
  <2>2. SumFunctionOnSet(x, Grants) = SumFunctionOnSet(zero, Grants) - SumFunctionOnSet(y, Grants)
    BY <1>5, <2>1, SumMinus
  <2>3. SumFunctionOnSet(zero, Grants) = 0
    BY <1>5, <2>1, SumZero
  <2> QED BY <1>3, <2>2, <2>3
<1>9. /\ balance.available \in Nat /\ balance.reserved \in Nat
      /\ balance'.available = balance.available + (-q)
      /\ balance'.reserved = balance.reserved + q
  <2>1. balance.available \in Nat /\ balance.reserved \in Nat
    BY ColumnsSum DEF Books, BalanceOfGrants
  <2> QED BY <1>3, <1>4, <2>1
<1>10. BalanceOfGrants'
  <2>1. \A g \in Grants : /\ x[g] \in Int /\ y[g] \in Int
                          /\ grant'[g].available = grant[g].available + x[g]
                          /\ grant'[g].reserved = grant[g].reserved + y[g]
    BY <1>5, <1>6
  <2>2. /\ balance'.available = balance.available + SumFunctionOnSet(x, Grants)
        /\ balance'.reserved = balance.reserved + SumFunctionOnSet(y, Grants)
    BY <1>3, <1>8, <1>9
  <2> QED BY <1>7, <2>1, <2>2, GrantsMove DEF Books
<1>11. /\ IsFiniteSet(N)
       /\ \A e \in N : /\ \E j \in JobsOf[r] : e.event = <<"reserve", j>>
                       /\ e.grant \in Grants /\ e.available \in Int /\ e.reserved \in Int
       /\ SumFunction([e \in N |-> e.available]) = -q
       /\ SumFunction([e \in N |-> e.reserved]) = q
  <2>1. N = ReserveEntries(r)
    OBVIOUS
  <2> HIDE DEF N
  <2> QED BY <2>1, ReserveSums DEF q
<1> HIDE DEF N
<1>12. N \cap ledger = {}
  <2>1. \A e \in ledger, j \in Jobs : e.event = <<"reserve", j>> => item[j] # "none"
    BY DEF Books, LedgerEvents
  <2> QED BY <1>3, <1>11, <2>1
<1>13. LedgerRows' /\ LedgerOfBalance'
  <2>1. \A e \in N : e.grant \in Grants /\ e.available \in Int /\ e.reserved \in Int
    BY <1>11
  <2>2. /\ balance'.available = balance.available + SumFunction([e \in N |-> e.available])
        /\ balance'.reserved = balance.reserved + SumFunction([e \in N |-> e.reserved])
    BY <1>9, <1>11
  <2> QED BY <1>4, <1>11, <1>12, <2>1, <2>2, LedgerMoves DEF Books
<1>14. LedgerEvents'
  <2>1. Issued \subseteq Issued'
    BY <1>4 DEF Issued
  <2>2. /\ \A j \in Jobs : item[j] # "none" => item'[j] # "none"
        /\ \A j \in Jobs : item[j] \in Outcome => item'[j] = item[j]
    BY <1>3, <1>4 DEF Outcome
  <2>3. ASSUME NEW e \in N
        PROVE  /\ e.event = <<"grant">> => e.grant \in Issued'
               /\ \A k \in Jobs : e.event = <<"reserve", k>> => item'[k] # "none"
               /\ \A k \in Jobs, p \in Outcome : e.event = <<p, k>> => item'[k] = p
    <3>1. PICK j \in JobsOf[r] : e.event = <<"reserve", j>>
      BY <1>11
    <3>2. \A a, b : <<"reserve", j>> = <<a, b>> => a = "reserve" /\ b = j
      OBVIOUS
    <3>3. <<"reserve", j>> # <<"grant">>
      OBVIOUS
    <3>4. item'[j] # "none"
      BY <1>3, <1>4
    <3> QED BY <3>1, <3>2, <3>3, <3>4 DEF Outcome
  <2> QED BY <1>4, <2>1, <2>2, <2>3, EventsKept DEF Books
<1>15. AccountTyped' /\ IsInjective(issued)'
  BY <1>4 DEF Books, AccountTyped
<1> QED BY <1>1, <1>2, <1>7, <1>10, <1>13, <1>14, <1>15 DEF Books
\* A step that leaves the book alone.
LEMMA BookStays ==
  ASSUME BookInv, UNCHANGED book,
         settler' \in [Settlers -> [job : Jobs, outcome : Outcome] \cup {Idle}]
  PROVE  BookInv'
BY DEF book, BookInv, RowsTyped, UnissuedUntouched, ItemsAdmitted, RowsAddUp, Issued

LEMMA BooksStay ==
  ASSUME Books, UNCHANGED <<book, storage, hold>>,
         settler' \in [Settlers -> [job : Jobs, outcome : Outcome] \cup {Idle}],
         account' \in [status : {"active", "blocked_review"}, reason : Reason]
  PROVE  Books'
<1>1. UNCHANGED <<issued, grant, balance, ledger, reservation, item, draw>>
  BY DEF book
<1>2. /\ Issued' = Issued /\ OpenItems' = OpenItems
      /\ UNCHANGED <<reservation, item, draw, storage, hold>>
  BY <1>1 DEF Issued, OpenItems
<1>3. \A g \in Grants : grant'[g].reserved = grant[g].reserved
  BY <1>1
<1>4. /\ DrawsQuoted' /\ HeldByItems' /\ RunRows' /\ ReservationsAddUp'
      /\ StorageHeld' /\ AccountTyped'
  BY <1>2, <1>3, RestKept
<1>5. /\ Columns' /\ BalanceOfGrants' /\ LedgerRows' /\ LedgerOfBalance' /\ LedgerEvents'
      /\ IsInjective(issued)'
  BY <1>1, <1>2 DEF Books, Columns, BalanceOfGrants, LedgerRows, LedgerOfBalance, LedgerEvents
<1>6. BookInv'
  BY BookStays DEF Books
<1> QED BY <1>4, <1>5, <1>6 DEF Books

LEMMA NextBooks == Books /\ [Next]_vars => Books'
<1> SUFFICES ASSUME Books, [Next]_vars PROVE Books'
  OBVIOUS
<1>0. account \in [status : {"active", "blocked_review"}, reason : Reason]
  BY DEF Books, AccountTyped
<1>1. ASSUME NEW g \in Grants, AppendGrant(g) PROVE Books'
  <2>1. Issue({g}) /\ IsInjective(issued)' /\ account' = account
    BY <1>1, AppendIssue DEF Books, AppendGrant
  <2> QED BY <1>0, <2>1, IssueBooks
<1>2. ASSUME NEW r \in Runs, Reserve(r) PROVE Books'
  BY <1>2, ReserveBooks
<1>3. ASSUME NEW s \in Settlers, NEW j \in Jobs, NEW o \in Outcome, BeginSettle(s, j, o)
      PROVE Books'
  <2>1. settler' \in [Settlers -> [job : Jobs, outcome : Outcome] \cup {Idle}]
    BY <1>3 DEF BeginSettle, Books, BookInv, RowsTyped
  <2> QED BY <1>0, <1>3, <2>1, BooksStay DEF BeginSettle
<1>4. ASSUME NEW s \in Settlers, Settle(s) PROVE Books'
  BY <1>4, SettleBooks
<1>5. ASSUME NEW g \in Grants, NEW e \in Reversals, Reverse(g, e) PROVE Books'
  <2>1. Foreign(<<"reverse", e>>)
    BY DEF Foreign, Outcome
  <2>2. ReverseUnused({g}, <<"reverse", e>>)
    BY <1>5 DEF Reverse
  <2>3. account' \in [status : {"active", "blocked_review"}, reason : Reason]
    BY <1>0, <1>5 DEF Reverse, Blocked, Reason
  <2> QED BY <2>1, <2>2, <2>3, ReverseBooks
<1>6. CASE UNCHANGED vars
  BY <1>0, <1>6, BooksStay DEF vars, Books, BookInv, RowsTyped
<1> QED BY <1>1, <1>2, <1>3, <1>4, <1>5, <1>6 DEF Next

\* What the invariant says of the columns and of the reservations.
LEMMA BooksTyped == Books => TypeOK
<1> SUFFICES ASSUME Books PROVE TypeOK
  OBVIOUS
<1>1. /\ account \in [status : {"active", "blocked_review"}, reason : Reason]
      /\ issued \in Seq(Grants)
      /\ item \in [Jobs -> {"none", "reserved"} \cup Outcome]
      /\ draw \in [Jobs -> [Grants -> Nat]] /\ hold \in [Jobs -> Nat]
      /\ settler \in [Settlers -> [job : Jobs, outcome : Outcome] \cup {Idle}]
  BY DEF Books, AccountTyped, BookInv, RowsTyped, StorageHeld
<1>2. grant \in [Grants -> [available : Nat, reserved : Nat, captured : Nat, reversed : Nat]]
  <2>1. grant \in [Grants -> GrantRow] /\ Columns
    BY DEF Books, BookInv, RowsTyped
  <2>2. \A g \in Grants :
          grant[g] \in [available : Nat, reserved : Nat, captured : Nat, reversed : Nat]
    BY <2>1 DEF GrantRow, Columns
  <2> QED BY <2>1, <2>2
<1>3. balance \in [available : Nat, reserved : Nat]
  BY ColumnsSum DEF Books, BookInv, RowsTyped, BalanceOfGrants
<1>4. reservation \in [Runs -> [status : {"none", "reserved", "partial"} \cup Outcome,
                                reserved : Nat, captured : Nat, released : Nat, cost : Nat]]
  <2>1. reservation \in [Runs -> ReservationRow]
    BY DEF Books, BookInv, RowsTyped
  <2>2. ASSUME NEW r \in Runs
        PROVE /\ reservation[r].reserved \in Nat /\ reservation[r].captured \in Nat
              /\ reservation[r].released \in Nat /\ reservation[r].cost \in Nat
    <3>1. RunAddsUp(r) /\ reservation[r].cost \in Nat
      BY AddUpByRun DEF Books, RunRows
    <3>2. ASSUME NEW status PROVE PartOf(r, status) \in Nat
      <4> DEFINE S == {j \in JobsOf[r] : item[j] = status}
      <4>1. IsFiniteSet(S) /\ \A j \in S : Quote[j] \in Nat
        BY PlanFacts, FS_Subset
      <4> HIDE DEF S
      <4>2. SumFunctionOnSet(Quote, S) \in Nat
        BY <4>1, SumNat
      <4> QED BY <4>2 DEF PartOf, S
    <3> QED BY <3>1, <3>2 DEF RunAddsUp
  <2>3. \A r \in Runs :
          reservation[r] \in [status : {"none", "reserved", "partial"} \cup Outcome,
                              reserved : Nat, captured : Nat, released : Nat, cost : Nat]
    BY <2>1, <2>2 DEF ReservationRow
  <2> QED BY <2>1, <2>3
<1>5. storage \in [used : Nat, reserved : Nat, limit : Limits]
  <2>1. SumFunctionOnSet(hold, Jobs) \in Nat
    BY <1>1, BookAssumption, SumNat
  <2> QED BY <2>1 DEF Books, StorageHeld
<1> QED BY <1>1, <1>2, <1>3, <1>4, <1>5 DEF TypeOK

LEMMA BooksAlways == Spec => []Books
<1>1. Init => Books
  BY InitBooks
<1> QED BY <1>1, NextBooks, PTL DEF Spec

\* No column of the credit tables is ever negative, whatever the grants, plans
\* and settlers: neither racing admissions nor reversals take credits or storage
\* that are not there.
THEOREM TypeCorrect == Spec => []TypeOK
BY BooksAlways, BooksTyped, PTL

\* The balance that admission reads, the grants that fund it and the ledger agree
\* after every transaction of credit-accounting.ts, so reconcileCreditBalance has
\* nothing to report.
THEOREM BooksCorrect == Spec => []BooksAgree
<1>1. Books => BooksAgree
  BY DEF Books, BalanceOfGrants, LedgerOfBalance, BooksAgree
<1> QED BY <1>1, BooksAlways, PTL

\* Each reservation adds up to its items and the run is charged for its captured
\* jobs, in whatever order its jobs are settled.
THEOREM ReservationsCorrect == Spec => []ReservationsAddUp
<1>1. Books => ReservationsAddUp
  BY DEF Books
<1> QED BY <1>1, BooksAlways, PTL

-----------------------------------------------------------------------------
(***************************************************************************)
(* What the projection of refunds and disputes promises, for any payments   *)
(* and grants.                                                             *)
(*                                                                         *)
(* Nothing is guessed: an account is never unblocked while a partial refund *)
(* or a dispute over another amount is on record.  The status of a payment  *)
(* can hide a partial refund behind a dispute; ReviewInv says that it does  *)
(* so only while that dispute is open or lost, which keeps the account      *)
(* blocked by itself.                                                      *)
(*                                                                         *)
(* Once the inbox is quiet, the refund on record is the one at Stripe, for   *)
(* any workers (RefundInv).                                                *)
(***************************************************************************)

Status == {"none", "paid", "disputed", "partially_refunded", "refunded"}
PaymentRow == [status : Status, refunded : Refunded]

ProjectionTyped ==
  /\ payment \in [Payments -> PaymentRow]
  /\ dispute \in [Payments -> CaseStatus]

Adversely(p) == dispute[p] \in {"open", "lost"}

\* A partial refund is the status of its payment or hides behind a dispute; a
\* refunded payment is refunded in full.
StatusTells(p) ==
  /\ payment[p].refunded = "partial" =>
       \/ payment[p].status = "partially_refunded"
       \/ payment[p].status = "disputed" /\ Adversely(p)
  /\ payment[p].status = "refunded" => payment[p].refunded = "full"

\* What must be reviewed before managed execution can go on.
Unclear(p) ==
  \/ payment[p].refunded = "partial"
  \/ Adversely(p) /\ p \in PartialDisputes /\ payment[p].status # "refunded"

IsBlocked == account.status = "blocked_review"

ReviewInv ==
  /\ ProjectionTyped
  /\ \A p \in Payments : StatusTells(p)
  /\ \A p \in Payments : Unclear(p) => IsBlocked

-----------------------------------------------------------------------------
\* Execution is restored only when nothing is unclear.
LEMMA RestoreIsClear ==
  ASSUME NEW acct, ProjectionTyped', \A p \in Payments : StatusTells(p)',
         account' = Restored(acct, payment', dispute'), acct.status = "blocked_review"
  PROVE  \A p \in Payments : Unclear(p)' => IsBlocked'
<1>1. CASE /\ \A q \in Payments : dispute'[q] \notin {"open", "lost"}
           /\ \A q \in Payments : payment'[q].status # "partially_refunded"
  <2> SUFFICES ASSUME NEW p \in Payments PROVE ~Unclear(p)'
    OBVIOUS
  <2>1. ~Adversely(p)'
    BY <1>1 DEF Adversely
  <2>2. payment'[p].refunded # "partial"
    BY <1>1, <2>1 DEF StatusTells
  <2> QED BY <2>1, <2>2 DEF Unclear
<1>2. CASE account' = acct
  BY <1>2 DEF IsBlocked
<1> QED BY <1>1, <1>2 DEF Restored

\* A transaction writes the rows of one payment: what it has to establish.
LEMMA OnePayment ==
  ASSUME ReviewInv, NEW p \in Payments, ProjectionTyped', StatusTells(p)',
         \A q \in Payments \ {p} : /\ payment'[q] = payment[q]
                                   /\ dispute'[q] = dispute[q]
  PROVE  /\ \A q \in Payments : StatusTells(q)'
         /\ (IsBlocked => IsBlocked') /\ (Unclear(p)' => IsBlocked')
              => \A q \in Payments : Unclear(q)' => IsBlocked'
<1>1. \A q \in Payments \ {p} : StatusTells(q)' /\ (Unclear(q)' => Unclear(q))
  BY DEF ReviewInv, StatusTells, Unclear, Adversely
<1>2. \A q \in Payments : Unclear(q) => IsBlocked
  BY DEF ReviewInv
<1> QED BY <1>1, <1>2

\* A review blocks the account.
LEMMA ReviewBlocks ==
  ASSUME NEW reason, account' = Review(reason) PROVE IsBlocked'
BY DEF Review, Blocked, IsBlocked

LEMMA InitReview == InitAll => ReviewInv
BY DEF InitAll, ReviewInv, ProjectionTyped, PaymentRow, Status, Refunded, CaseStatus,
       StatusTells, Unclear, Adversely

\* Steps that touch neither the payments, nor the disputes, nor the account.
LEMMA QuietReview ==
  ASSUME ReviewInv, UNCHANGED <<payment, dispute, account>>
  PROVE  ReviewInv'
BY DEF ReviewInv, ProjectionTyped, StatusTells, Unclear, Adversely, IsBlocked

LEMMA FulfillReview ==
  ASSUME ReviewInv, NEW p \in Payments, FulfillPayment(p)
  PROVE  ReviewInv'
<1>1. /\ payment[p].status = "none" /\ payment[p] \in PaymentRow
      /\ payment' = [payment EXCEPT ![p].status = "paid"]
      /\ UNCHANGED <<dispute, account>>
  BY DEF FulfillPayment, ReviewInv, ProjectionTyped
<1>2. ProjectionTyped'
  BY <1>1 DEF ReviewInv, ProjectionTyped, PaymentRow, Status
<1>3. payment'[p].refunded = payment[p].refunded /\ payment'[p].status = "paid"
  BY <1>1 DEF ReviewInv, ProjectionTyped, PaymentRow
<1>4. payment[p].refunded # "partial"
  BY <1>1 DEF ReviewInv, StatusTells
<1>5. StatusTells(p)'
  BY <1>3, <1>4 DEF StatusTells
<1>6. Unclear(p)' => IsBlocked'
  BY <1>1, <1>3, <1>4 DEF ReviewInv, Unclear, Adversely, IsBlocked
<1>7. IsBlocked => IsBlocked'
  BY <1>1 DEF IsBlocked
<1>8. \A q \in Payments \ {p} : payment'[q] = payment[q] /\ dispute'[q] = dispute[q]
  BY <1>1 DEF ReviewInv, ProjectionTyped
<1> QED BY <1>2, <1>5, <1>6, <1>7, <1>8, OnePayment DEF ReviewInv

LEMMA PartialReview ==
  ASSUME ReviewInv, NEW w \in Workers, NEW p \in Payments, PartialRefund(w, p)
  PROVE  ReviewInv'
<1>1. /\ payment' = [payment EXCEPT ![p] = [status |-> "partially_refunded",
                                           refunded |-> "partial"]]
      /\ account' = Review("partial_refund_manual_review")
      /\ UNCHANGED dispute
  BY DEF PartialRefund
<1>2. ProjectionTyped'
  BY <1>1 DEF ReviewInv, ProjectionTyped, PaymentRow, Status, Refunded
<1>3. payment'[p].status = "partially_refunded"
  BY <1>1 DEF ReviewInv, ProjectionTyped
<1>4. StatusTells(p)'
  BY <1>3 DEF StatusTells
<1>5. IsBlocked'
  BY <1>1, ReviewBlocks
<1>6. \A q \in Payments \ {p} : payment'[q] = payment[q] /\ dispute'[q] = dispute[q]
  BY <1>1 DEF ReviewInv, ProjectionTyped
<1> QED BY <1>2, <1>4, <1>5, <1>6, OnePayment DEF ReviewInv

LEMMA FullReview ==
  ASSUME ReviewInv, NEW w \in Workers, NEW p \in Payments, FullRefund(w, p)
  PROVE  ReviewInv'
<1> DEFINE used == \E g \in GrantsOf[p] : grant[g].captured > 0 \/ grant[g].reserved > 0
           acct == IF Consumed(GrantsOf[p], <<"refund", p>>)
                   THEN Blocked("payment_refunded") ELSE account
<1>1. /\ payment' = [payment EXCEPT ![p] = [status |-> "refunded", refunded |-> "full"]]
      /\ account' = IF used THEN acct ELSE Restored(acct, payment', dispute')
      /\ UNCHANGED dispute
  BY DEF FullRefund
<1>2. ProjectionTyped'
  BY <1>1 DEF ReviewInv, ProjectionTyped, PaymentRow, Status, Refunded
<1>3. payment'[p].status = "refunded" /\ payment'[p].refunded = "full"
  BY <1>1 DEF ReviewInv, ProjectionTyped
<1>4. StatusTells(p)' /\ ~Unclear(p)'
  BY <1>3 DEF StatusTells, Unclear
<1>5. \A q \in Payments \ {p} : payment'[q] = payment[q] /\ dispute'[q] = dispute[q]
  BY <1>1 DEF ReviewInv, ProjectionTyped
<1>6. \A q \in Payments : StatusTells(q)'
  BY <1>2, <1>4, <1>5, OnePayment
<1>7. IsBlocked => acct.status = "blocked_review"
  BY DEF IsBlocked, Blocked
<1> HIDE DEF used, acct
<1>8. CASE account' = acct
  <2>1. IsBlocked => IsBlocked'
    BY <1>7, <1>8 DEF IsBlocked
  <2> QED BY <2>1, <1>2, <1>4, <1>5, OnePayment DEF ReviewInv
<1>9. CASE account' = Restored(acct, payment', dispute') /\ acct.status = "blocked_review"
  BY <1>9, <1>2, <1>6, RestoreIsClear DEF ReviewInv
<1>10. CASE account' = Restored(acct, payment', dispute') /\ acct.status # "blocked_review"
  <2>1. account' = acct
    BY <1>10 DEF Restored
  <2> QED BY <2>1, <1>8
<1> QED BY <1>1, <1>8, <1>9, <1>10

LEMMA RecordReview ==
  ASSUME ReviewInv, NEW w \in Workers, NEW p \in Payments, RecordDispute(w, p)
  PROVE  ReviewInv'
<1>1. /\ dispute' = [dispute EXCEPT ![p] = worker[w].found]
      /\ worker[w].found \in {"open", "lost"}
      /\ payment[p] \in PaymentRow
  BY DEF RecordDispute, Adverse, ReviewInv, ProjectionTyped
<1>2. dispute' \in [Payments -> CaseStatus] /\ dispute'[p] \in {"open", "lost"}
  BY <1>1 DEF ReviewInv, ProjectionTyped, CaseStatus
<1>3. \A q \in Payments \ {p} : dispute'[q] = dispute[q]
  BY <1>1 DEF ReviewInv, ProjectionTyped
<1>4. CASE payment[p].status = "refunded" /\ UNCHANGED <<payment, account>>
  <2>1. payment[p].refunded = "full" /\ ProjectionTyped'
    BY <1>2, <1>4 DEF ReviewInv, StatusTells, ProjectionTyped
  <2>2. StatusTells(p)' /\ ~Unclear(p)'
    BY <2>1, <1>4 DEF StatusTells, Unclear
  <2>3. IsBlocked => IsBlocked'
    BY <1>4 DEF IsBlocked
  <2> QED BY <1>3, <1>4, <2>1, <2>2, <2>3, OnePayment DEF ReviewInv
<1>5. CASE /\ payment[p].status # "refunded"
           /\ payment' = [payment EXCEPT ![p].status = "disputed"]
           /\ account' = Review("payment_disputed")
  <2>1. ProjectionTyped'
    BY <1>2, <1>5 DEF ReviewInv, ProjectionTyped, PaymentRow, Status
  <2>2. payment'[p].status = "disputed"
    BY <1>1, <1>5 DEF ReviewInv, ProjectionTyped, PaymentRow
  <2>3. StatusTells(p)'
    BY <1>2, <2>2 DEF StatusTells, Adversely
  <2>4. IsBlocked'
    BY <1>5, ReviewBlocks
  <2>5. \A q \in Payments \ {p} : payment'[q] = payment[q]
    BY <1>5 DEF ReviewInv, ProjectionTyped
  <2> QED BY <1>3, <2>1, <2>3, <2>4, <2>5, OnePayment DEF ReviewInv
<1> QED BY <1>4, <1>5 DEF RecordDispute

LEMMA TakeReview ==
  ASSUME ReviewInv, NEW w \in Workers, NEW p \in Payments, TakeDisputed(w, p)
  PROVE  ReviewInv'
<1>1. /\ dispute' = [dispute EXCEPT ![p] = worker[w].found]
      /\ worker[w].found \in {"open", "lost"}
      /\ payment' = [payment EXCEPT ![p].status = "disputed"]
      /\ payment[p] \in PaymentRow /\ p \notin PartialDisputes
  BY DEF TakeDisputed, Adverse, ReviewInv, ProjectionTyped
<1>2. IsBlocked => IsBlocked'
  BY DEF TakeDisputed, Blocked, IsBlocked
<1>3. dispute' \in [Payments -> CaseStatus] /\ dispute'[p] \in {"open", "lost"}
  BY <1>1 DEF ReviewInv, ProjectionTyped, CaseStatus
<1>4. ProjectionTyped'
  BY <1>1, <1>3 DEF ReviewInv, ProjectionTyped, PaymentRow, Status
<1>5. payment'[p].status = "disputed" /\ payment'[p].refunded = payment[p].refunded
  BY <1>1 DEF ReviewInv, ProjectionTyped, PaymentRow
<1>6. StatusTells(p)'
  BY <1>3, <1>5 DEF StatusTells, Adversely
<1>7. Unclear(p)' => Unclear(p)
  BY <1>1, <1>5 DEF Unclear
<1>8. Unclear(p)' => IsBlocked'
  BY <1>2, <1>7 DEF ReviewInv
<1>9. \A q \in Payments \ {p} : payment'[q] = payment[q] /\ dispute'[q] = dispute[q]
  BY <1>1 DEF ReviewInv, ProjectionTyped
<1> QED BY <1>2, <1>4, <1>6, <1>8, <1>9, OnePayment DEF ReviewInv

LEMMA WinReview ==
  ASSUME ReviewInv, NEW w \in Workers, NEW p \in Payments, WinDispute(w, p)
  PROVE  ReviewInv'
<1> DEFINE full == payment[p].refunded = "full"
<1>1. /\ dispute' = [dispute EXCEPT ![p] = "won"]
      /\ payment' = [payment EXCEPT ![p].status =
                       IF full THEN "refunded"
                       ELSE IF payment[p].refunded = "partial" THEN "partially_refunded"
                       ELSE "paid"]
      /\ account' = IF full THEN account ELSE Restored(account, payment', dispute')
      /\ payment[p] \in PaymentRow
  BY DEF WinDispute, ReviewInv, ProjectionTyped
<1>2. ProjectionTyped'
  BY <1>1 DEF ReviewInv, ProjectionTyped, PaymentRow, Status, CaseStatus
<1>3. /\ payment'[p].refunded = payment[p].refunded
      /\ payment'[p].status = IF full THEN "refunded"
                              ELSE IF payment[p].refunded = "partial"
                              THEN "partially_refunded" ELSE "paid"
      /\ dispute'[p] = "won"
  BY <1>1 DEF ReviewInv, ProjectionTyped, PaymentRow
<1>4. StatusTells(p)'
  BY <1>3 DEF StatusTells
<1>5. Unclear(p)' => Unclear(p)
  BY <1>3 DEF Unclear, Adversely
<1>6. \A q \in Payments \ {p} : payment'[q] = payment[q] /\ dispute'[q] = dispute[q]
  BY <1>1 DEF ReviewInv, ProjectionTyped
<1>7. \A q \in Payments : StatusTells(q)'
  BY <1>2, <1>4, <1>6, OnePayment
<1>8. CASE account' = account
  <2>1. (IsBlocked => IsBlocked') /\ (Unclear(p)' => IsBlocked')
    BY <1>5, <1>8 DEF ReviewInv, IsBlocked
  <2> QED BY <2>1, <1>2, <1>4, <1>6, OnePayment DEF ReviewInv
<1>9. CASE account' = Restored(account, payment', dispute') /\ account.status = "blocked_review"
  BY <1>9, <1>2, <1>7, RestoreIsClear DEF ReviewInv
<1>10. CASE account' = Restored(account, payment', dispute') /\ account.status # "blocked_review"
  <2>1. account' = account
    BY <1>10 DEF Restored
  <2> QED BY <2>1, <1>8
<1> QED BY <1>1, <1>8, <1>9, <1>10

-----------------------------------------------------------------------------
LEMMA NextReview == ReviewInv /\ [NextAll]_allVars => ReviewInv'
<1> SUFFICES ASSUME ReviewInv, [NextAll]_allVars PROVE ReviewInv'
  OBVIOUS
<1>1. CASE Use
  BY <1>1, QuietReview DEF Use, Reserve, WriteReservation, BeginSettle, Settle, projected
<1>2. ASSUME NEW p \in Payments, FulfillPayment(p) PROVE ReviewInv'
  BY <1>2, FulfillReview
<1>3. ASSUME NEW p \in Payments, NEW amount \in Refunded, RefundCharge(p, amount)
      PROVE ReviewInv'
  BY <1>3, QuietReview DEF RefundCharge, vars, projected
<1>4. ASSUME NEW p \in Payments, NEW status \in CaseStatus, MoveCase(p, status)
      PROVE ReviewInv'
  BY <1>4, QuietReview DEF MoveCase, vars, projected
<1>5. ASSUME NEW w \in Workers, Work(w) PROVE ReviewInv'
  <2>1. ASSUME NEW e \in Event, ClaimEvent(w, e) PROVE ReviewInv'
    BY <2>1, QuietReview DEF ClaimEvent, vars, projected
  <2>2. CASE RetrieveResource(w)
    BY <2>2, QuietReview DEF RetrieveResource, vars, projected
  <2>3. ASSUME NEW p \in Payments, RefuseEvent(w, p) PROVE ReviewInv'
    BY <2>3, QuietReview DEF RefuseEvent, vars, projected
  <2>4. ASSUME NEW p \in Payments, PartialRefund(w, p) PROVE ReviewInv'
    BY <2>4, PartialReview
  <2>5. ASSUME NEW p \in Payments, FullRefund(w, p) PROVE ReviewInv'
    BY <2>5, FullReview
  <2>6. ASSUME NEW p \in Payments, RecordDispute(w, p) PROVE ReviewInv'
    BY <2>6, RecordReview
  <2>7. ASSUME NEW p \in Payments, TakeDisputed(w, p) PROVE ReviewInv'
    BY <2>7, TakeReview
  <2>8. ASSUME NEW p \in Payments, WinDispute(w, p) PROVE ReviewInv'
    BY <2>8, WinReview
  <2>9. CASE FinishEvent(w)
    BY <2>9, QuietReview DEF FinishEvent, vars, projected
  <2> QED BY <1>5, <2>1, <2>2, <2>3, <2>4, <2>5, <2>6, <2>7, <2>8, <2>9 DEF Work
<1>6. ASSUME NEW w \in Workers, LoseWorker(w) PROVE ReviewInv'
  BY <1>6, QuietReview DEF LoseWorker, vars, projected
<1>7. CASE UNCHANGED allVars
  BY <1>7, QuietReview DEF allVars, vars, projected
<1> QED BY <1>1, <1>2, <1>3, <1>4, <1>5, <1>6, <1>7 DEF NextAll

\* While a partial refund or a dispute over another amount is on record,
\* stripe-reversals.ts leaves managed execution blocked, for any number of
\* payments and of concurrent workers.
THEOREM UnclearReviewed == SpecAll => []UnclearIsReviewed
<1>1. SpecAll => []ReviewInv
  BY InitReview, NextReview, PTL DEF SpecAll
<1>2. ReviewInv => UnclearIsReviewed
  BY DEF ReviewInv, Unclear, Adversely, IsBlocked, UnclearIsReviewed
<1> QED BY <1>1, <1>2, PTL
-----------------------------------------------------------------------------
(* What the workers know of Stripe.  A worker reads the charge or dispute    *)
(* after its event was sent, so what it reads is at least as new as the      *)
(* event; and a refund only grows, so a newer reading is never overwritten   *)
(* by an older one.                                                         *)

Ev(kind, p) == [kind |-> kind, payment |-> p]

WorkerRow ==
  [pc : {"idle"}]
    \cup [pc : {"claimed", "done", "thrown"}, event : Event]
    \cup [pc : {"read"}, event : Event, found : Refunded \cup CaseStatus]

FollowTyped ==
  /\ charge \in [Payments -> Refunded]
  /\ case \in [Payments -> CaseStatus]
  /\ inbox \in [Event -> {"unsent", "pending", "processing", "succeeded", "failed"}]
  /\ worker \in [Workers -> WorkerRow]

IsSent(kind, p) == inbox[Ev(kind, p)] # "unsent"
IsDone(kind, p) == inbox[Ev(kind, p)] = "succeeded"

\* An event that is worked on was sent.
WorksOnSent(w) == worker[w].pc # "idle" => inbox[worker[w].event] # "unsent"

\* The refund on record is one that Stripe made, and the events that were
\* processed are on record.
RefundKnown(p) ==
  /\ payment[p].refunded = "full" <=> payment[p].status = "refunded"
  /\ payment[p].status = "none" => payment[p].refunded = "none"
  /\ payment[p].refunded = "full" => charge[p] = "full"
  /\ payment[p].refunded = "partial" => charge[p] # "none"
  /\ IsSent("charge.full", p) <=> charge[p] = "full"
  /\ IsSent("charge.partial", p) => charge[p] # "none"
  /\ charge[p] = "partial" => IsSent("charge.partial", p)
  /\ IsDone("charge.full", p) => payment[p].refunded = "full"
  /\ IsDone("charge.partial", p) => payment[p].refunded # "none"

\* A worker on a refund event has read, or recorded, what the event told of.
RefundRead(w) ==
  LET e == worker[w].event
      p == worker[w].event.payment IN
  /\ worker[w].pc = "read" /\ IsRefund(e) =>
       /\ worker[w].found \in {"partial", "full"}
       /\ worker[w].found = "full" => charge[p] = "full"
       /\ e.kind = "charge.full" => worker[w].found = "full"
  /\ worker[w].pc = "done" /\ IsRefund(e) =>
       /\ payment[p].refunded # "none"
       /\ e.kind = "charge.full" => payment[p].refunded = "full"

RefundInv ==
  /\ ReviewInv /\ FollowTyped
  /\ \A p \in Payments : RefundKnown(p)
  /\ \A w \in Workers : WorksOnSent(w) /\ RefundRead(w)

-----------------------------------------------------------------------------
(* Refunds.                                                                *)

\* The shapes of a worker.
LEMMA WorkerShape ==
  ASSUME FollowTyped, NEW w \in Workers
  PROVE  /\ worker[w].pc \in {"idle", "claimed", "read", "done", "thrown"}
         /\ worker[w].pc # "idle" => worker[w].event \in Event
         /\ worker[w].pc = "read" => worker[w].found \in Refunded \cup CaseStatus
         /\ worker[w] = Resting <=> worker[w].pc = "idle"
<1>1. worker[w] \in WorkerRow
  BY DEF FollowTyped
<1>2. CASE worker[w] \in [pc : {"idle"}]
  BY <1>2 DEF Resting
<1>3. CASE worker[w] \in [pc : {"claimed", "done", "thrown"}, event : Event]
  BY <1>3 DEF Resting
<1>4. CASE worker[w] \in [pc : {"read"}, event : Event, found : Refunded \cup CaseStatus]
  BY <1>4 DEF Resting
<1> QED BY <1>1, <1>2, <1>3, <1>4 DEF WorkerRow

\* One worker moves.
LEMMA WorkerAt ==
  ASSUME FollowTyped, NEW w \in Workers, NEW row \in WorkerRow,
         worker' = [worker EXCEPT ![w] = row]
  PROVE  /\ worker' \in [Workers -> WorkerRow] /\ worker'[w] = row
         /\ \A v \in Workers : v # w => worker'[v] = worker[v]
BY DEF FollowTyped

\* A worker that has processed its event, or has been refused.
LEMMA BecameRow ==
  ASSUME FollowTyped, NEW w \in Workers, NEW pc \in {"done", "thrown"},
         worker[w].pc # "idle", Became(w, pc)
  PROVE  /\ worker' \in [Workers -> WorkerRow]
         /\ worker'[w].pc = pc /\ worker'[w].event = worker[w].event
         /\ \A v \in Workers : v # w => worker'[v] = worker[v]
<1> DEFINE row == [pc |-> pc, event |-> worker[w].event]
<1>1. worker[w].event \in Event
  BY WorkerShape
<1>2. row \in WorkerRow
  BY <1>1 DEF WorkerRow
<1>3. worker' = [worker EXCEPT ![w] = row]
  BY DEF Became, FollowTyped
<1>4. row.pc = pc /\ row.event = worker[w].event
  OBVIOUS
<1> HIDE DEF row
<1> QED BY <1>2, <1>3, <1>4, WorkerAt

\* Events of one payment, by kind.
LEMMA EventKinds ==
  /\ \A e \in Event : e.payment \in Payments /\ e = Ev(e.kind, e.payment)
                      /\ e.kind \in {"charge.partial", "charge.full", "dispute.created", "dispute.closed"}
  /\ \A p \in Payments, kind \in {"charge.partial", "charge.full", "dispute.created", "dispute.closed"} :
       /\ Ev(kind, p) \in Event /\ Ev(kind, p).kind = kind /\ Ev(kind, p).payment = p
BY DEF Event, Ev

\* Writing one event.
LEMMA InboxAt ==
  ASSUME FollowTyped, NEW e \in Event,
         NEW mark \in {"pending", "processing", "succeeded", "failed"},
         inbox' = [inbox EXCEPT ![e] = mark]
  PROVE  /\ inbox' \in [Event -> {"unsent", "pending", "processing", "succeeded", "failed"}]
         /\ inbox'[e] = mark
         /\ \A f \in Event : f # e => inbox'[f] = inbox[f]
BY DEF FollowTyped

\* What a worker on a refund event knows was sent.
LEMMA RefundEvent ==
  ASSUME RefundInv, NEW w \in Workers, worker[w].pc # "idle", IsRefund(worker[w].event)
  PROVE  /\ worker[w].event \in Event /\ worker[w].event.payment \in Payments
         /\ charge[worker[w].event.payment] # "none"
         /\ worker[w].event.kind = "charge.full" => charge[worker[w].event.payment] = "full"
<1> DEFINE e == worker[w].event
<1>1. e \in Event /\ inbox[e] # "unsent"
  BY WorkerShape DEF RefundInv, WorksOnSent
<1>2. e = Ev(e.kind, e.payment) /\ e.payment \in Payments
  BY <1>1, EventKinds
<1>3. IsSent(e.kind, e.payment) /\ RefundKnown(e.payment)
  BY <1>1, <1>2 DEF IsSent, RefundInv
<1> QED BY <1>1, <1>2, <1>3 DEF RefundKnown, IsRefund

\* Steps that touch no refund: neither a refund on record or at Stripe, nor the
\* inbox; a worker may go on with a dispute, or give up.
LEMMA QuietRefund ==
  ASSUME RefundInv, ReviewInv', FollowTyped', UNCHANGED <<charge, inbox>>,
         \A p \in Payments :
           /\ payment'[p].refunded = payment[p].refunded
           /\ payment'[p].status = "refunded" <=> payment[p].status = "refunded"
           /\ payment'[p].status = "none" => payment[p].status = "none",
         \A w \in Workers :
           \/ worker'[w] = worker[w]
           \/ worker'[w].pc \in {"idle", "thrown"}
                /\ (worker'[w].pc # "idle" => inbox[worker'[w].event] # "unsent")
           \/ worker[w].pc # "idle" /\ worker'[w].event = worker[w].event
                /\ ~IsRefund(worker[w].event)
  PROVE  RefundInv'
<1>1. \A p \in Payments : RefundKnown(p)'
  BY DEF RefundInv, RefundKnown, IsSent, IsDone, Ev
<1>2. \A w \in Workers : WorksOnSent(w)'
  BY DEF RefundInv, WorksOnSent
<1>3. \A w \in Workers : RefundRead(w)'
  <2> SUFFICES ASSUME NEW w \in Workers PROVE RefundRead(w)'
    OBVIOUS
  <2>1. CASE worker'[w] = worker[w]
    <3>1. RefundRead(w)
      BY DEF RefundInv
    <3>2. CASE worker[w].pc # "idle" /\ IsRefund(worker[w].event)
      <4>1. worker[w].event.payment \in Payments
        BY <3>2, RefundEvent
      <4> QED BY <2>1, <3>1, <4>1 DEF RefundRead
    <3>3. CASE ~(worker[w].pc # "idle" /\ IsRefund(worker[w].event))
      BY <2>1, <3>3 DEF RefundRead, IsRefund
    <3> QED BY <3>2, <3>3
  <2>2. CASE worker'[w].pc \in {"idle", "thrown"}
    BY <2>2 DEF RefundRead
  <2>3. CASE worker'[w].event = worker[w].event /\ ~IsRefund(worker[w].event)
    BY <2>3 DEF RefundRead, IsRefund
  <2> QED BY <2>1, <2>2, <2>3
<1> QED BY <1>1, <1>2, <1>3 DEF RefundInv

\* Stripe refunds a part or all of a charge and says so.
LEMMA RefundChargeRefund ==
  ASSUME RefundInv, ReviewInv', NEW p \in Payments, NEW amount \in Refunded, RefundCharge(p, amount)
  PROVE  RefundInv'
<1> DEFINE kind == IF amount = "full" THEN "charge.full" ELSE "charge.partial"
           e == Ev(kind, p)
<1>1. /\ charge[p] # "full" /\ amount \in {"partial", "full"} /\ amount # charge[p]
      /\ charge' = [charge EXCEPT ![p] = amount]
      /\ inbox' = [inbox EXCEPT ![e] = "pending"]
      /\ UNCHANGED <<case, payment, dispute, worker>>
  BY DEF RefundCharge, Sent, Ev, projected
<1>2. FollowTyped /\ charge \in [Payments -> Refunded]
  BY DEF RefundInv, FollowTyped
<1>3. e \in Event /\ e.kind = kind /\ e.payment = p
  BY EventKinds
<1>4. /\ inbox' \in [Event -> {"unsent", "pending", "processing", "succeeded", "failed"}]
      /\ inbox'[e] = "pending" /\ \A f \in Event : f # e => inbox'[f] = inbox[f]
  BY <1>1, <1>2, <1>3, InboxAt
<1>5. charge'[p] = amount /\ \A q \in Payments : q # p => charge'[q] = charge[q]
  BY <1>1, <1>2
<1>6. FollowTyped'
  BY <1>1, <1>2, <1>4 DEF FollowTyped
<1>7. \A q \in Payments : RefundKnown(q)'
  <2> SUFFICES ASSUME NEW q \in Payments PROVE RefundKnown(q)'
    OBVIOUS
  <2>1. /\ Ev("charge.full", q) \in Event /\ Ev("charge.partial", q) \in Event
        /\ Ev("charge.full", q) = e <=> q = p /\ amount = "full"
        /\ Ev("charge.partial", q) = e <=> q = p /\ amount # "full"
    BY EventKinds DEF Ev
  <2>2. RefundKnown(q)
    BY DEF RefundInv
  <2>3. CASE q # p
    <3>1. /\ inbox'[Ev("charge.full", q)] = inbox[Ev("charge.full", q)]
          /\ inbox'[Ev("charge.partial", q)] = inbox[Ev("charge.partial", q)]
      BY <1>4, <2>1, <2>3
    <3>2. /\ IsSent("charge.full", q)' <=> IsSent("charge.full", q)
          /\ IsSent("charge.partial", q)' <=> IsSent("charge.partial", q)
          /\ IsDone("charge.full", q)' <=> IsDone("charge.full", q)
          /\ IsDone("charge.partial", q)' <=> IsDone("charge.partial", q)
      BY <3>1 DEF IsSent, IsDone, Ev
    <3> QED BY <1>1, <1>5, <2>2, <2>3, <3>2 DEF RefundKnown
  <2>4. CASE q = p /\ amount = "full"
    <3>1. /\ inbox'[Ev("charge.full", q)] = "pending"
          /\ inbox'[Ev("charge.partial", q)] = inbox[Ev("charge.partial", q)]
      BY <1>4, <2>1, <2>4
    <3>2. /\ IsSent("charge.full", q)' /\ ~IsDone("charge.full", q)'
          /\ IsSent("charge.partial", q)' <=> IsSent("charge.partial", q)
          /\ IsDone("charge.partial", q)' <=> IsDone("charge.partial", q)
      BY <3>1 DEF IsSent, IsDone, Ev
    <3> QED BY <1>1, <1>5, <2>2, <2>4, <3>2 DEF RefundKnown
  <2>5. CASE q = p /\ amount = "partial"
    <3>1. /\ inbox'[Ev("charge.partial", q)] = "pending"
          /\ inbox'[Ev("charge.full", q)] = inbox[Ev("charge.full", q)]
      BY <1>4, <2>1, <2>5
    <3>2. /\ IsSent("charge.partial", q)' /\ ~IsDone("charge.partial", q)'
          /\ IsSent("charge.full", q)' <=> IsSent("charge.full", q)
          /\ IsDone("charge.full", q)' <=> IsDone("charge.full", q)
      BY <3>1 DEF IsSent, IsDone, Ev
    <3> QED BY <1>1, <1>5, <2>2, <2>5, <3>2 DEF RefundKnown
  <2> QED BY <1>1, <2>3, <2>4, <2>5
<1>8. \A w \in Workers : WorksOnSent(w)' /\ RefundRead(w)'
  <2> SUFFICES ASSUME NEW w \in Workers PROVE WorksOnSent(w)' /\ RefundRead(w)'
    OBVIOUS
  <2>1. WorksOnSent(w) /\ RefundRead(w)
    BY DEF RefundInv
  <2>2. worker[w].pc # "idle" => worker[w].event \in Event
    BY <1>2, WorkerShape
  <2>3. WorksOnSent(w)'
    BY <1>1, <1>4, <2>1, <2>2 DEF WorksOnSent
  <2>4. RefundRead(w)'
    <3>1. CASE worker[w].pc # "idle" /\ IsRefund(worker[w].event)
      <4>1. worker[w].event.payment \in Payments
        BY <3>1, RefundEvent
      <4>2. charge[worker[w].event.payment] = "full" => charge'[worker[w].event.payment] = "full"
        BY <1>1, <1>5, <4>1
      <4> QED BY <1>1, <2>1, <4>2 DEF RefundRead
    <3>2. CASE ~(worker[w].pc # "idle" /\ IsRefund(worker[w].event))
      BY <1>1, <3>2 DEF RefundRead, IsRefund
    <3> QED BY <3>1, <3>2
  <2> QED BY <2>3, <2>4
<1> QED BY <1>6, <1>7, <1>8 DEF RefundInv

\* An event changes hands or ends: claimEvent and FinishEvent write one event.
LEMMA MarkRefund ==
  ASSUME RefundInv, ReviewInv', NEW e \in Event,
         NEW mark \in {"pending", "processing", "succeeded", "failed"},
         inbox[e] # "unsent" \/ e.kind \in {"dispute.created", "dispute.closed"},
         inbox' = [inbox EXCEPT ![e] = mark],
         mark = "succeeded" =>
           \E w \in Workers : worker[w].pc = "done" /\ worker[w].event = e,
         UNCHANGED <<charge, payment>>, case' \in [Payments -> CaseStatus],
         worker' \in [Workers -> WorkerRow],
         \A v \in Workers : \/ worker'[v] = worker[v]
                            \/ worker'[v].pc = "idle"
                            \/ worker'[v].pc = "claimed" /\ worker'[v].event = e
  PROVE  RefundInv'
<1>1. FollowTyped
  BY DEF RefundInv
<1>2. /\ inbox' \in [Event -> {"unsent", "pending", "processing", "succeeded", "failed"}]
      /\ inbox'[e] = mark /\ \A f \in Event : f # e => inbox'[f] = inbox[f]
  BY <1>1, InboxAt
<1>3. FollowTyped'
  BY <1>1, <1>2 DEF FollowTyped
<1>4. \A q \in Payments : RefundKnown(q)'
  <2> SUFFICES ASSUME NEW q \in Payments PROVE RefundKnown(q)'
    OBVIOUS
  <2>1. RefundKnown(q)
    BY DEF RefundInv
  <2>2. ASSUME NEW kind \in {"charge.partial", "charge.full"}
        PROVE  /\ IsSent(kind, q)' <=> IsSent(kind, q)
               /\ IsDone(kind, q)' =>
                    \/ IsDone(kind, q)
                    \/ kind = "charge.full" /\ payment[q].refunded = "full"
                    \/ kind = "charge.partial" /\ payment[q].refunded # "none"
    <3>1. Ev(kind, q) \in Event /\ Ev(kind, q).kind = kind /\ Ev(kind, q).payment = q
      BY EventKinds
    <3>2. Ev(kind, q)' = Ev(kind, q)
      BY DEF Ev
    <3>3. CASE Ev(kind, q) # e
      BY <1>2, <3>1, <3>2, <3>3 DEF IsSent, IsDone
    <3>4. CASE Ev(kind, q) = e
      <4>1. IsSent(kind, q) /\ IsSent(kind, q)'
        BY <1>2, <3>1, <3>2, <3>4 DEF IsSent
      <4>2. ASSUME mark = "succeeded"
            PROVE  \/ kind = "charge.full" /\ payment[q].refunded = "full"
                   \/ kind = "charge.partial" /\ payment[q].refunded # "none"
        <5>1. PICK w \in Workers : worker[w].pc = "done" /\ worker[w].event = e /\ RefundRead(w)
          BY <4>2 DEF RefundInv
        <5>2. IsRefund(e) /\ e.payment = q /\ e.kind = kind
          BY <3>1, <3>4 DEF IsRefund
        <5> QED BY <5>1, <5>2 DEF RefundRead
      <4>3. IsDone(kind, q)' => mark = "succeeded"
        BY <1>2, <3>2, <3>4 DEF IsDone
      <4> QED BY <4>1, <4>2, <4>3
    <3> QED BY <3>3, <3>4
  <2> QED BY <2>1, <2>2 DEF RefundKnown
<1>5. \A v \in Workers : WorksOnSent(v)' /\ RefundRead(v)'
  <2> SUFFICES ASSUME NEW v \in Workers PROVE WorksOnSent(v)' /\ RefundRead(v)'
    OBVIOUS
  <2>1. WorksOnSent(v) /\ RefundRead(v)
    BY DEF RefundInv
  <2>2. worker[v].pc # "idle" => worker[v].event \in Event
    BY <1>1, WorkerShape
  <2>3. CASE worker'[v] = worker[v]
    BY <1>2, <2>1, <2>2, <2>3 DEF WorksOnSent, RefundRead
  <2>4. CASE worker'[v].pc = "idle"
    BY <2>4 DEF WorksOnSent, RefundRead
  <2>5. CASE worker'[v].pc = "claimed" /\ worker'[v].event = e
    BY <1>2, <2>5 DEF WorksOnSent, RefundRead
  <2> QED BY <2>3, <2>4, <2>5
<1> QED BY <1>3, <1>4, <1>5 DEF RefundInv

\* stripe.charges.retrieve finds at least what the event told of.
LEMMA RetrieveRefund ==
  ASSUME RefundInv, ReviewInv', NEW w \in Workers, RetrieveResource(w)
  PROVE  RefundInv'
<1> DEFINE e == worker[w].event
           found == IF IsRefund(e) THEN charge[e.payment] ELSE case[e.payment]
           row == [pc |-> "read", event |-> e, found |-> found]
<1>1. /\ worker[w].pc = "claimed" /\ worker' = [worker EXCEPT ![w] = row]
      /\ UNCHANGED <<charge, case, payment, dispute, inbox>>
  BY DEF RetrieveResource, stripe, projected
<1>2. FollowTyped /\ e \in Event /\ e.payment \in Payments
  BY <1>1, WorkerShape, EventKinds DEF RefundInv
<1>3. row \in WorkerRow
  <2>1. found \in Refunded \cup CaseStatus
    BY <1>2 DEF FollowTyped
  <2> HIDE DEF found
  <2> QED BY <1>2, <2>1 DEF WorkerRow
<1>4. row.pc = "read" /\ row.event = e /\ row.found = found
  OBVIOUS
<1>5. IsRefund(e) => /\ found \in {"partial", "full"}
                     /\ found = "full" => charge[e.payment] = "full"
                     /\ e.kind = "charge.full" => found = "full"
  BY <1>1, <1>2, RefundEvent DEF FollowTyped, Refunded
<1> HIDE DEF row, found
<1>6. /\ worker' \in [Workers -> WorkerRow] /\ worker'[w] = row
      /\ \A v \in Workers : v # w => worker'[v] = worker[v]
  BY <1>1, <1>2, <1>3, WorkerAt
<1>7. FollowTyped'
  BY <1>1, <1>2, <1>6 DEF FollowTyped
<1>8. \A p \in Payments : RefundKnown(p)'
  BY <1>1 DEF RefundInv, RefundKnown, IsSent, IsDone, Ev
<1>9. \A v \in Workers : WorksOnSent(v)' /\ RefundRead(v)'
  <2> SUFFICES ASSUME NEW v \in Workers PROVE WorksOnSent(v)' /\ RefundRead(v)'
    OBVIOUS
  <2>1. WorksOnSent(v) /\ RefundRead(v)
    BY DEF RefundInv
  <2>2. CASE v # w
    BY <1>1, <1>6, <2>1, <2>2 DEF WorksOnSent, RefundRead
  <2>3. CASE v = w
    <3>1. WorksOnSent(w)'
      BY <1>1, <1>4, <1>6, <2>1, <2>3 DEF WorksOnSent
    <3>2. RefundRead(w)'
      BY <1>1, <1>4, <1>5, <1>6 DEF RefundRead
    <3> QED BY <2>3, <3>1, <3>2
  <2> QED BY <2>2, <2>3
<1> QED BY <1>7, <1>8, <1>9 DEF RefundInv

\* A refund is recorded: the worker has read it from Stripe, and no full refund on
\* record becomes a partial one.
LEMMA RecordRefund ==
  ASSUME RefundInv, ReviewInv', NEW w \in Workers, NEW p \in Payments,
         PartialRefund(w, p) \/ FullRefund(w, p)
  PROVE  RefundInv'
<1> DEFINE e == worker[w].event
           amount == worker[w].found
           status == IF amount = "full" THEN "refunded" ELSE "partially_refunded"
           row == [status |-> status, refunded |-> amount]
<1>1. /\ worker[w].pc = "read" /\ e.payment = p /\ IsRefund(e)
      /\ amount \in {"partial", "full"}
      /\ amount = "partial" => payment[p].refunded # "full"
      /\ payment' = [payment EXCEPT ![p] = row]
      /\ Became(w, "done")
      /\ UNCHANGED <<charge, case, inbox>>
  BY DEF PartialRefund, FullRefund, Reading, stripe
<1>2. FollowTyped /\ RefundRead(w) /\ WorksOnSent(w) /\ payment \in [Payments -> PaymentRow]
  BY DEF RefundInv, ReviewInv, ProjectionTyped
<1>3. /\ payment'[p].status = status /\ payment'[p].refunded = amount
      /\ \A q \in Payments : q # p => payment'[q] = payment[q]
  BY <1>1, <1>2
<1>4. /\ worker' \in [Workers -> WorkerRow]
      /\ worker'[w].pc = "done" /\ worker'[w].event = e
      /\ \A v \in Workers : v # w => worker'[v] = worker[v]
  BY <1>1, <1>2, BecameRow
<1>5. /\ amount = "full" => charge[p] = "full"
      /\ e.kind = "charge.full" => amount = "full"
      /\ charge[p] # "none"
  BY <1>1, <1>2, RefundEvent DEF RefundRead
<1>6. FollowTyped'
  BY <1>1, <1>2, <1>4 DEF FollowTyped
<1>7. \A q \in Payments : RefundKnown(q)'
  <2> SUFFICES ASSUME NEW q \in Payments PROVE RefundKnown(q)'
    OBVIOUS
  <2>1. RefundKnown(q)
    BY DEF RefundInv
  <2>2. /\ \A kind : IsSent(kind, q)' <=> IsSent(kind, q)
        /\ \A kind : IsDone(kind, q)' <=> IsDone(kind, q)
    BY <1>1 DEF IsSent, IsDone, Ev
  <2>3. CASE q # p
    BY <1>1, <1>3, <2>1, <2>2, <2>3 DEF RefundKnown
  <2>4. CASE q = p
    BY <1>1, <1>3, <1>5, <2>1, <2>2, <2>4 DEF RefundKnown
  <2> QED BY <2>3, <2>4
<1>8. \A v \in Workers : WorksOnSent(v)' /\ RefundRead(v)'
  <2> SUFFICES ASSUME NEW v \in Workers PROVE WorksOnSent(v)' /\ RefundRead(v)'
    OBVIOUS
  <2>1. WorksOnSent(v) /\ RefundRead(v)
    BY DEF RefundInv
  <2>2. CASE v = w
    <3>1. WorksOnSent(w)'
      BY <1>1, <1>2, <1>4 DEF WorksOnSent
    <3>2. RefundRead(w)'
      BY <1>1, <1>3, <1>4, <1>5 DEF RefundRead
    <3> QED BY <2>2, <3>1, <3>2
  <2>3. CASE v # w
    <3>1. worker'[v] = worker[v]
      BY <1>4, <2>3
    <3>2. WorksOnSent(v)'
      BY <1>1, <2>1, <3>1 DEF WorksOnSent
    <3>3. RefundRead(v)'
      <4>1. CASE worker[v].pc # "idle" /\ IsRefund(worker[v].event)
        <5>1. worker[v].event.payment \in Payments
          BY <4>1, RefundEvent
        <5>2. CASE worker[v].event.payment = p
          BY <1>1, <1>3, <1>5, <2>1, <3>1, <5>2 DEF RefundRead
        <5>3. CASE worker[v].event.payment # p
          BY <1>1, <1>3, <2>1, <3>1, <5>1, <5>3 DEF RefundRead
        <5> QED BY <5>2, <5>3
      <4>2. CASE ~(worker[v].pc # "idle" /\ IsRefund(worker[v].event))
        BY <3>1, <4>2 DEF RefundRead, IsRefund
      <4> QED BY <4>1, <4>2
    <3> QED BY <3>2, <3>3
  <2> QED BY <2>2, <2>3
<1> QED BY <1>6, <1>7, <1>8 DEF RefundInv

\* A dispute is recorded: the refund of the payment stays what it was.
LEMMA DisputeRefund ==
  ASSUME RefundInv, ReviewInv', NEW w \in Workers, NEW p \in Payments,
         RecordDispute(w, p) \/ TakeDisputed(w, p) \/ WinDispute(w, p)
  PROVE  RefundInv'
<1>1. /\ worker[w].pc = "read" /\ ~IsRefund(worker[w].event)
      /\ Became(w, "done") /\ UNCHANGED <<charge, case, inbox>>
  BY DEF RecordDispute, TakeDisputed, WinDispute, Adverse, Reading, stripe
<1>2. FollowTyped /\ payment \in [Payments -> PaymentRow] /\ RefundKnown(p)
  BY DEF RefundInv, ReviewInv, ProjectionTyped
<1>3. \A q \in Payments :
        /\ payment'[q].refunded = payment[q].refunded
        /\ payment'[q].status = "refunded" <=> payment[q].status = "refunded"
        /\ payment'[q].status = "none" => payment[q].status = "none"
  <2>1. CASE RecordDispute(w, p)
    BY <1>2, <2>1 DEF RecordDispute, PaymentRow
  <2>2. CASE TakeDisputed(w, p)
    BY <1>2, <2>2 DEF TakeDisputed, PaymentRow
  <2>3. CASE WinDispute(w, p)
    <3>1. payment' = [payment EXCEPT ![p].status =
                        IF payment[p].refunded = "full" THEN "refunded"
                        ELSE IF payment[p].refunded = "partial" THEN "partially_refunded"
                        ELSE "paid"]
      BY <2>3 DEF WinDispute
    <3>2. payment[p].status = "refunded" <=> payment[p].refunded = "full"
      BY <1>2 DEF RefundKnown
    <3> QED BY <1>2, <3>1, <3>2 DEF PaymentRow
  <2> QED BY <2>1, <2>2, <2>3
<1>4. /\ worker' \in [Workers -> WorkerRow]
      /\ worker'[w].event = worker[w].event
      /\ \A v \in Workers : v # w => worker'[v] = worker[v]
  BY <1>1, <1>2, BecameRow
<1>5. FollowTyped'
  BY <1>1, <1>2, <1>4 DEF FollowTyped
<1> QED BY <1>1, <1>3, <1>4, <1>5, QuietRefund

LEMMA WorkRefund ==
  ASSUME RefundInv, ReviewInv', NEW w \in Workers, Work(w) \/ LoseWorker(w)
  PROVE  RefundInv'
<1>1. FollowTyped /\ WorksOnSent(w)
  BY DEF RefundInv
<1>2. CASE \E e \in Event : ClaimEvent(w, e)
  <2>1. PICK e \in Event : ClaimEvent(w, e)
    BY <1>2
  <2> DEFINE row == [pc |-> "claimed", event |-> e]
  <2>2. /\ inbox[e] # "unsent" /\ inbox' = [inbox EXCEPT ![e] = "processing"]
        /\ worker' = [worker EXCEPT ![w] = row]
        /\ UNCHANGED <<charge, case, payment>>
    BY <2>1 DEF ClaimEvent, stripe, projected
  <2>3. row \in WorkerRow /\ row.pc = "claimed" /\ row.event = e
    BY DEF WorkerRow
  <2> HIDE DEF row
  <2>4. /\ worker' \in [Workers -> WorkerRow] /\ worker'[w] = row
        /\ \A v \in Workers : v # w => worker'[v] = worker[v]
    BY <1>1, <2>2, <2>3, WorkerAt
  <2>5. case' \in [Payments -> CaseStatus]
    BY <1>1, <2>2 DEF FollowTyped
  <2> QED BY <2>2, <2>3, <2>4, <2>5, MarkRefund
<1>3. CASE RetrieveResource(w)
  BY <1>3, RetrieveRefund
<1>4. CASE \E p \in Payments : RefuseEvent(w, p)
  <2>1. /\ worker[w].pc = "read" /\ Became(w, "thrown")
        /\ UNCHANGED <<charge, case, payment, inbox>>
    BY <1>4 DEF RefuseEvent, stripe, projected
  <2>2. /\ worker' \in [Workers -> WorkerRow]
        /\ worker'[w].pc = "thrown" /\ worker'[w].event = worker[w].event
        /\ \A v \in Workers : v # w => worker'[v] = worker[v]
    BY <1>1, <2>1, BecameRow
  <2>3. inbox[worker'[w].event] # "unsent"
    BY <1>1, <2>1, <2>2 DEF WorksOnSent
  <2>4. FollowTyped'
    BY <1>1, <2>1, <2>2 DEF FollowTyped
  <2> QED BY <2>1, <2>2, <2>3, <2>4, QuietRefund
<1>5. CASE \E p \in Payments : PartialRefund(w, p) \/ FullRefund(w, p)
  BY <1>5, RecordRefund
<1>6. CASE \E p \in Payments : RecordDispute(w, p) \/ TakeDisputed(w, p) \/ WinDispute(w, p)
  BY <1>6, DisputeRefund
<1>7. Resting \in WorkerRow /\ Resting.pc = "idle"
  BY DEF Resting, WorkerRow
<1>8. CASE FinishEvent(w)
  <2> DEFINE e == worker[w].event
             mark == IF worker[w].pc = "done" THEN "succeeded" ELSE "failed"
  <2>1. /\ worker[w].pc \in {"done", "thrown"} /\ inbox' = [inbox EXCEPT ![e] = mark]
        /\ worker' = [worker EXCEPT ![w] = Resting]
        /\ UNCHANGED <<charge, case, payment>>
    BY <1>8 DEF FinishEvent, stripe, projected
  <2>2. e \in Event /\ inbox[e] # "unsent"
    BY <1>1, <2>1, WorkerShape DEF WorksOnSent
  <2>3. /\ worker' \in [Workers -> WorkerRow] /\ worker'[w] = Resting
        /\ \A v \in Workers : v # w => worker'[v] = worker[v]
    BY <1>1, <1>7, <2>1, WorkerAt
  <2>4. case' \in [Payments -> CaseStatus]
    BY <1>1, <2>1 DEF FollowTyped
  <2>5. mark \in {"pending", "processing", "succeeded", "failed"}
    OBVIOUS
  <2>6. mark = "succeeded" => \E v \in Workers : worker[v].pc = "done" /\ worker[v].event = e
    OBVIOUS
  <2> HIDE DEF mark
  <2> QED BY <1>7, <2>1, <2>2, <2>3, <2>4, <2>5, <2>6, MarkRefund
<1>9. CASE LoseWorker(w)
  <2>1. /\ worker' = [worker EXCEPT ![w] = Resting]
        /\ UNCHANGED <<charge, case, payment, inbox>>
    BY <1>9 DEF LoseWorker, stripe, projected
  <2>2. /\ worker' \in [Workers -> WorkerRow] /\ worker'[w] = Resting
        /\ \A v \in Workers : v # w => worker'[v] = worker[v]
    BY <1>1, <1>7, <2>1, WorkerAt
  <2>3. FollowTyped'
    BY <1>1, <2>1, <2>2 DEF FollowTyped
  <2> QED BY <1>7, <2>1, <2>2, <2>3, QuietRefund
<1> QED BY <1>2, <1>3, <1>4, <1>5, <1>6, <1>8, <1>9 DEF Work

LEMMA InitFollow == InitAll => FollowTyped
BY DEF InitAll, FollowTyped, Refunded, CaseStatus, Resting, WorkerRow

LEMMA InitRefund == InitAll => RefundInv
<1> SUFFICES ASSUME InitAll PROVE RefundInv
  OBVIOUS
<1>1. \A p \in Payments : RefundKnown(p)
  <2> SUFFICES ASSUME NEW p \in Payments PROVE RefundKnown(p)
    OBVIOUS
  <2>1. inbox[Ev("charge.full", p)] = "unsent" /\ inbox[Ev("charge.partial", p)] = "unsent"
    BY EventKinds DEF InitAll
  <2> QED BY <2>1 DEF InitAll, RefundKnown, IsSent, IsDone
<1>2. \A w \in Workers : WorksOnSent(w) /\ RefundRead(w)
  BY DEF InitAll, WorksOnSent, RefundRead, Resting
<1> QED BY <1>1, <1>2, InitReview, InitFollow DEF RefundInv

LEMMA NextRefund == RefundInv /\ [NextAll]_allVars => RefundInv'
<1> SUFFICES ASSUME RefundInv, [NextAll]_allVars PROVE RefundInv'
  OBVIOUS
<1>1. ReviewInv'
  BY NextReview DEF RefundInv
<1>2. FollowTyped /\ payment \in [Payments -> PaymentRow]
  BY DEF RefundInv, ReviewInv, ProjectionTyped
<1>3. CASE Use \/ UNCHANGED allVars
  <2>1. UNCHANGED <<payment, charge, case, inbox, worker>>
    BY <1>3 DEF Use, allVars, stripe, projected
  <2>2. FollowTyped'
    BY <1>2, <2>1 DEF FollowTyped
  <2> QED BY <1>1, <2>1, <2>2, QuietRefund
<1>4. ASSUME NEW p \in Payments, FulfillPayment(p) PROVE RefundInv'
  <2>1. /\ payment[p].status = "none" /\ payment' = [payment EXCEPT ![p].status = "paid"]
        /\ UNCHANGED <<charge, case, inbox, worker>>
    BY <1>4 DEF FulfillPayment, stripe
  <2>2. FollowTyped'
    BY <1>2, <2>1 DEF FollowTyped
  <2>3. \A q \in Payments :
          /\ payment'[q].refunded = payment[q].refunded
          /\ payment'[q].status = "refunded" <=> payment[q].status = "refunded"
          /\ payment'[q].status = "none" => payment[q].status = "none"
    BY <1>2, <2>1 DEF PaymentRow
  <2> QED BY <1>1, <2>1, <2>2, <2>3, QuietRefund
<1>5. ASSUME NEW p \in Payments, NEW amount \in Refunded, RefundCharge(p, amount)
      PROVE  RefundInv'
  BY <1>1, <1>5, RefundChargeRefund
<1>6. ASSUME NEW p \in Payments, NEW status \in CaseStatus, MoveCase(p, status)
      PROVE  RefundInv'
  <2> DEFINE kind == IF status = "open" THEN "dispute.created" ELSE "dispute.closed"
             e == Ev(kind, p)
  <2>1. /\ case' = [case EXCEPT ![p] = status] /\ inbox' = [inbox EXCEPT ![e] = "pending"]
        /\ UNCHANGED <<charge, payment, worker>>
    BY <1>6 DEF MoveCase, Sent, Ev, projected
  <2>2. e \in Event /\ e.kind \in {"dispute.created", "dispute.closed"}
    BY EventKinds
  <2> HIDE DEF e
  <2>3. case' \in [Payments -> CaseStatus] /\ worker' \in [Workers -> WorkerRow]
    BY <1>2, <2>1 DEF FollowTyped
  <2> QED BY <1>1, <2>1, <2>2, <2>3, MarkRefund
<1>7. ASSUME NEW w \in Workers, Work(w) \/ LoseWorker(w) PROVE RefundInv'
  BY <1>1, <1>7, WorkRefund
<1> QED BY <1>3, <1>4, <1>5, <1>6, <1>7 DEF NextAll

\* Once every event about a payment has been processed, the refund on record is the
\* one at Stripe, for any number of payments and of concurrent workers, although
\* processRefundedStripeCharge reads the charge before its transaction.
THEOREM RefundFollowed == SpecAll => []RefundFollowsStripe
<1>1. SpecAll => []RefundInv
  BY InitRefund, NextRefund, PTL DEF SpecAll
<1>2. RefundInv => RefundFollowsStripe
  <2> SUFFICES ASSUME RefundInv, NEW p \in Payments, Settled(p), charge[p] # "none"
               PROVE  /\ payment[p].refunded = charge[p]
                      /\ charge[p] = "full" <=> payment[p].status = "refunded"
    BY DEF RefundFollowsStripe
  <2>1. RefundKnown(p) /\ charge[p] \in Refunded /\ payment[p] \in PaymentRow
    BY DEF RefundInv, FollowTyped, ReviewInv, ProjectionTyped
  <2>2. \A kind \in {"charge.partial", "charge.full"} : IsSent(kind, p) => IsDone(kind, p)
    BY EventKinds DEF Settled, IsSent, IsDone
  <2> QED BY <2>1, <2>2 DEF RefundKnown, Refunded, PaymentRow
<1> QED BY <1>1, <1>2, PTL

-----------------------------------------------------------------------------
(* The books under refunds and disputes.                                   *)

\* What disputes took and gave back; a payment that is not known has no grants.
TakenTyped == taken \in [Grants -> [reversed : Nat, reinstated : Nat]]
Unsold == \A p \in Payments : payment[p].status = "none" => GrantsOf[p] \cap Issued = {}

StripeBooks == Books /\ ReviewInv /\ TakenTyped /\ Unsold

\* An order of a finite set, each member once, is a list of the whole set.
LEMMA WholeOrder ==
  ASSUME NEW G, IsFiniteSet(G), NEW order \in [1..Cardinality(G) -> G], IsInjective(order)
  PROVE  order \in Seq(G) /\ Range(order) = G
<1>1. Cardinality(G) \in Nat
  BY FS_CardinalityType
<1>2. /\ IsFiniteSet(1..Cardinality(G)) /\ Cardinality(1..Cardinality(G)) = Cardinality(G)
  BY <1>1, FS_Interval
<1>3. order \in Injection(1..Cardinality(G), G)
  BY DEF Injection
<1>4. order \in Surjection(1..Cardinality(G), G)
  BY <1>2, <1>3, FS_Injection
<1>5. Range(order) = G
  BY <1>4 DEF Surjection, Range
<1>6. order \in Seq(G)
  BY <1>1
<1> QED BY <1>5, <1>6

\* One list after another: what each has, and nothing twice when they share nothing.
LEMMA ListsJoined ==
  ASSUME NEW S, NEW s \in Seq(S), NEW t \in Seq(S), Range(s) \cap Range(t) = {},
         IsInjective(s), IsInjective(t)
  PROVE  /\ s \o t \in Seq(S) /\ Range(s \o t) = Range(s) \cup Range(t)
         /\ IsInjective(s \o t)
<1> DEFINE m == Len(s)
           n == Len(t)
           u == s \o t
<1>1. /\ m \in Nat /\ n \in Nat /\ DOMAIN s = 1..m /\ DOMAIN t = 1..n
      /\ u \in Seq(S) /\ DOMAIN u = 1..(m + n)
      /\ \A i \in 1..(m + n) : u[i] = IF i <= m THEN s[i] ELSE t[i - m]
  OBVIOUS
<1> HIDE DEF m, n, u
<1>2. \A i \in 1..m : u[i] = s[i] /\ i \in 1..(m + n)
  BY <1>1
<1>3. ASSUME NEW i \in 1..n PROVE u[m + i] = t[i] /\ m + i \in 1..(m + n)
  <2>1. m + i \in 1..(m + n) /\ ~(m + i <= m) /\ (m + i) - m = i
    BY <1>1
  <2> QED BY <1>1, <2>1
<1>4. \A i \in 1..(m + n) : i \in 1..m \/ \E k \in 1..n : i = m + k
  <2> SUFFICES ASSUME NEW i \in 1..(m + n), i \notin 1..m PROVE \E k \in 1..n : i = m + k
    OBVIOUS
  <2>1. i - m \in 1..n /\ i = m + (i - m)
    BY <1>1
  <2> QED BY <2>1
<1>5. Range(u) = Range(s) \cup Range(t)
  <2>1. ASSUME NEW x \in Range(u) PROVE x \in Range(s) \cup Range(t)
    <3>1. PICK i \in 1..(m + n) : u[i] = x
      BY <1>1 DEF Range
    <3>2. CASE i \in 1..m
      BY <1>1, <1>2, <3>1, <3>2 DEF Range
    <3>3. CASE \E k \in 1..n : i = m + k
      <4>1. PICK k \in 1..n : i = m + k
        BY <3>3
      <4>2. t[k] = x
        BY <1>3, <3>1, <4>1
      <4> QED BY <1>1, <4>2 DEF Range
    <3> QED BY <1>4, <3>2, <3>3
  <2>2. ASSUME NEW x \in Range(s) PROVE x \in Range(u)
    BY <1>1, <1>2 DEF Range
  <2>3. ASSUME NEW x \in Range(t) PROVE x \in Range(u)
    <3>1. PICK k \in 1..n : t[k] = x
      BY <1>1 DEF Range
    <3>2. u[m + k] = x /\ m + k \in DOMAIN u
      BY <1>1, <1>3, <3>1
    <3> QED BY <3>2 DEF Range
  <2> QED BY <2>1, <2>2, <2>3
<1>6. \A i, k \in 1..(m + n) : u[i] = u[k] => i = k
  <2> SUFFICES ASSUME NEW i \in 1..(m + n), NEW k \in 1..(m + n), u[i] = u[k] PROVE i = k
    OBVIOUS
  <2>1. \A a \in 1..m : u[a] \in Range(s)
    BY <1>1, <1>2 DEF Range
  <2>2. \A a \in 1..n : u[m + a] \in Range(t)
    BY <1>1, <1>3 DEF Range
  <2>3. CASE i \in 1..m /\ k \in 1..m
    BY <1>1, <1>2, <2>3 DEF IsInjective
  <2>4. CASE i \notin 1..m /\ k \notin 1..m
    <3>1. PICK a \in 1..n : i = m + a
      BY <1>4, <2>4
    <3>2. PICK b \in 1..n : k = m + b
      BY <1>4, <2>4
    <3>3. t[a] = t[b]
      BY <1>3, <3>1, <3>2
    <3> QED BY <1>1, <3>1, <3>2, <3>3 DEF IsInjective
  <2>5. CASE i \in 1..m /\ k \notin 1..m
    BY <1>4, <2>1, <2>2, <2>5
  <2>6. CASE i \notin 1..m /\ k \in 1..m
    BY <1>4, <2>1, <2>2, <2>6
  <2> QED BY <2>3, <2>4, <2>5, <2>6
<1>7. IsInjective(u)
  BY <1>1, <1>6 DEF IsInjective
<1> QED BY <1>1, <1>5, <1>7 DEF u

\* Fulfilling a payment issues the grants it bought.
LEMMA FulfillIssue ==
  ASSUME StripeBooks, NEW p \in Payments, FulfillPayment(p)
  PROVE  Issue(GrantsOf[p]) /\ IsInjective(issued)'
<1> DEFINE G == GrantsOf[p]
<1>1. G \subseteq Grants /\ IsFiniteSet(G)
  BY PaymentAssumption, BookAssumption, FS_Subset
<1>2. G \cap Issued = {}
  BY DEF StripeBooks, Unsold, FulfillPayment
<1>3. PICK order \in [1..Cardinality(G) -> G] : IsInjective(order) /\ issued' = issued \o order
  BY DEF FulfillPayment
<1>4. order \in Seq(G) /\ Range(order) = G
  BY <1>1, <1>3, WholeOrder
<1>5. order \in Seq(Grants) /\ issued \in Seq(Grants) /\ IsInjective(issued)
  <2>1. order \in [1..Cardinality(G) -> Grants] /\ Cardinality(G) \in Nat
    BY <1>1, <1>3, FS_CardinalityType
  <2> QED BY <2>1 DEF StripeBooks, Books, BookInv, RowsTyped
<1>6. Range(issued) \cap Range(order) = {}
  BY <1>2, <1>4 DEF Issued
<1> HIDE DEF G
<1>7. issued' \in Seq(Grants) /\ Range(issued') = Range(issued) \cup G /\ IsInjective(issued')
  BY <1>3, <1>4, <1>5, <1>6, ListsJoined
<1>8. Issued' = Issued \cup G /\ IsInjective(issued)'
  BY <1>7 DEF Issued
<1> USE DEF G
<1> QED BY <1>1, <1>2, <1>7, <1>8 DEF FulfillPayment, Issue

\* Steps that know no more and no fewer payments, sell nothing and take nothing.
LEMMA StripeStays ==
  ASSUME StripeBooks, Books', ReviewInv', UNCHANGED <<issued, taken>>,
         \A p \in Payments : payment'[p].status = "none" => payment[p].status = "none"
  PROVE  StripeBooks'
BY DEF StripeBooks, TakenTyped, Unsold, Issued

\* A payment that has a status keeps having one.
LEMMA StatusStays ==
  ASSUME ProjectionTyped, NEW p \in Payments, NEW row \in PaymentRow, row.status # "none",
         payment' = [payment EXCEPT ![p] = row]
  PROVE  \A q \in Payments : payment'[q].status = "none" => payment[q].status = "none"
BY DEF ProjectionTyped

\* What the events of Stripe write is foreign to grants and runs.
LEMMA StripeForeign ==
  ASSUME NEW p, NEW kind \in {"refund", "dispute", "reinstate"}
  PROVE  Foreign(<<kind, p>>)
BY DEF Foreign, Outcome

\* The account is as it was, blocked for a reason, or restored.
LEMMA AccountKept ==
  ASSUME AccountTyped, NEW reason \in Reason, NEW payments, NEW disputes, NEW acct,
         acct \in {account, Blocked(reason)},
         account' \in {acct, Review(reason), Restored(acct, payments, disputes)}
  PROVE  account' \in [status : {"active", "blocked_review"}, reason : Reason]
BY DEF AccountTyped, Blocked, Review, Restored, Reason

\* Reservations and settlements go on as in the book alone.
LEMMA UseStripe ==
  ASSUME StripeBooks, ReviewInv', Use PROVE StripeBooks'
<1>1. Books'
  <2>1. Books /\ account \in [status : {"active", "blocked_review"}, reason : Reason]
    BY DEF StripeBooks, Books, AccountTyped
  <2>2. ASSUME NEW s \in Settlers, NEW j \in Jobs, NEW o \in Outcome, BeginSettle(s, j, o)
        PROVE Books'
    <3>1. settler' \in [Settlers -> [job : Jobs, outcome : Outcome] \cup {Idle}]
      BY <2>1, <2>2 DEF BeginSettle, Books, BookInv, RowsTyped
    <3> QED BY <2>1, <2>2, <3>1, BooksStay DEF BeginSettle
  <2> QED BY <2>1, <2>2, ReserveBooks, SettleBooks DEF Use
<1>2. UNCHANGED <<issued, taken, payment>>
  BY DEF Use, Reserve, WriteReservation, BeginSettle, Settle, projected, book
<1> QED BY <1>1, <1>2, StripeStays

LEMMA FulfillStripe ==
  ASSUME StripeBooks, ReviewInv', NEW p \in Payments, FulfillPayment(p) PROVE StripeBooks'
<1>1. Issue(GrantsOf[p]) /\ IsInjective(issued)'
  BY FulfillIssue
<1>2. /\ account' = account /\ taken' = taken
      /\ payment' = [payment EXCEPT ![p].status = "paid"]
  BY DEF FulfillPayment
<1>3. Books'
  BY <1>1, <1>2, IssueBooks DEF StripeBooks, Books, AccountTyped
<1>4. \A q \in Payments : payment'[q].status = "none" => q # p /\ payment[q].status = "none"
  BY <1>2 DEF StripeBooks, ReviewInv, ProjectionTyped, PaymentRow
<1>5. Issued' = Issued \cup GrantsOf[p]
  BY <1>1 DEF Issue
<1>6. Unsold'
  BY <1>4, <1>5, PaymentAssumption DEF StripeBooks, Unsold
<1> QED BY <1>2, <1>3, <1>6 DEF StripeBooks, TakenTyped

\* A refund that is not of everything only blocks the account.
LEMMA PartialStripe ==
  ASSUME StripeBooks, ReviewInv', NEW w \in Workers, NEW p \in Payments, PartialRefund(w, p)
  PROVE  StripeBooks'
<1> DEFINE row == [status |-> "partially_refunded", refunded |-> "partial"]
<1>1. /\ UNCHANGED <<book, storage, hold, settler, taken>>
      /\ payment' = [payment EXCEPT ![p] = row]
      /\ account' = Review("partial_refund_manual_review")
  BY DEF PartialRefund
<1>2. Books /\ AccountTyped /\ ProjectionTyped
  BY DEF StripeBooks, Books, ReviewInv
<1>3. account' \in [status : {"active", "blocked_review"}, reason : Reason]
  BY <1>1, <1>2, AccountKept DEF Reason
<1>4. settler' \in [Settlers -> [job : Jobs, outcome : Outcome] \cup {Idle}]
  BY <1>1, <1>2 DEF Books, BookInv, RowsTyped
<1>5. Books'
  BY <1>1, <1>2, <1>3, <1>4, BooksStay
<1>6. row \in PaymentRow /\ row.status # "none"
  BY DEF PaymentRow, Status, Refunded
<1> HIDE DEF row
<1>7. \A q \in Payments : payment'[q].status = "none" => payment[q].status = "none"
  BY <1>1, <1>2, <1>6, StatusStays
<1> QED BY <1>1, <1>5, <1>7, StripeStays DEF book

LEMMA FullStripe ==
  ASSUME StripeBooks, ReviewInv', NEW w \in Workers, NEW p \in Payments, FullRefund(w, p)
  PROVE  StripeBooks'
<1> DEFINE row == [status |-> "refunded", refunded |-> "full"]
           event == <<"refund", p>>
           acct == IF Consumed(GrantsOf[p], event) THEN Blocked("payment_refunded") ELSE account
<1>1. /\ ReverseUnused(GrantsOf[p], event) /\ taken' = taken
      /\ payment' = [payment EXCEPT ![p] = row]
      /\ account' \in {acct, Restored(acct, payment', dispute)}
  BY DEF FullRefund
<1>2. Books /\ AccountTyped /\ ProjectionTyped
  BY DEF StripeBooks, Books, ReviewInv
<1>3. account' \in [status : {"active", "blocked_review"}, reason : Reason]
  <2>1. acct \in {account, Blocked("payment_refunded")} /\ "payment_refunded" \in Reason
    BY DEF Reason
  <2> HIDE DEF acct
  <2> QED BY <1>1, <1>2, <2>1, AccountKept
<1>4. Foreign(event) /\ GrantsOf[p] \subseteq Grants
  BY StripeForeign, PaymentAssumption
<1> HIDE DEF event
<1>5. Books'
  BY <1>1, <1>2, <1>3, <1>4, ReverseBooks
<1>6. row \in PaymentRow /\ row.status # "none" /\ issued' = issued
  BY <1>1 DEF PaymentRow, Status, Refunded, ReverseUnused
<1> HIDE DEF row
<1>7. \A q \in Payments : payment'[q].status = "none" => payment[q].status = "none"
  BY <1>1, <1>2, <1>6, StatusStays
<1> QED BY <1>1, <1>5, <1>6, <1>7, StripeStays

\* A dispute over another amount, or about a refunded payment, is only recorded.
LEMMA RecordStripe ==
  ASSUME StripeBooks, ReviewInv', NEW w \in Workers, NEW p \in Payments, RecordDispute(w, p)
  PROVE  StripeBooks'
<1>1. /\ UNCHANGED <<book, storage, hold, settler, taken>>
      /\ payment' \in {payment, [payment EXCEPT ![p].status = "disputed"]}
      /\ account' \in {account, Review("payment_disputed")}
  BY DEF RecordDispute
<1>2. Books /\ AccountTyped /\ ProjectionTyped
  BY DEF StripeBooks, Books, ReviewInv
<1>3. account' \in [status : {"active", "blocked_review"}, reason : Reason]
  BY <1>1, <1>2, AccountKept DEF Reason
<1>4. settler' \in [Settlers -> [job : Jobs, outcome : Outcome] \cup {Idle}]
  BY <1>1, <1>2 DEF Books, BookInv, RowsTyped
<1>5. Books'
  BY <1>1, <1>2, <1>3, <1>4, BooksStay
<1>6. \A q \in Payments : payment'[q].status = "none" => payment[q].status = "none"
  BY <1>1, <1>2 DEF ProjectionTyped, PaymentRow
<1> QED BY <1>1, <1>5, <1>6, StripeStays DEF book

\* The grants of p that its dispute has taken nothing from.
Fresh(p) == {g \in GrantsOf[p] : taken[g].reversed = 0}

LEMMA TakeStripe ==
  ASSUME StripeBooks, ReviewInv', NEW w \in Workers, NEW p \in Payments, TakeDisputed(w, p)
  PROVE  StripeBooks'
<1> DEFINE event == <<"dispute", p>>
<1>1. /\ ReverseUnused(Fresh(p), event)
      /\ taken' = [g \in Grants |-> IF g \in Reversible(Fresh(p), event)
                                    THEN [taken[g] EXCEPT !.reversed = grant[g].available]
                                    ELSE taken[g]]
      /\ payment' = [payment EXCEPT ![p].status = "disputed"]
      /\ account' \in {account, Blocked("payment_disputed")}
  BY DEF TakeDisputed, Fresh
<1>2. Books /\ AccountTyped /\ ProjectionTyped /\ Columns
  BY DEF StripeBooks, Books, ReviewInv
<1>3. account' \in [status : {"active", "blocked_review"}, reason : Reason]
  BY <1>1, <1>2, AccountKept DEF Reason
<1>4. Foreign(event) /\ Fresh(p) \subseteq Grants
  BY StripeForeign, PaymentAssumption DEF Fresh
<1> HIDE DEF event
<1>5. Books' /\ issued' = issued
  BY <1>1, <1>2, <1>3, <1>4, ReverseBooks DEF ReverseUnused
<1>6. \A q \in Payments : payment'[q].status = "none" => payment[q].status = "none"
  BY <1>1, <1>2 DEF ProjectionTyped, PaymentRow
<1>7. TakenTyped'
  <2>1. \A g \in Grants : grant[g].available \in Nat
    BY <1>2 DEF Columns
  <2>2. taken \in [Grants -> [reversed : Nat, reinstated : Nat]]
    BY DEF StripeBooks, TakenTyped
  <2> QED BY <1>1, <2>1, <2>2 DEF TakenTyped
<1>8. Unsold'
  BY <1>5, <1>6 DEF StripeBooks, Unsold, Issued
<1> QED BY <1>5, <1>7, <1>8 DEF StripeBooks

\* What WinDispute(w, p) gives back: what the dispute took and still has, unless
\* a full refund has superseded it.
Owed(p) == {g \in GrantsOf[p] : /\ payment[p].refunded # "full"
                                /\ taken[g].reversed > taken[g].reinstated}
Owing(p) == [g \in Owed(p) |-> taken[g].reversed - taken[g].reinstated]

LEMMA WinStripe ==
  ASSUME StripeBooks, ReviewInv', NEW w \in Workers, NEW p \in Payments, WinDispute(w, p)
  PROVE  StripeBooks'
<1> DEFINE event == <<"reinstate", p>>
           full == payment[p].refunded = "full"
<1>0. Owed(p) = {g \in GrantsOf[p] : ~full /\ taken[g].reversed > taken[g].reinstated}
  BY DEF Owed
<1>1. /\ Reinstate(Owing(p), event)
      /\ taken' = [g \in Grants |-> IF g \in Owed(p)
                                    THEN [taken[g] EXCEPT !.reinstated = taken[g].reversed]
                                    ELSE taken[g]]
      /\ payment' = [payment EXCEPT ![p].status =
                       IF full THEN "refunded"
                       ELSE IF payment[p].refunded = "partial" THEN "partially_refunded"
                       ELSE "paid"]
      /\ account' \in {account, Restored(account, payment', dispute')}
  BY <1>0 DEF WinDispute, Owing
<1>2. Books /\ AccountTyped /\ ProjectionTyped /\ TakenTyped
  BY DEF StripeBooks, Books, ReviewInv
<1>3. account' \in [status : {"active", "blocked_review"}, reason : Reason]
  BY <1>1, <1>2, AccountKept DEF Reason
<1>4. /\ Foreign(event) /\ DOMAIN Owing(p) \subseteq Grants
      /\ \A g \in DOMAIN Owing(p) : Owing(p)[g] \in Nat
  <2>1. DOMAIN Owing(p) = Owed(p) /\ Owed(p) \subseteq Grants
    BY PaymentAssumption DEF Owing, Owed
  <2>2. \A g \in Owed(p) : Owing(p)[g] = taken[g].reversed - taken[g].reinstated
    BY DEF Owing
  <2>3. \A g \in Owed(p) : taken[g].reversed - taken[g].reinstated \in Nat
    BY <1>2, <2>1 DEF Owed, TakenTyped
  <2> QED BY <2>1, <2>2, <2>3, StripeForeign
<1> HIDE DEF event
<1>5. Books' /\ issued' = issued
  BY <1>1, <1>2, <1>3, <1>4, ReinstateBooks DEF Reinstate
<1>6. \A q \in Payments : payment'[q].status = "none" => payment[q].status = "none"
  BY <1>1, <1>2 DEF ProjectionTyped, PaymentRow
<1>7. TakenTyped'
  BY <1>1, <1>2 DEF TakenTyped
<1>8. Unsold'
  BY <1>5, <1>6 DEF StripeBooks, Unsold, Issued
<1> QED BY <1>5, <1>7, <1>8 DEF StripeBooks

LEMMA InitStripe == InitAll => StripeBooks
<1> SUFFICES ASSUME InitAll PROVE StripeBooks
  OBVIOUS
<1>1. Books /\ ReviewInv
  BY InitBooks, InitReview DEF InitAll
<1>2. TakenTyped
  BY DEF InitAll, TakenTyped
<1>3. Issued = {}
  BY DEF InitAll, Init, Issued, Range
<1> QED BY <1>1, <1>2, <1>3 DEF StripeBooks, Unsold

\* Steps of Stripe and of a worker that leave the database alone.
OutsideBook(w) ==
  \/ \E e \in Event : ClaimEvent(w, e)
  \/ RetrieveResource(w) \/ (\E p \in Payments : RefuseEvent(w, p))
  \/ FinishEvent(w) \/ LoseWorker(w)

\* What a worker writes for a payment.
Projects(w, p) ==
  PartialRefund(w, p) \/ FullRefund(w, p)
    \/ RecordDispute(w, p) \/ TakeDisputed(w, p) \/ WinDispute(w, p)

LEMMA StepsOfNextAll ==
  ASSUME [NextAll]_allVars
  PROVE  \/ Use
         \/ \E p \in Payments : FulfillPayment(p)
         \/ \E w \in Workers, p \in Payments : Projects(w, p)
         \/ UNCHANGED <<vars, projected>>
<1>1. ASSUME NEW w \in Workers, OutsideBook(w) PROVE UNCHANGED <<vars, projected>>
  BY <1>1 DEF OutsideBook, ClaimEvent, RetrieveResource, RefuseEvent, FinishEvent, LoseWorker
<1>2. ASSUME NEW w \in Workers, Work(w) \/ LoseWorker(w)
      PROVE  OutsideBook(w) \/ \E p \in Payments : Projects(w, p)
  BY <1>2 DEF Work, OutsideBook, Projects
<1>3. ASSUME NEW p \in Payments,
             \/ \E amount \in Refunded : RefundCharge(p, amount)
             \/ \E status \in CaseStatus : MoveCase(p, status)
      PROVE  UNCHANGED <<vars, projected>>
  BY <1>3 DEF RefundCharge, MoveCase
<1>4. UNCHANGED allVars => UNCHANGED <<vars, projected>>
  BY DEF allVars
<1> QED BY <1>1, <1>2, <1>3, <1>4 DEF NextAll

LEMMA NextStripe == StripeBooks /\ [NextAll]_allVars => StripeBooks'
<1> SUFFICES ASSUME StripeBooks, [NextAll]_allVars PROVE StripeBooks'
  OBVIOUS
<1>1. ReviewInv'
  BY NextReview DEF StripeBooks
<1>2. CASE UNCHANGED <<vars, projected>>
  <2>1. /\ Books /\ settler \in [Settlers -> [job : Jobs, outcome : Outcome] \cup {Idle}]
        /\ account \in [status : {"active", "blocked_review"}, reason : Reason]
    BY DEF StripeBooks, Books, AccountTyped, BookInv, RowsTyped
  <2>2. UNCHANGED <<book, storage, hold, settler, account, payment, taken>>
    BY <1>2 DEF vars, projected
  <2>3. Books'
    BY <2>1, <2>2, BooksStay
  <2> QED BY <1>1, <2>2, <2>3, StripeStays DEF book
<1>3. ASSUME NEW w \in Workers, NEW p \in Payments, Projects(w, p) PROVE StripeBooks'
  BY <1>1, <1>3, PartialStripe, FullStripe, RecordStripe, TakeStripe, WinStripe DEF Projects
<1> QED BY <1>1, <1>2, <1>3, UseStripe, FulfillStripe, StepsOfNextAll

LEMMA StripeAlways == SpecAll => []StripeBooks
BY InitStripe, NextStripe, PTL DEF SpecAll

\* Grants, balance and ledger agree, no column is negative and no CHECK constraint
\* aborts a transaction although payments are refunded, disputed and won back by
\* events that are repeated, late and out of order, and although workers die and
\* runs reserve and settle meanwhile.
THEOREM BooksSurvive == SpecAll => [](BooksAgree /\ RowsAddUp /\ TypeOK)
<1>1. StripeBooks => BooksAgree /\ RowsAddUp /\ TypeOK
  BY BooksTyped DEF StripeBooks, Books, BookInv, BalanceOfGrants, LedgerOfBalance, BooksAgree
<1> QED BY <1>1, StripeAlways, PTL

-----------------------------------------------------------------------------
(* What is missing from a grant.                                           *)

\* The entries by which refunds took credits of g, and what they say.
RefundsOf(p, g) == {e \in ledger : e.event = <<"refund", p>> /\ e.grant = g}
RefundSum(p, g) == SumFunction([e \in RefundsOf(p, g) |-> e.available])

\* ReversalsExact of one grant; a dispute that was recorded as won has given back
\* what it took, which was something, so it neither takes nor gives a second time.
TakenExact(p, g) ==
  /\ grant[g].reversed = taken[g].reversed - taken[g].reinstated - RefundSum(p, g)
  /\ taken[g].reinstated \in {0, taken[g].reversed}
  /\ Recorded(<<"reinstate", p>>, g) =>
       taken[g].reversed # 0 /\ taken[g].reinstated = taken[g].reversed

ExactInv == StripeBooks /\ \A p \in Payments : \A g \in GrantsOf[p] : TakenExact(p, g)

\* A refund of p or a dispute that p won does not write these entries for g.
Unrelated(N, p, g) ==
  \A e \in N : e.grant = g => e.event # <<"refund", p>> /\ e.event # <<"reinstate", p>>

LEMMA RefundSumInt ==
  ASSUME StripeBooks, NEW p, NEW g PROVE RefundSum(p, g) \in Int
<1> DEFINE S == RefundsOf(p, g)
           f == [e \in S |-> e.available]
<1>1. IsFiniteSet(ledger) /\ S \subseteq ledger /\ \A e \in ledger : e.available \in Int
  BY DEF StripeBooks, Books, LedgerRows, RefundsOf
<1>2. IsFiniteSet(S) /\ \A e \in S : f[e] \in Int
  BY <1>1, FS_Subset
<1> HIDE DEF S
<1>3. SumFunction(f) = SumFunctionOnSet(f, S)
  BY DEF SumFunction
<1>4. Ints(f, S)
  BY <1>2 DEF Ints
<1> HIDE DEF f
<1>5. SumFunction(f) \in Int
  BY <1>2, <1>3, <1>4, SumInt
<1> QED BY <1>5 DEF RefundSum, f, S

\* Entries of other events leave the sum of the refunds alone.
LEMMA RefundSumStays ==
  ASSUME NEW p, NEW g, NEW N, ledger' = ledger \cup N,
         \A e \in N : e.grant = g => e.event # <<"refund", p>>
  PROVE  RefundSum(p, g)' = RefundSum(p, g)
<1>1. RefundsOf(p, g)' = RefundsOf(p, g)
  BY DEF RefundsOf
<1> QED BY <1>1 DEF RefundSum

\* A grant whose reversed credits do not move, in a step that writes nothing
\* about it that counts.
LEMMA ExactStays ==
  ASSUME NEW p, NEW g, TakenExact(p, g), NEW N, ledger' = ledger \cup N, Unrelated(N, p, g),
         grant'[g].reversed = grant[g].reversed, taken'[g] = taken[g]
  PROVE  TakenExact(p, g)'
<1>1. RefundSum(p, g)' = RefundSum(p, g)
  BY RefundSumStays DEF Unrelated
<1>2. Recorded(<<"reinstate", p>>, g)' <=> Recorded(<<"reinstate", p>>, g)
  BY DEF Recorded, Unrelated
<1> QED BY <1>1, <1>2 DEF TakenExact

\* Reservations, settlements and sales neither reverse nor reinstate.
LEMMA UseExact ==
  ASSUME ExactInv, Use
  PROVE  \A p \in Payments : \A g \in GrantsOf[p] : TakenExact(p, g)'
<1> SUFFICES ASSUME NEW p \in Payments, NEW g \in GrantsOf[p] PROVE TakenExact(p, g)'
  OBVIOUS
<1>1. /\ TakenExact(p, g) /\ taken' = taken /\ g \in Grants /\ Books
      /\ grant[g] \in GrantRow /\ grant \in [Grants -> GrantRow]
  BY PaymentAssumption DEF ExactInv, StripeBooks, Books, BookInv, RowsTyped, Use, projected
<1>2. ASSUME NEW r \in Runs, Reserve(r) PROVE TakenExact(p, g)'
  <2>1. PICK N : N = ReserveEntries(r)
    OBVIOUS
  <2>2. ledger' = ledger \cup N
    BY <1>2, <2>1 DEF Reserve, WriteReservation, ReserveEntries
  <2>3. \A e \in N : \E j \in JobsOf[r] : e.event = <<"reserve", j>>
    BY <1>1, <1>2, <2>1, ReserveSums
  <2>4. Unrelated(N, p, g)
    BY <2>3 DEF Unrelated
  <2>5. grant'[g].reversed = grant[g].reversed
    BY <1>1, <1>2 DEF Reserve, WriteReservation, GrantRow
  <2> QED BY <1>1, <2>2, <2>4, <2>5, ExactStays
<1>3. ASSUME UNCHANGED <<grant, ledger>> PROVE TakenExact(p, g)'
  <2>1. ledger' = ledger \cup {} /\ Unrelated({}, p, g)
    BY <1>3 DEF Unrelated
  <2> QED BY <1>1, <1>3, <2>1, ExactStays
<1>4. ASSUME NEW s \in Settlers, Settle(s) PROVE TakenExact(p, g)'
  <2>1. CASE UNCHANGED <<grant, ledger>>
    BY <1>3, <2>1
  <2>2. CASE settler[s] # Idle /\ CloseItem(settler[s].job, settler[s].outcome)
    <3>1. settler[s].outcome \in Outcome /\ settler[s].job \in Jobs
      BY <1>1, <2>2 DEF Books, BookInv, RowsTyped
    <3>2. PICK j \in Jobs, o \in Outcome : CloseItem(j, o)
      BY <2>2, <3>1
    <3> DEFINE back == IF o = "released" THEN 1 ELSE 0
               N == {Entry(<<o, j>>, x, back * draw[j][x], -draw[j][x]) :
                       x \in {y \in Grants : draw[j][y] > 0}}
    <3>3. ledger' = ledger \cup N
      BY <3>2 DEF CloseItem
    <3>4. \A e \in N : e.event = <<o, j>>
      BY DEF Entry
    <3> HIDE DEF N
    <3>5. Unrelated(N, p, g)
      BY <3>2, <3>4 DEF Unrelated, Outcome
    <3>6. grant'[g].reversed = grant[g].reversed
      BY <1>1, <3>2 DEF CloseItem, GrantRow
    <3> QED BY <1>1, <3>3, <3>5, <3>6, ExactStays
  <2> QED BY <1>4, <2>1, <2>2 DEF Settle
<1> QED BY <1>2, <1>3, <1>4 DEF Use, BeginSettle, book

LEMMA FulfillExact ==
  ASSUME ExactInv, NEW q \in Payments, FulfillPayment(q)
  PROVE  \A p \in Payments : \A g \in GrantsOf[p] : TakenExact(p, g)'
<1> SUFFICES ASSUME NEW p \in Payments, NEW g \in GrantsOf[p] PROVE TakenExact(p, g)'
  OBVIOUS
<1> DEFINE N == {Entry(<<"grant">>, x, Amount[x], 0) : x \in GrantsOf[q]}
<1>1. /\ TakenExact(p, g) /\ taken' = taken /\ g \in Grants
      /\ grant[g] \in GrantRow /\ ledger' = ledger \cup N
  BY PaymentAssumption DEF ExactInv, StripeBooks, Books, BookInv, RowsTyped, FulfillPayment
<1>2. grant'[g].reversed = grant[g].reversed
  BY <1>1 DEF FulfillPayment, GrantRow
<1>3. \A e \in N : e.event = <<"grant">>
  BY DEF Entry
<1> HIDE DEF N
<1>4. <<"grant">> # <<"refund", p>> /\ <<"grant">> # <<"reinstate", p>>
  OBVIOUS
<1>5. Unrelated(N, p, g)
  BY <1>3, <1>4 DEF Unrelated
<1> QED BY <1>1, <1>2, <1>5, ExactStays

\* reverseUnusedCreditGrant, for each of the grants R that the event has not
\* reversed yet: it loses what it had available, and
\* there is an entry when that was something.
ReversedBy(N, R, event) ==
  /\ ledger' = ledger \cup N
  /\ \A e \in N : e.event = event /\ e.grant \in R
  /\ \A g \in R : /\ grant'[g].reversed = grant[g].reversed + grant[g].available
                  /\ grant[g].available = 0 => \A e \in N : e.grant # g
                  /\ grant[g].available # 0 =>
                       {e \in N : e.grant = g} = {Entry(event, g, -grant[g].available, 0)}
  /\ \A g \in Grants \ R : grant'[g] = grant[g]

LEMMA ReversedGrant ==
  ASSUME Books, NEW G, G \subseteq Grants, NEW event, ReverseUnused(G, event)
  PROVE  \E N : ReversedBy(N, Reversible(G, event), event)
<1> DEFINE R == Reversible(G, event)
           P == {x \in R : grant[x].available > 0}
           N == {Entry(event, g, -grant[g].available, 0) : g \in P}
<1>1. /\ ledger' = ledger \cup N
      /\ grant' = [g \in Grants |->
           IF g \in R THEN [grant[g] EXCEPT !.available = 0, !.reversed = @ + grant[g].available]
                      ELSE grant[g]]
  BY DEF ReverseUnused
<1>2. R \subseteq Grants /\ \A g \in Grants : grant[g] \in GrantRow /\ grant[g].available \in Nat
  BY DEF Reversible, Books, Columns, BookInv, RowsTyped
<1>3. \A e \in N : \E g \in P : e = Entry(event, g, -grant[g].available, 0)
                                /\ e.grant = g /\ e.event = event
  BY DEF Entry
<1>4. \A g \in P : LET e == Entry(event, g, -grant[g].available, 0) IN e \in N /\ e.grant = g
  BY DEF Entry
<1> HIDE DEF R, N
<1>5. ASSUME NEW g \in R
      PROVE  /\ grant'[g].reversed = grant[g].reversed + grant[g].available
             /\ grant[g].available = 0 => \A e \in N : e.grant # g
             /\ grant[g].available # 0 =>
                  {e \in N : e.grant = g} = {Entry(event, g, -grant[g].available, 0)}
  <2>1. grant'[g].reversed = grant[g].reversed + grant[g].available
    BY <1>1, <1>2, <1>5 DEF GrantRow
  <2>2. grant[g].available = 0 => g \notin P
    OBVIOUS
  <2>3. grant[g].available # 0 => g \in P
    BY <1>2, <1>5
  <2> HIDE DEF P
  <2> QED BY <1>3, <1>4, <2>1, <2>2, <2>3
<1>6. \A e \in N : e.event = event /\ e.grant \in R
  BY <1>3
<1>7. \A g \in Grants \ R : grant'[g] = grant[g]
  BY <1>1
<1>8. ReversedBy(N, R, event)
  BY <1>1, <1>5, <1>6, <1>7 DEF ReversedBy
<1> QED BY <1>8 DEF R

LEMMA FullExact ==
  ASSUME ExactInv, NEW w \in Workers, NEW q \in Payments, FullRefund(w, q)
  PROVE  \A p \in Payments : \A g \in GrantsOf[p] : TakenExact(p, g)'
<1> DEFINE event == <<"refund", q>>
           R == Reversible(GrantsOf[q], event)
<1>1. ReverseUnused(GrantsOf[q], event) /\ taken' = taken
  BY DEF FullRefund
<1>2. Books /\ GrantsOf[q] \subseteq Grants /\ StripeBooks
  BY PaymentAssumption DEF ExactInv, StripeBooks
<1>3. PICK N : ReversedBy(N, R, event)
  <2> HIDE DEF event
  <2> QED BY <1>1, <1>2, ReversedGrant
<1>4. /\ ledger' = ledger \cup N
      /\ \A e \in N : e.event = event /\ e.grant \in R
      /\ \A g \in R : /\ grant'[g].reversed = grant[g].reversed + grant[g].available
                      /\ grant[g].available = 0 => \A e \in N : e.grant # g
                      /\ grant[g].available # 0 =>
                           {e \in N : e.grant = g} = {Entry(event, g, -grant[g].available, 0)}
      /\ \A g \in Grants \ R : grant'[g] = grant[g]
  BY <1>3 DEF ReversedBy
<1> SUFFICES ASSUME NEW p \in Payments, NEW g \in GrantsOf[p] PROVE TakenExact(p, g)'
  OBVIOUS
<1>5. TakenExact(p, g) /\ g \in Grants /\ RefundSum(p, g) \in Int
  BY <1>2, PaymentAssumption, RefundSumInt DEF ExactInv
<1>6. grant[g].available \in Nat /\ grant[g].reversed \in Nat /\ taken[g].reversed \in Nat
      /\ taken[g].reinstated \in Nat
  BY <1>2, <1>5 DEF Books, Columns, StripeBooks, TakenTyped
<1>7. CASE g \notin R
  <2>1. Unrelated(N, p, g) /\ grant'[g] = grant[g]
    BY <1>4, <1>5, <1>7 DEF Unrelated
  <2> QED BY <1>1, <1>4, <1>5, <2>1, ExactStays
<1>8. CASE g \in R /\ grant[g].available = 0
  <2>1. Unrelated(N, p, g) /\ grant'[g].reversed = grant[g].reversed
    BY <1>4, <1>6, <1>8 DEF Unrelated
  <2> QED BY <1>1, <1>4, <1>5, <2>1, ExactStays
<1>9. CASE g \in R /\ grant[g].available # 0
  <2>1. p = q /\ ~Recorded(event, g)
    BY <1>9, PaymentAssumption DEF Reversible
  <2> DEFINE e == Entry(event, g, -grant[g].available, 0)
             f == [x \in {e} |-> x.available]
             none == [x \in {} |-> x.available]
  <2>2. RefundsOf(p, g) = {}
    BY <2>1 DEF RefundsOf, Recorded
  <2>3. RefundsOf(p, g)' = {x \in N : x.grant = g}
    BY <1>4, <2>1, <2>2 DEF RefundsOf
  <2>4. RefundsOf(p, g)' = {e}
    BY <1>4, <1>9, <2>3
  <2>5. e.available = -grant[g].available
    BY DEF Entry
  <2>6. RefundSum(p, g) = SumFunction(none) /\ RefundSum(p, g)' = SumFunction(f)
    BY <2>2, <2>4 DEF RefundSum
  <2>7. SumFunction(none) = SumFunctionOnSet(none, {}) /\ SumFunction(f) = SumFunctionOnSet(f, {e})
    BY DEF SumFunction
  <2>8. f[e] = -grant[g].available /\ f[e] \in Int
    BY <1>6, <2>5
  <2> HIDE DEF e, f, none
  <2>9. RefundSum(p, g) = 0 /\ RefundSum(p, g)' = -grant[g].available
    BY <2>6, <2>7, <2>8, SumEmpty, SumSingleton
  <2>10. Recorded(<<"reinstate", p>>, g)' <=> Recorded(<<"reinstate", p>>, g)
    BY <1>4 DEF Recorded
  <2>11. grant'[g].reversed = grant[g].reversed + grant[g].available /\ taken'[g] = taken[g]
    BY <1>1, <1>4, <1>9
  <2>12. grant'[g].reversed = taken'[g].reversed - taken'[g].reinstated - RefundSum(p, g)'
    BY <1>5, <1>6, <2>9, <2>11 DEF TakenExact
  <2> QED BY <1>5, <2>10, <2>11, <2>12 DEF TakenExact
<1> QED BY <1>7, <1>8, <1>9

LEMMA TakeExact ==
  ASSUME ExactInv, NEW w \in Workers, NEW q \in Payments, TakeDisputed(w, q)
  PROVE  \A p \in Payments : \A g \in GrantsOf[p] : TakenExact(p, g)'
<1> DEFINE event == <<"dispute", q>>
           R == Reversible(Fresh(q), event)
<1>1. /\ ReverseUnused(Fresh(q), event)
      /\ taken' = [g \in Grants |-> IF g \in R
                                    THEN [taken[g] EXCEPT !.reversed = grant[g].available]
                                    ELSE taken[g]]
  BY DEF TakeDisputed, Fresh
<1>2. Books /\ Fresh(q) \subseteq Grants /\ StripeBooks
  BY PaymentAssumption DEF ExactInv, StripeBooks, Fresh
<1>3. PICK N : ReversedBy(N, R, event)
  <2> HIDE DEF event
  <2> QED BY <1>1, <1>2, ReversedGrant
<1>4. /\ ledger' = ledger \cup N /\ \A e \in N : e.event = event
      /\ \A g \in R : grant'[g].reversed = grant[g].reversed + grant[g].available
      /\ \A g \in Grants \ R : grant'[g] = grant[g]
  BY <1>3 DEF ReversedBy
<1> SUFFICES ASSUME NEW p \in Payments, NEW g \in GrantsOf[p] PROVE TakenExact(p, g)'
  OBVIOUS
<1>5. TakenExact(p, g) /\ g \in Grants /\ RefundSum(p, g) \in Int
  BY <1>2, PaymentAssumption, RefundSumInt DEF ExactInv
<1>6. /\ grant[g].available \in Nat /\ grant[g].reversed \in Nat /\ taken[g].reversed \in Nat
      /\ taken[g].reinstated \in Nat /\ taken[g] \in [reversed : Nat, reinstated : Nat]
  BY <1>2, <1>5 DEF Books, Columns, StripeBooks, TakenTyped
<1>7. Unrelated(N, p, g)
  BY <1>4 DEF Unrelated
<1>8. CASE g \notin R
  <2>1. grant'[g] = grant[g] /\ taken'[g] = taken[g]
    BY <1>1, <1>4, <1>5, <1>8
  <2> QED BY <1>4, <1>5, <1>7, <2>1, ExactStays
<1>9. CASE g \in R
  <2>1. taken[g].reversed = 0 /\ taken[g].reinstated = 0
    BY <1>5, <1>9 DEF Reversible, Fresh, TakenExact
  <2>2. taken'[g].reversed = grant[g].available /\ taken'[g].reinstated = 0
    BY <1>1, <1>5, <1>6, <1>9, <2>1
  <2>3. grant'[g].reversed = grant[g].reversed + grant[g].available
    BY <1>4, <1>9
  <2>4. RefundSum(p, g)' = RefundSum(p, g)
    BY <1>4, <1>7, RefundSumStays DEF Unrelated
  <2>5. ~Recorded(<<"reinstate", p>>, g) /\ ~Recorded(<<"reinstate", p>>, g)'
    BY <1>4, <1>5, <2>1 DEF TakenExact, Recorded
  <2>6. grant'[g].reversed = taken'[g].reversed - taken'[g].reinstated - RefundSum(p, g)'
    BY <1>5, <1>6, <2>1, <2>2, <2>3, <2>4 DEF TakenExact
  <2> QED BY <2>2, <2>5, <2>6 DEF TakenExact
<1> QED BY <1>8, <1>9

LEMMA WinExact ==
  ASSUME ExactInv, NEW w \in Workers, NEW q \in Payments, WinDispute(w, q)
  PROVE  \A p \in Payments : \A g \in GrantsOf[p] : TakenExact(p, g)'
<1> DEFINE event == <<"reinstate", q>>
           R == Reversible(Owed(q), event)
           N == {Entry(event, g, Owing(q)[g], 0) : g \in R}
<1>0. DOMAIN Owing(q) = Owed(q)
  BY DEF Owing
<1>1. /\ grant' = [g \in Grants |->
           IF g \in R THEN [grant[g] EXCEPT !.available = @ + Owing(q)[g],
                                            !.reversed = @ - Owing(q)[g]]
                      ELSE grant[g]]
      /\ ledger' = ledger \cup N
  <2>1. Reinstate(Owing(q), event)
    BY DEF WinDispute, Owing, Owed
  <2> QED BY <1>0, <2>1 DEF Reinstate
<1>2. taken' = [g \in Grants |-> IF g \in Owed(q)
                                 THEN [taken[g] EXCEPT !.reinstated = taken[g].reversed]
                                 ELSE taken[g]]
  BY DEF WinDispute, Owed
<1>3. Books /\ Owed(q) \subseteq GrantsOf[q] /\ GrantsOf[q] \subseteq Grants /\ StripeBooks
  BY PaymentAssumption DEF ExactInv, StripeBooks, Owed
<1>4. \A e \in N : e.event = event /\ e.grant \in R
  BY DEF Entry
<1> SUFFICES ASSUME NEW p \in Payments, NEW g \in GrantsOf[p] PROVE TakenExact(p, g)'
  OBVIOUS
<1>5. TakenExact(p, g) /\ g \in Grants /\ RefundSum(p, g) \in Int
  BY <1>3, PaymentAssumption, RefundSumInt DEF ExactInv
<1>6. /\ grant[g] \in GrantRow /\ grant[g].reversed \in Nat /\ taken[g].reversed \in Nat
      /\ taken[g].reinstated \in Nat /\ taken[g] \in [reversed : Nat, reinstated : Nat]
  BY <1>3, <1>5 DEF Books, BookInv, RowsTyped, Columns, StripeBooks, TakenTyped
<1>7. R \subseteq Owed(q)
  BY DEF Reversible
<1> HIDE DEF N
<1>8. CASE g \notin Owed(q)
  <2>1. Unrelated(N, p, g) /\ grant'[g] = grant[g] /\ taken'[g] = taken[g]
    BY <1>1, <1>2, <1>4, <1>5, <1>7, <1>8 DEF Unrelated
  <2> QED BY <1>1, <1>5, <2>1, ExactStays
<1>9. CASE g \in Owed(q)
  <2>1. p = q /\ taken[g].reversed > taken[g].reinstated
    BY <1>3, <1>9, PaymentAssumption DEF Owed
  <2>2. taken[g].reinstated = 0 /\ taken[g].reversed # 0 /\ ~Recorded(event, g)
    BY <1>5, <1>6, <2>1 DEF TakenExact
  <2>3. g \in R
    BY <1>9, <2>2 DEF Reversible
  <2>4. Owing(q)[g] = taken[g].reversed
    BY <1>6, <1>9, <2>2 DEF Owing
  <2>5. grant'[g].reversed = grant[g].reversed - taken[g].reversed
    BY <1>1, <1>5, <1>6, <2>3, <2>4 DEF GrantRow
  <2>6. taken'[g].reversed = taken[g].reversed /\ taken'[g].reinstated = taken[g].reversed
    BY <1>2, <1>5, <1>6, <1>9
  <2>7. RefundSum(p, g)' = RefundSum(p, g)
    <3>1. \A e \in N : e.event # <<"refund", p>>
      BY <1>4
    <3> QED BY <1>1, <3>1, RefundSumStays
  <2>8. grant'[g].reversed = taken'[g].reversed - taken'[g].reinstated - RefundSum(p, g)'
    BY <1>5, <1>6, <2>2, <2>5, <2>6, <2>7 DEF TakenExact
  <2> QED BY <2>2, <2>6, <2>8 DEF TakenExact
<1> QED BY <1>8, <1>9

LEMMA NextExact == ExactInv /\ [NextAll]_allVars => ExactInv'
<1> SUFFICES ASSUME ExactInv, [NextAll]_allVars PROVE ExactInv'
  OBVIOUS
<1>1. StripeBooks'
  BY NextStripe DEF ExactInv
<1>2. ASSUME UNCHANGED <<grant, ledger, taken>>
      PROVE  \A p \in Payments : \A g \in GrantsOf[p] : TakenExact(p, g)'
  <2> SUFFICES ASSUME NEW p \in Payments, NEW g \in GrantsOf[p] PROVE TakenExact(p, g)'
    OBVIOUS
  <2>1. ledger' = ledger \cup {} /\ Unrelated({}, p, g)
    BY <1>2 DEF Unrelated
  <2> QED BY <1>2, <2>1, ExactStays DEF ExactInv
<1>3. ASSUME NEW w \in Workers, NEW p \in Payments, Projects(w, p)
      PROVE  \A q \in Payments : \A g \in GrantsOf[q] : TakenExact(q, g)'
  <2>1. PartialRefund(w, p) \/ RecordDispute(w, p) => UNCHANGED <<grant, ledger, taken>>
    BY DEF PartialRefund, RecordDispute, book
  <2> QED BY <1>2, <1>3, <2>1, FullExact, TakeExact, WinExact DEF Projects
<1>4. UNCHANGED <<vars, projected>> => UNCHANGED <<grant, ledger, taken>>
  BY DEF vars, book, projected
<1> QED BY <1>1, <1>2, <1>3, <1>4, UseExact, FulfillExact, StepsOfNextAll DEF ExactInv

LEMMA InitExact == InitAll => ExactInv
<1> SUFFICES ASSUME InitAll PROVE ExactInv
  OBVIOUS
<1> SUFFICES ASSUME NEW p \in Payments, NEW g \in GrantsOf[p] PROVE TakenExact(p, g)
  BY InitStripe DEF ExactInv
<1>1. /\ g \in Grants /\ ledger = {}
      /\ taken[g].reversed = 0 /\ taken[g].reinstated = 0 /\ grant[g].reversed = 0
  BY PaymentAssumption DEF InitAll, Init, NoGrant
<1> DEFINE none == [e \in {} |-> e.available]
<1>2. RefundSum(p, g) = SumFunction(none)
  BY <1>1 DEF RefundSum, RefundsOf
<1>3. SumFunction(none) = 0
  BY SumEmpty DEF SumFunction
<1> QED BY <1>1, <1>2, <1>3 DEF TakenExact, Recorded

\* What is missing from a grant was taken by refunds and by the dispute of its
\* payment, less what that gave back, for any number of workers: replayed, retried
\* and reordered events of stripe-reversals.ts neither take nor return a credit
\* twice.
THEOREM ExactlyReversed == SpecAll => []ReversalsExact
<1>1. ExactInv => ReversalsExact
  BY DEF ExactInv, TakenExact, RefundSum, RefundsOf, ReversalsExact
<1> QED BY <1>1, InitExact, NextExact, PTL DEF SpecAll

-----------------------------------------------------------------------------
(* Credits under an adverse dispute.                                       *)

\* What is on record of a dispute and of what it has taken.  Only an adverse
\* dispute keeps what it took, unless the payment has been refunded.
TakenTells(p) ==
  /\ payment[p].status = "none" => dispute[p] = "none"
  /\ \A g \in GrantsOf[p] :
       /\ Recorded(<<"dispute", p>>, g) => taken[g].reversed # 0
       /\ payment[p].status # "refunded" /\ taken[g].reversed # 0 /\ taken[g].reinstated = 0
            => Adversely(p)

\* While an account can spend, the grants of a payment under an adverse dispute
\* have nothing to spend, and no job that could give them credits back, unless
\* they got back what the dispute had taken.
Spent(g) == grant[g].available = 0 /\ grant[g].reserved = 0
Returned(g) == taken[g].reinstated # 0
Taken(p) ==
  Adversely(p) /\ payment[p].status # "refunded" /\ ~IsBlocked =>
    \A g \in GrantsOf[p] : Spent(g) \/ Returned(g)

TakenInv == StripeBooks /\ \A p \in Payments : TakenTells(p) /\ Taken(p)

\* A step after which a payment is no longer unknown and still refunded.
Kept(p) ==
  /\ payment'[p].status = "none" => payment[p].status = "none"
  /\ payment'[p].status # "refunded" => payment[p].status # "refunded"

LEMMA NextTells ==
  ASSUME TakenInv, [NextAll]_allVars, NEW p \in Payments
  PROVE  TakenTells(p)'
<1>1. /\ TakenTells(p) /\ StatusTells(p) /\ ProjectionTyped /\ TakenTyped /\ StripeBooks /\ Books
  BY DEF TakenInv, StripeBooks, ReviewInv
<1>2. ASSUME dispute'[p] = dispute[p], Kept(p),
             \A g \in GrantsOf[p] : taken'[g] = taken[g],
             NEW N, ledger' = ledger \cup N, \A e \in N : e.event # <<"dispute", p>>
      PROVE  TakenTells(p)'
  BY <1>1, <1>2 DEF TakenTells, Recorded, Adversely, Kept
<1>3. ASSUME dispute'[p] = dispute[p], Kept(p),
             UNCHANGED <<ledger, taken>>
      PROVE  TakenTells(p)'
  BY <1>1, <1>3 DEF TakenTells, Recorded, Adversely, Kept
<1>4. CASE UNCHANGED <<vars, projected>>
  BY <1>3, <1>4 DEF vars, book, projected, Kept
<1>5. CASE Use
  <2>1. UNCHANGED <<payment, dispute, taken>> /\ Kept(p)
    BY <1>5 DEF Use, projected, Kept
  <2>2. ASSUME NEW r \in Runs, Reserve(r) PROVE TakenTells(p)'
    <3>1. PICK N : N = ReserveEntries(r)
      OBVIOUS
    <3>2. ledger' = ledger \cup N
      BY <2>2, <3>1 DEF Reserve, WriteReservation, ReserveEntries
    <3>3. \A e \in N : \E j \in JobsOf[r] : e.event = <<"reserve", j>>
      BY <1>1, <2>2, <3>1, ReserveSums
    <3>4. \A e \in N : e.event # <<"dispute", p>>
      BY <3>3
    <3> QED BY <1>2, <2>1, <3>2, <3>4
  <2>3. ASSUME NEW s \in Settlers, Settle(s) PROVE TakenTells(p)'
    <3>1. CASE settler[s] # Idle /\ CloseItem(settler[s].job, settler[s].outcome)
      <4>1. settler[s].outcome \in Outcome /\ settler[s].job \in Jobs
        BY <1>1, <3>1 DEF Books, BookInv, RowsTyped
      <4>2. PICK j \in Jobs, o \in Outcome : CloseItem(j, o)
        BY <3>1, <4>1
      <4> DEFINE back == IF o = "released" THEN 1 ELSE 0
                 N == {Entry(<<o, j>>, x, back * draw[j][x], -draw[j][x]) :
                         x \in {y \in Grants : draw[j][y] > 0}}
      <4>3. ledger' = ledger \cup N
        BY <4>2 DEF CloseItem
      <4>4. \A e \in N : e.event = <<o, j>>
        BY DEF Entry
      <4> HIDE DEF N
      <4>5. \A e \in N : e.event # <<"dispute", p>>
        BY <4>2, <4>4 DEF Outcome
      <4> QED BY <1>2, <2>1, <4>3, <4>5
    <3> QED BY <1>3, <2>1, <2>3, <3>1 DEF Settle
  <2> QED BY <1>3, <1>5, <2>1, <2>2, <2>3 DEF Use, BeginSettle, book
<1>6. ASSUME NEW q \in Payments, FulfillPayment(q) PROVE TakenTells(p)'
  <2> DEFINE N == {Entry(<<"grant">>, x, Amount[x], 0) : x \in GrantsOf[q]}
  <2>1. /\ ledger' = ledger \cup N /\ UNCHANGED <<dispute, taken>>
        /\ payment[q].status = "none" /\ payment' = [payment EXCEPT ![q].status = "paid"]
    BY <1>6 DEF FulfillPayment
  <2>2. \A e \in N : e.event = <<"grant">>
    BY DEF Entry
  <2> HIDE DEF N
  <2>3. <<"grant">> # <<"dispute", p>>
    OBVIOUS
  <2>4. Kept(p)
    BY <1>1, <2>1 DEF ProjectionTyped, PaymentRow, Kept, StatusTells
  <2>5. /\ \A e \in N : e.event # <<"dispute", p>>
        /\ \A g \in GrantsOf[p] : taken'[g] = taken[g]
        /\ dispute'[p] = dispute[p]
    BY <2>1, <2>2, <2>3
  <2> QED BY <1>2, <2>1, <2>4, <2>5
<1>7. ASSUME NEW w \in Workers, NEW q \in Payments, Projects(w, q) PROVE TakenTells(p)'
  <2>1. CASE PartialRefund(w, q)
    <3>1. /\ payment' = [payment EXCEPT ![q] = [status |-> "partially_refunded",
                                               refunded |-> "partial"]]
          /\ payment[q].refunded # "full" /\ UNCHANGED <<ledger, dispute, taken>>
      BY <2>1 DEF PartialRefund, book
    <3>2. Kept(p)
      BY <1>1, <3>1 DEF ProjectionTyped, Kept, StatusTells
    <3> QED BY <1>3, <3>1, <3>2
  <2>2. CASE FullRefund(w, q)
    <3>1. /\ payment' = [payment EXCEPT ![q] = [status |-> "refunded", refunded |-> "full"]]
          /\ UNCHANGED <<dispute, taken>> /\ ReverseUnused(GrantsOf[q], <<"refund", q>>)
      BY <2>2 DEF FullRefund
    <3>2. Kept(p)
      BY <1>1, <3>1 DEF ProjectionTyped, Kept, StatusTells
    <3> DEFINE event == <<"refund", q>>
    <3>3. \E N : ReversedBy(N, Reversible(GrantsOf[q], event), event)
      <4> HIDE DEF event
      <4>1. ReverseUnused(GrantsOf[q], event)
        BY <3>1 DEF event
      <4> QED BY <1>1, <4>1, PaymentAssumption, ReversedGrant
    <3>4. PICK N : ledger' = ledger \cup N /\ \A e \in N : e.event = event
      BY <3>3 DEF ReversedBy
    <3>5. \A e \in N : e.event # <<"dispute", p>>
      BY <3>4
    <3> QED BY <1>2, <3>1, <3>2, <3>4, <3>5
  <2>3. CASE RecordDispute(w, q)
    <3>1. /\ UNCHANGED <<ledger, taken>> /\ payment[q].status # "none"
          /\ dispute' = [dispute EXCEPT ![q] = worker[w].found]
          /\ worker[w].found \in {"open", "lost"}
          /\ \/ payment' = payment
             \/ /\ payment[q].status # "refunded"
                /\ payment' = [payment EXCEPT ![q].status = "disputed"]
      BY <2>3 DEF RecordDispute, Adverse, book
    <3>2. Kept(p)
      BY <1>1, <3>1 DEF ProjectionTyped, PaymentRow, Kept, StatusTells
    <3>3. CASE q = p
      <4>1. Adversely(p)' /\ payment[p].status # "none"
        BY <1>1, <3>1, <3>3 DEF ProjectionTyped, Adversely
      <4> QED BY <1>1, <3>1, <3>2, <4>1 DEF TakenTells, Kept, Recorded
    <3>4. CASE q # p
      <4>1. dispute'[p] = dispute[p]
        BY <1>1, <3>1, <3>4 DEF ProjectionTyped
      <4> QED BY <1>3, <3>1, <3>2, <4>1
    <3> QED BY <3>3, <3>4
  <2>4. CASE TakeDisputed(w, q)
    <3>1. /\ payment[q].status \notin {"none", "refunded"}
          /\ dispute' = [dispute EXCEPT ![q] = worker[w].found]
          /\ worker[w].found \in {"open", "lost"}
          /\ payment' = [payment EXCEPT ![q].status = "disputed"]
          /\ ReverseUnused(Fresh(q), <<"dispute", q>>)
          /\ taken' = [g \in Grants |-> IF g \in Reversible(Fresh(q), <<"dispute", q>>)
                                        THEN [taken[g] EXCEPT !.reversed = grant[g].available]
                                        ELSE taken[g]]
      BY <2>4 DEF TakeDisputed, Adverse, Fresh
    <3>2. Kept(p)
      BY <1>1, <3>1 DEF ProjectionTyped, PaymentRow, Kept, StatusTells
    <3>3. CASE q = p
      <4> DEFINE event == <<"dispute", p>>
                 R == Reversible(Fresh(p), event)
      <4>1. Adversely(p)' /\ payment[p].status # "none"
        BY <1>1, <3>1, <3>3 DEF ProjectionTyped, Adversely
      <4>2. \E N : ReversedBy(N, R, event)
        <5> HIDE DEF event
        <5>1. ReverseUnused(Fresh(p), event) /\ Fresh(p) \subseteq Grants
          BY <3>1, <3>3, PaymentAssumption DEF event, Fresh
        <5> QED BY <1>1, <5>1, ReversedGrant
      <4>3. PICK N : ReversedBy(N, R, event)
        BY <4>2
      <4> SUFFICES ASSUME NEW g \in GrantsOf[p], Recorded(event, g)'
                   PROVE  taken'[g].reversed # 0
        BY <3>2, <4>1 DEF TakenTells, Kept
      <4>4. g \in Grants /\ taken[g] \in [reversed : Nat, reinstated : Nat]
        BY <1>1, PaymentAssumption DEF TakenTyped
      <4> HIDE DEF event
      <4>5. CASE Recorded(event, g)
        <5>1. taken[g].reversed # 0 /\ g \notin R
          BY <1>1, <4>5 DEF TakenTells, Reversible, event
        <5> QED BY <3>1, <3>3, <4>4, <5>1 DEF event
      <4>6. CASE ~Recorded(event, g)
        <5>1. g \in R /\ grant[g].available # 0
          BY <4>3, <4>6 DEF ReversedBy, Recorded
        <5> QED BY <3>1, <3>3, <4>4, <5>1 DEF event
      <4> QED BY <4>5, <4>6
    <3>4. CASE q # p
      <4> DEFINE event == <<"dispute", q>>
      <4>1. \E N : ReversedBy(N, Reversible(Fresh(q), event), event)
        <5> HIDE DEF event
        <5>1. ReverseUnused(Fresh(q), event) /\ Fresh(q) \subseteq Grants
          BY <3>1, PaymentAssumption DEF event, Fresh
        <5> QED BY <1>1, <5>1, ReversedGrant
      <4>2. PICK N : ledger' = ledger \cup N /\ \A e \in N : e.event = event
        BY <4>1 DEF ReversedBy
      <4>3. \A e \in N : e.event # <<"dispute", p>>
        BY <3>4, <4>2
      <4>4. dispute'[p] = dispute[p]
        BY <1>1, <3>1, <3>4 DEF ProjectionTyped
      <4>5. \A g \in GrantsOf[p] : g \in Grants /\ g \notin Fresh(q)
        BY <3>4, PaymentAssumption DEF Fresh
      <4>6. \A g \in GrantsOf[p] : taken'[g] = taken[g]
        BY <3>1, <4>5 DEF Reversible
      <4> QED BY <1>2, <3>2, <4>2, <4>3, <4>4, <4>6
    <3> QED BY <3>3, <3>4
  <2>5. CASE WinDispute(w, q)
    <3> DEFINE status == IF payment[q].refunded = "full" THEN "refunded"
                         ELSE IF payment[q].refunded = "partial" THEN "partially_refunded"
                         ELSE "paid"
    <3>1. /\ payment[q].status # "none" /\ dispute' = [dispute EXCEPT ![q] = "won"]
          /\ payment' = [payment EXCEPT ![q].status = status]
          /\ Reinstate(Owing(q), <<"reinstate", q>>)
          /\ taken' = [g \in Grants |-> IF g \in Owed(q)
                                        THEN [taken[g] EXCEPT !.reinstated = taken[g].reversed]
                                        ELSE taken[g]]
      BY <2>5 DEF WinDispute, Owing, Owed
    <3>2. Kept(p)
      BY <1>1, <3>1 DEF ProjectionTyped, PaymentRow, Kept, StatusTells
    <3>3. CASE q = p
      <4> DEFINE event == <<"reinstate", p>>
                 N == {Entry(event, g, Owing(p)[g], 0) : g \in Reversible(DOMAIN Owing(p), event)}
      <4>1. payment[p].status # "none" /\ payment'[p].status = status
        BY <1>1, <3>1, <3>3 DEF ProjectionTyped
      <4>2. ledger' = ledger \cup N
        BY <3>1, <3>3 DEF Reinstate
      <4>3. \A e \in N : e.event # <<"dispute", p>>
        BY DEF Entry
      <4> HIDE DEF N
      <4> SUFFICES ASSUME NEW g \in GrantsOf[p]
                   PROVE  /\ Recorded(<<"dispute", p>>, g)' => taken'[g].reversed # 0
                          /\ payment'[p].status # "refunded" /\ taken'[g].reversed # 0
                               => taken'[g].reinstated # 0
        BY <3>2, <4>1 DEF TakenTells, Kept
      <4>4. g \in Grants /\ taken[g] \in [reversed : Nat, reinstated : Nat]
        BY <1>1, PaymentAssumption DEF TakenTyped
      <4>5. /\ taken'[g].reversed = taken[g].reversed
            /\ taken'[g].reinstated = IF g \in Owed(p) THEN taken[g].reversed
                                      ELSE taken[g].reinstated
        BY <3>1, <3>3, <4>4
      <4>6. Recorded(<<"dispute", p>>, g)' => taken[g].reversed # 0
        BY <1>1, <4>2, <4>3 DEF TakenTells, Recorded
      <4>7. payment'[p].status # "refunded" /\ taken[g].reversed # 0 /\ g \notin Owed(p)
              => taken[g].reinstated # 0
        BY <3>3, <4>1, <4>4 DEF Owed
      <4> QED BY <4>5, <4>6, <4>7
    <3>4. CASE q # p
      <4> DEFINE N == {Entry(<<"reinstate", q>>, g, Owing(q)[g], 0) :
                         g \in Reversible(DOMAIN Owing(q), <<"reinstate", q>>)}
      <4>1. ledger' = ledger \cup N
        BY <3>1 DEF Reinstate
      <4>2. \A e \in N : e.event = <<"reinstate", q>>
        BY DEF Entry
      <4> HIDE DEF N
      <4>3. \A e \in N : e.event # <<"dispute", p>>
        BY <4>2
      <4>4. dispute'[p] = dispute[p]
        BY <1>1, <3>1, <3>4 DEF ProjectionTyped
      <4>5. \A g \in GrantsOf[p] : g \in Grants /\ g \notin Owed(q)
        BY <3>4, PaymentAssumption DEF Owed
      <4>6. \A g \in GrantsOf[p] : taken'[g] = taken[g]
        BY <3>1, <4>5
      <4> QED BY <1>2, <3>2, <4>1, <4>3, <4>4, <4>6
    <3> QED BY <3>3, <3>4
  <2> QED BY <1>7, <2>1, <2>2, <2>3, <2>4, <2>5 DEF Projects
<1> QED BY <1>4, <1>5, <1>6, <1>7, StepsOfNextAll

\* What Taken(p) is about.
Demands(p) == Adversely(p) /\ payment[p].status # "refunded" /\ ~IsBlocked

LEMMA TakenStays ==
  ASSUME TakenInv, NEW p \in Payments, Demands(p)' => Demands(p),
         \A g \in GrantsOf[p] : (Spent(g) => Spent(g)') /\ (Returned(g) => Returned(g)')
  PROVE  Taken(p)'
BY DEF TakenInv, Taken, Demands

\* A reversal leaves nothing to spend of what it reverses.
LEMMA ReverseSpends ==
  ASSUME Books, NEW G, NEW event, ReverseUnused(G, event), NEW g \in Grants
  PROVE  /\ grant'[g].reserved = grant[g].reserved
         /\ g \in Reversible(G, event) => grant'[g].available = 0
         /\ g \notin Reversible(G, event) => grant'[g] = grant[g]
<1> DEFINE R == Reversible(G, event)
<1>1. grant' = [h \in Grants |->
        IF h \in R THEN [grant[h] EXCEPT !.available = 0, !.reversed = @ + grant[h].available]
                   ELSE grant[h]]
  BY DEF ReverseUnused
<1>2. grant[g] \in GrantRow
  BY DEF Books, BookInv, RowsTyped
<1> QED BY <1>1, <1>2 DEF GrantRow

\* Nothing is unblocked while a dispute is adverse.
LEMMA StillBlocked ==
  ASSUME NEW p \in Payments, Adversely(p)', NEW acct, NEW payments,
         account' \in {acct, Restored(acct, payments, dispute')}
  PROVE  account' = acct
BY DEF Restored, Adversely

\* Neither admissions nor settlements bring a spent grant to life.
LEMMA UseTaken ==
  ASSUME TakenInv, Use, NEW p \in Payments
  PROVE  Taken(p)'
<1>1. UNCHANGED <<payment, dispute, taken, account>> /\ Books
  BY DEF TakenInv, StripeBooks, Use, Reserve, WriteReservation, BeginSettle, Settle, projected
<1>2. Demands(p)' => Demands(p)
  BY <1>1 DEF Demands, Adversely, IsBlocked
<1> SUFFICES ASSUME NEW g \in GrantsOf[p], Spent(g) PROVE Spent(g)'
  BY <1>1, <1>2, TakenStays DEF Returned
<1>3. g \in Grants /\ grant[g] \in GrantRow
  BY <1>1, PaymentAssumption DEF Books, BookInv, RowsTyped
<1>4. ASSUME NEW r \in Runs, Reserve(r) PROVE Spent(g)'
  <2> DEFINE new == Allocation(r)
             drawn == [h \in Grants |-> SumFunction([j \in JobsOf[r] |-> new[j][h]])]
  <2>1. grant' = [h \in Grants |->
          IF h \in Issued THEN [grant[h] EXCEPT !.available = @ - drawn[h],
                                                !.reserved = @ + drawn[h]]
                          ELSE grant[h]]
    BY <1>4 DEF Reserve, WriteReservation
  <2>2. drawn = Drawn(r)
    BY DEF Drawn
  <2>3. drawn[g] \in Nat /\ drawn[g] <= grant[g].available
    BY <1>1, <1>3, <1>4, <2>2, Admitted
  <2>4. drawn[g] = 0
    BY <2>3 DEF Spent
  <2> HIDE DEF drawn
  <2>5. /\ grant'[g].available = grant[g].available - drawn[g] \/ grant'[g] = grant[g]
        /\ grant'[g].reserved = grant[g].reserved + drawn[g] \/ grant'[g] = grant[g]
    BY <1>3, <2>1 DEF GrantRow
  <2> QED BY <2>4, <2>5 DEF Spent
<1>5. ASSUME NEW s \in Settlers, Settle(s) PROVE Spent(g)'
  <2>1. CASE grant' = grant
    BY <2>1 DEF Spent
  <2>2. CASE /\ settler[s] # Idle /\ item[settler[s].job] = "reserved"
             /\ CloseItem(settler[s].job, settler[s].outcome)
    <3>1. settler[s].outcome \in Outcome /\ settler[s].job \in Jobs
      BY <1>1, <2>2 DEF Books, BookInv, RowsTyped
    <3>2. PICK j \in Jobs, o \in Outcome : item[j] = "reserved" /\ CloseItem(j, o)
      BY <2>2, <3>1
    <3>3. draw[j][g] \in Nat /\ draw[j][g] <= grant[g].reserved
      BY <1>1, <1>3, <3>2, HeldLess DEF Books, BookInv, RowsTyped
    <3>4. draw[j][g] = 0
      BY <3>3 DEF Spent
    <3>5. grant' = [h \in Grants |->
            [grant[h] EXCEPT !.reserved = @ - draw[j][h],
                             !.captured = IF o = "captured" THEN @ + draw[j][h] ELSE @,
                             !.available = IF o = "released" THEN @ + draw[j][h] ELSE @]]
      BY <3>2 DEF CloseItem
    <3>6. /\ grant'[g].reserved = grant[g].reserved - draw[j][g]
          /\ grant'[g].available = IF o = "released" THEN grant[g].available + draw[j][g]
                                   ELSE grant[g].available
      BY <1>3, <3>5 DEF GrantRow
    <3> QED BY <3>4, <3>6 DEF Spent
  <2> QED BY <1>5, <2>1, <2>2 DEF Settle
<1>6. grant' = grant => Spent(g)'
  BY DEF Spent
<1> QED BY <1>4, <1>5, <1>6 DEF Use, BeginSettle, book

\* What is taken when the dispute is first recorded, and when it is recorded again.
LEMMA TakeTaken ==
  ASSUME TakenInv, NEW w \in Workers, NEW p \in Payments, TakeDisputed(w, p)
  PROVE  Taken(p)'
<1> DEFINE event == <<"dispute", p>>
           R == Reversible(Fresh(p), event)
<1>1. /\ Adverse(w, p) /\ payment[p].status # "refunded"
      /\ ReverseUnused(Fresh(p), event)
      /\ account' = IF Consumed(Fresh(p), event) THEN Blocked("payment_disputed") ELSE account
      /\ taken' = [g \in Grants |-> IF g \in R THEN [taken[g] EXCEPT !.reversed = grant[g].available]
                                    ELSE taken[g]]
  BY DEF TakeDisputed, Fresh
<1>2. Books /\ TakenTyped /\ TakenTells(p) /\ Taken(p)
  BY DEF TakenInv, StripeBooks
<1> SUFFICES ASSUME ~IsBlocked', NEW g \in GrantsOf[p] PROVE Spent(g)' \/ Returned(g)'
  BY DEF Taken
<1>3. ~Consumed(Fresh(p), event) /\ ~IsBlocked
  BY <1>1 DEF IsBlocked, Blocked
<1>4. g \in Grants /\ grant[g].reserved \in Nat
  BY <1>2, PaymentAssumption DEF Books, Columns
<1> HIDE DEF event
<1>5. /\ grant'[g].reserved = grant[g].reserved
      /\ g \in R => grant'[g].available = 0
      /\ g \notin R => grant'[g] = grant[g]
  BY <1>1, <1>2, <1>4, ReverseSpends
<1>6. g \in R => grant[g].reserved = 0
  BY <1>3, <1>4 DEF Consumed
<1>7. CASE g \in R
  BY <1>5, <1>6, <1>7 DEF Spent
<1>8. CASE g \notin R
  <2>1. taken[g].reversed # 0
    BY <1>2, <1>8 DEF TakenTells, Reversible, Fresh, event
  <2>2. taken'[g] = taken[g]
    BY <1>1, <1>4, <1>8 DEF event
  <2>3. CASE Adversely(p)
    BY <1>1, <1>2, <1>3, <1>5, <1>8, <2>2, <2>3 DEF Taken, Spent, Returned
  <2>4. CASE ~Adversely(p)
    BY <1>1, <1>2, <2>1, <2>2, <2>4 DEF TakenTells, Returned
  <2> QED BY <2>3, <2>4
<1> QED BY <1>7, <1>8

LEMMA NextTaken ==
  ASSUME TakenInv, [NextAll]_allVars, NEW p \in Payments
  PROVE  Taken(p)'
<1>1. /\ TakenTells(p) /\ ProjectionTyped /\ TakenTyped /\ StripeBooks /\ Books
      /\ \A q \in Payments : StatusTells(q)
  BY DEF TakenInv, StripeBooks, ReviewInv
<1>2. \A g \in GrantsOf[p] : g \in Grants /\ \A q \in Payments : q # p => g \notin GrantsOf[q]
  BY PaymentAssumption
<1>3. ASSUME UNCHANGED <<grant, taken>>
      PROVE  \A g \in GrantsOf[p] : (Spent(g) => Spent(g)') /\ (Returned(g) => Returned(g)')
  BY <1>3 DEF Spent, Returned
<1>4. CASE UNCHANGED <<vars, projected>>
  <2>1. UNCHANGED <<grant, taken, payment, dispute, account>>
    BY <1>4 DEF vars, book, projected
  <2> QED BY <1>3, <2>1, TakenStays DEF Demands, Adversely, IsBlocked
<1>5. ASSUME NEW q \in Payments, FulfillPayment(q) PROVE Taken(p)'
  <2>1. /\ payment[q].status = "none" /\ UNCHANGED <<dispute, taken, account>>
        /\ payment' = [payment EXCEPT ![q].status = "paid"]
        /\ grant' = [g \in Grants |-> IF g \in GrantsOf[q]
                                      THEN [grant[g] EXCEPT !.available = Amount[g]] ELSE grant[g]]
    BY <1>5 DEF FulfillPayment
  <2>2. CASE q = p
    BY <1>1, <2>1, <2>2 DEF TakenTells, Taken, Adversely
  <2>3. CASE q # p
    <3>1. payment'[p] = payment[p] /\ \A g \in GrantsOf[p] : grant'[g] = grant[g]
      BY <1>1, <1>2, <2>1, <2>3 DEF ProjectionTyped
    <3> QED BY <2>1, <3>1, TakenStays DEF Demands, Adversely, IsBlocked, Spent, Returned
  <2> QED BY <2>2, <2>3
<1>6. ASSUME NEW w \in Workers, NEW q \in Payments, Projects(w, q) PROVE Taken(p)'
  <2>1. ASSUME IsBlocked' PROVE Taken(p)'
    BY <2>1 DEF Taken
  <2>2. CASE PartialRefund(w, q)
    BY <2>1, <2>2, ReviewBlocks DEF PartialRefund
  <2>3. CASE FullRefund(w, q)
    <3> DEFINE event == <<"refund", q>>
               acct == IF Consumed(GrantsOf[q], event) THEN Blocked("payment_refunded")
                       ELSE account
    <3>1. /\ payment' = [payment EXCEPT ![q] = [status |-> "refunded", refunded |-> "full"]]
          /\ UNCHANGED <<dispute, taken>> /\ ReverseUnused(GrantsOf[q], event)
          /\ account' \in {acct, Restored(acct, payment', dispute')}
      BY <2>3 DEF FullRefund
    <3>2. CASE q = p
      BY <1>1, <3>1, <3>2 DEF ProjectionTyped, Taken
    <3>3. CASE q # p
      <4>1. payment'[p] = payment[p]
        BY <1>1, <3>1, <3>3 DEF ProjectionTyped
      <4>2. acct = account \/ acct.status = "blocked_review"
        BY DEF Blocked
      <4> HIDE DEF event, acct
      <4>3. Adversely(p)' => account' = acct
        BY <3>1, StillBlocked
      <4>4. Demands(p)' => Demands(p)
        BY <3>1, <4>1, <4>2, <4>3 DEF Demands, Adversely, IsBlocked
      <4>5. \A g \in GrantsOf[p] : grant'[g] = grant[g]
        BY <1>1, <1>2, <3>1, <3>3, ReverseSpends DEF Reversible
      <4> QED BY <3>1, <4>4, <4>5, TakenStays DEF Spent, Returned
    <3> QED BY <3>2, <3>3
  <2>4. CASE RecordDispute(w, q)
    <3>1. /\ dispute' = [dispute EXCEPT ![q] = worker[w].found]
          /\ UNCHANGED <<grant, taken>>
          /\ \/ payment[q].status = "refunded" /\ UNCHANGED <<payment, account>>
             \/ account' = Review("payment_disputed")
      BY <2>4 DEF RecordDispute, book
    <3>2. CASE account' = Review("payment_disputed")
      BY <2>1, <3>2, ReviewBlocks
    <3>3. CASE payment[q].status = "refunded" /\ UNCHANGED <<payment, account>>
      <4>1. CASE q = p
        BY <3>3, <4>1 DEF Taken
      <4>2. CASE q # p
        <5>1. dispute'[p] = dispute[p]
          BY <1>1, <3>1, <4>2 DEF ProjectionTyped
        <5> QED BY <1>3, <3>1, <3>3, <5>1, TakenStays DEF Demands, Adversely, IsBlocked
      <4> QED BY <4>1, <4>2
    <3> QED BY <3>1, <3>2, <3>3
  <2>5. CASE TakeDisputed(w, q)
    <3>1. CASE q = p
      BY <2>5, <3>1, TakeTaken
    <3>2. CASE q # p
      <4> DEFINE event == <<"dispute", q>>
      <4>1. /\ dispute' = [dispute EXCEPT ![q] = worker[w].found]
            /\ payment' = [payment EXCEPT ![q].status = "disputed"]
            /\ ReverseUnused(Fresh(q), event)
            /\ account' = account \/ account' = Blocked("payment_disputed")
            /\ \A g \in Grants \ Fresh(q) : taken'[g] = taken[g]
        BY <2>5 DEF TakeDisputed, Fresh, Reversible
      <4> HIDE DEF event
      <4>2. dispute'[p] = dispute[p] /\ payment'[p] = payment[p]
        BY <1>1, <3>2, <4>1 DEF ProjectionTyped
      <4>3. \A g \in GrantsOf[p] : grant'[g] = grant[g] /\ taken'[g] = taken[g]
        BY <1>1, <1>2, <3>2, <4>1, ReverseSpends DEF Reversible, Fresh
      <4>4. ~IsBlocked' => account' = account
        BY <4>1 DEF IsBlocked, Blocked
      <4>5. Demands(p)' => Demands(p)
        BY <4>2, <4>4 DEF Demands, Adversely, IsBlocked
      <4> QED BY <4>3, <4>5, TakenStays DEF Spent, Returned
    <3> QED BY <3>1, <3>2
  <2>6. CASE WinDispute(w, q)
    <3> DEFINE status == IF payment[q].refunded = "full" THEN "refunded"
                         ELSE IF payment[q].refunded = "partial" THEN "partially_refunded"
                         ELSE "paid"
               R == Reversible(DOMAIN Owing(q), <<"reinstate", q>>)
    <3>1. /\ dispute' = [dispute EXCEPT ![q] = "won"]
          /\ payment' = [payment EXCEPT ![q].status = status]
          /\ Reinstate(Owing(q), <<"reinstate", q>>)
          /\ account' \in {account, Restored(account, payment', dispute')}
          /\ \A g \in Grants \ Owed(q) : taken'[g] = taken[g]
      BY <2>6 DEF WinDispute, Owing, Owed
    <3>2. CASE q = p
      BY <1>1, <3>1, <3>2 DEF ProjectionTyped, Taken, Adversely
    <3>3. CASE q # p
      <4>1. dispute'[p] = dispute[p] /\ payment'[p] = payment[p]
        BY <1>1, <3>1, <3>3 DEF ProjectionTyped
      <4>2. R \subseteq GrantsOf[q]
        BY DEF Reversible, Owing, Owed
      <4>3. \A g \in Grants \ R : grant'[g] = grant[g]
        BY <3>1 DEF Reinstate
      <4> HIDE DEF R
      <4>4. \A g \in GrantsOf[p] : grant'[g] = grant[g] /\ taken'[g] = taken[g]
        BY <1>2, <3>1, <3>3, <4>2, <4>3 DEF Owed
      <4> HIDE DEF status
      <4>5. ASSUME Adversely(p)' PROVE account' = account
        BY <3>1, <4>5 DEF Restored, Adversely
      <4>6. Demands(p)' => Demands(p)
        BY <4>1, <4>5 DEF Demands, Adversely, IsBlocked
      <4> QED BY <4>4, <4>6, TakenStays DEF Spent, Returned
    <3> QED BY <3>2, <3>3
  <2> QED BY <1>6, <2>2, <2>3, <2>4, <2>5, <2>6 DEF Projects
<1> QED BY <1>4, <1>5, <1>6, UseTaken, StepsOfNextAll

LEMMA InitTaken == InitAll => TakenInv
<1> SUFFICES ASSUME InitAll PROVE TakenInv
  OBVIOUS
<1>1. ASSUME NEW p \in Payments PROVE TakenTells(p) /\ Taken(p)
  <2>1. GrantsOf[p] \subseteq Grants /\ ledger = {} /\ dispute[p] = "none"
    BY PaymentAssumption DEF InitAll, Init
  <2>2. \A g \in GrantsOf[p] : taken[g].reversed = 0
    BY <2>1 DEF InitAll
  <2> QED BY <2>1, <2>2 DEF TakenTells, Taken, Adversely, Recorded
<1> QED BY <1>1, InitStripe DEF TakenInv

\* Credits under an adverse dispute cannot be spent unless a favorable outcome has
\* already returned them, for any payments, grants, runs and racing workers:
\* processStripeDispute takes what is available, and what a job gives back later
\* comes to a blocked account.
THEOREM DisputedUnspendable == SpecAll => []DisputedIsUnspendable
<1>1. TakenInv /\ [NextAll]_allVars => TakenInv'
  BY NextStripe, NextTells, NextTaken DEF TakenInv
<1>2. TakenInv => DisputedIsUnspendable
  <2> SUFFICES ASSUME TakenInv, NEW p \in Payments, Adversely(p),
                      payment[p].status # "refunded",
                      NEW g \in GrantsOf[p], grant[g].available > 0, ~Returned(g)
               PROVE  IsBlocked
    BY DEF DisputedIsUnspendable, Adversely, IsBlocked, Returned
  <2>1. Taken(p)
    BY DEF TakenInv
  <2> QED BY <2>1 DEF Taken, Spent
<1> QED BY <1>1, <1>2, InitTaken, PTL DEF SpecAll
=============================================================================
