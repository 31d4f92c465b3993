--------------------------------- MODULE Sums ---------------------------------
(***************************************************************************)
(* What a sum over a finite set is.  Induction is by a smallest             *)
(* counterexample: a set of finite sets has a member that includes no other *)
(* (FS_StrictSubsetOrderingWellFounded).                                   *)
(***************************************************************************)
EXTENDS Integers, FiniteSets, Functions, FiniteSetTheorems, WellFoundedInduction, TLAPS

\* A set of subsets of a finite set has a smallest member.
LEMMA SmallestSubset ==
  ASSUME NEW S, IsFiniteSet(S), NEW B, B \subseteq SUBSET S, B # {}
  PROVE  \E T \in B : \A U \in B : U \subseteq T => U = T
<1>1. IsWellFoundedOn(StrictSubsetOrdering(S), SUBSET S)
  BY FS_StrictSubsetOrderingWellFounded, FS_FiniteSubsetsOfFinite
<1>2. PICK T \in B : \A U \in B : <<U, T>> \notin StrictSubsetOrdering(S)
  BY <1>1, WFMin
<1>3. ASSUME NEW U \in B, U \subseteq T PROVE U = T
  BY <1>2, <1>3 DEF StrictSubsetOrdering
<1> QED BY <1>3

\* A set of natural numbers has a smallest one.
LEMMA SmallestNat ==
  ASSUME NEW B, B \subseteq Nat, B # {}
  PROVE  \E n \in B : \A m \in B : n <= m
<1>1. PICK n \in B : \A m \in B : <<m, n>> \notin OpToRel(<, Nat)
  BY NatLessThanWellFounded, WFMin
<1>2. ASSUME NEW m \in B PROVE n <= m
  <2>1. m \in Nat /\ n \in Nat /\ ~(m < n)
    BY <1>1 DEF OpToRel
  <2> QED BY <2>1
<1> QED BY <1>2

\* A finite set has a member whose key is the largest.
LEMMA Largest ==
  ASSUME NEW S, IsFiniteSet(S), S # {}, NEW key, \A x \in S : key[x] \in Int
  PROVE  \E m \in S : \A x \in S : key[x] <= key[m]
<1> DEFINE B == {U \in SUBSET S : U # {} /\ ~ \E m \in U : \A x \in U : key[x] <= key[m]}
<1>1. SUFFICES ASSUME B # {} PROVE FALSE
  <2>1. S \in SUBSET S
    OBVIOUS
  <2> QED BY <2>1
<1>2. PICK U \in B : \A V \in B : V \subseteq U => V = U
  <2>1. B \subseteq SUBSET S
    OBVIOUS
  <2> HIDE DEF B
  <2> QED BY <1>1, <2>1, SmallestSubset
<1>3. U \subseteq S /\ U # {} /\ ~ \E m \in U : \A x \in U : key[x] <= key[m]
  OBVIOUS
<1>4. PICK p \in U : TRUE
  BY <1>3
<1>5. CASE U \ {p} = {}
  <2>1. \A x \in U : x = p /\ key[x] \in Int
    BY <1>3, <1>5
  <2> QED BY <1>3, <1>4, <2>1
<1>6. CASE U \ {p} # {}
  <2>1. \E m \in U \ {p} : \A x \in U \ {p} : key[x] <= key[m]
    <3> DEFINE V == U \ {p}
    <3>1. V \subseteq U /\ V # U /\ V \in SUBSET S /\ V # {}
      BY <1>3, <1>4, <1>6
    <3>2. V \notin B
      BY <1>2, <3>1
    <3> QED BY <3>1, <3>2
  <2>2. PICK m \in U \ {p} : \A x \in U \ {p} : key[x] <= key[m]
    BY <2>1
  <2>3. /\ \A x \in U : key[x] \in Int
        /\ m \in U /\ p \in U
        /\ \A x \in U : x = p \/ key[x] <= key[m]
    BY <1>3, <2>2
  <2> HIDE DEF B
  <2>4. CASE key[p] <= key[m]
    BY <1>3, <2>3, <2>4
  <2>5. CASE ~(key[p] <= key[m])
    <3>1. \A x \in U : key[x] <= key[p]
      BY <2>3, <2>5
    <3> QED BY <1>3, <1>4, <3>1
  <2> QED BY <2>4, <2>5
<1> QED BY <1>5, <1>6

-----------------------------------------------------------------------------
(* The recursion behind SumFunctionOnSet.                                  *)

Pick(S) == CHOOSE x \in S : TRUE

IsSum(g, fun, S) ==
  g = [s \in SUBSET S |-> IF s = {} THEN 0 ELSE fun[Pick(s)] + g[s \ {Pick(s)}]]

LEMMA SumIsChosen ==
  ASSUME NEW fun, NEW S
  PROVE  SumFunctionOnSet(fun, S) = (CHOOSE g : IsSum(g, fun, S))[S]
BY DEF SumFunctionOnSet, FoldFunctionOnSet, MapThenFoldSet, IsSum, Pick

LEMMA PickIn == ASSUME NEW S, S # {} PROVE Pick(S) \in S
BY DEF Pick

LEMMA IsSumAt ==
  ASSUME NEW g, NEW fun, NEW S, IsSum(g, fun, S), NEW s \in SUBSET S
  PROVE  /\ s = {} => g[s] = 0
         /\ s # {} => g[s] = fun[Pick(s)] + g[s \ {Pick(s)}]
BY DEF IsSum

\* Two such recursions agree where both are defined.
LEMMA SumUnique ==
  ASSUME NEW fun, NEW S, IsFiniteSet(S), NEW T, NEW g, NEW h,
         IsSum(g, fun, S), IsSum(h, fun, T)
  PROVE  \A s \in SUBSET S : s \subseteq T => g[s] = h[s]
<1> DEFINE B == {s \in SUBSET S : s \subseteq T /\ g[s] # h[s]}
<1> SUFFICES ASSUME B # {} PROVE FALSE
  OBVIOUS
<1>1. PICK s \in B : \A u \in B : u \subseteq s => u = s
  <2>1. B \subseteq SUBSET S
    OBVIOUS
  <2> HIDE DEF B
  <2> QED BY <2>1, SmallestSubset
<1>2. s \in SUBSET S /\ s \in SUBSET T /\ g[s] # h[s]
  OBVIOUS
<1>3. s # {}
  BY <1>2, IsSumAt
<1>4. Pick(s) \in s /\ s \ {Pick(s)} \in SUBSET S /\ s \ {Pick(s)} \in SUBSET T
  BY <1>2, <1>3, PickIn
<1>5. g[s \ {Pick(s)}] = h[s \ {Pick(s)}]
  BY <1>1, <1>4
<1> QED BY <1>2, <1>3, <1>5, IsSumAt

\* The recursion has a solution over every finite set.
LEMMA SumExists ==
  ASSUME NEW fun, NEW S, IsFiniteSet(S)
  PROVE  \E g : IsSum(g, fun, S)
<1> DEFINE B == {s \in SUBSET S : ~ \E g : IsSum(g, fun, s)}
<1>1. SUFFICES ASSUME B # {} PROVE FALSE
  <2>1. S \in SUBSET S
    OBVIOUS
  <2> QED BY <2>1
<1>2. PICK s \in B : \A u \in B : u \subseteq s => u = s
  <2>1. B \subseteq SUBSET S
    OBVIOUS
  <2> HIDE DEF B
  <2> QED BY <1>1, <2>1, SmallestSubset
<1>3. s \in SUBSET S /\ ~ \E g : IsSum(g, fun, s)
  OBVIOUS
<1>4. ASSUME NEW u \in SUBSET s, u # s PROVE \E g : IsSum(g, fun, u)
  BY <1>2, <1>3, <1>4
<1> HIDE DEF B
<1> DEFINE below(u) == CHOOSE g : IsSum(g, fun, u)
           value(u) == IF u = {} THEN 0
                       ELSE fun[Pick(u)] + below(u \ {Pick(u)})[u \ {Pick(u)}]
           g == [u \in SUBSET s |-> value(u)]
<1>5. ASSUME NEW u \in SUBSET s, u # s PROVE IsSum(below(u), fun, u)
  BY <1>4, <1>5
<1>6. ASSUME NEW u \in SUBSET s, u # s PROVE value(u) = below(u)[u]
  <2>1. IsSum(below(u), fun, u)
    BY <1>5, <1>6
  <2>2. CASE u = {}
    BY <2>1, <2>2, IsSumAt
  <2>3. CASE u # {}
    <3> DEFINE v == u \ {Pick(u)}
    <3>1. Pick(u) \in u
      BY <2>3, PickIn
    <3>2. v \in SUBSET s /\ v # s /\ v \in SUBSET u /\ v \in SUBSET v
      BY <1>6, <3>1
    <3>3. IsSum(below(v), fun, v)
      BY <1>5, <3>2
    <3>4. IsFiniteSet(v)
      BY <1>3, <3>2, FS_Subset
    <3>5. below(v)[v] = below(u)[v]
      <4> HIDE DEF below, v
      <4> QED BY <2>1, <3>2, <3>3, <3>4, SumUnique
    <3>6. below(u)[u] = fun[Pick(u)] + below(u)[v]
      <4>1. u \in SUBSET u
        OBVIOUS
      <4> HIDE DEF below
      <4> QED BY <2>1, <2>3, <4>1, IsSumAt
    <3> HIDE DEF below
    <3> QED BY <2>3, <3>5, <3>6
  <2> HIDE DEF below, value
  <2> QED BY <2>2, <2>3
<1>7. ASSUME NEW u \in SUBSET s
      PROVE  g[u] = IF u = {} THEN 0 ELSE fun[Pick(u)] + g[u \ {Pick(u)}]
  <2>1. CASE u = {}
    BY <2>1
  <2>2. CASE u # {}
    <3> DEFINE v == u \ {Pick(u)}
    <3>1. v \in SUBSET s /\ v # s
      BY <2>2, PickIn
    <3>2. value(v) = below(v)[v]
      BY <1>6, <3>1
    <3>3. g[v] = value(v) /\ g[u] = value(u)
      BY <3>1
    <3>4. value(u) = fun[Pick(u)] + below(v)[v]
      BY <2>2
    <3> HIDE DEF below, value, g
    <3> QED BY <2>2, <3>2, <3>3, <3>4
  <2> HIDE DEF below, value, g
  <2> QED BY <2>1, <2>2
<1>8. IsSum(g, fun, s)
  <2>1. g = [u \in SUBSET s |-> g[u]]
    OBVIOUS
  <2> HIDE DEF g
  <2> QED BY <1>7, <2>1 DEF IsSum
<1> QED BY <1>3, <1>8

\* A sum takes its elements one by one.
LEMMA SumStep ==
  ASSUME NEW fun, NEW S, IsFiniteSet(S)
  PROVE  /\ S = {} => SumFunctionOnSet(fun, S) = 0
         /\ S # {} => SumFunctionOnSet(fun, S)
                        = fun[Pick(S)] + SumFunctionOnSet(fun, S \ {Pick(S)})
<1> DEFINE T == S \ {Pick(S)}
           g == CHOOSE h : IsSum(h, fun, S)
           h == CHOOSE h : IsSum(h, fun, T)
<1>1. IsFiniteSet(T) /\ T \in SUBSET S /\ T \in SUBSET T /\ S \in SUBSET S
  BY FS_Subset
<1>2. IsSum(g, fun, S)
  BY SumExists
<1>3. IsSum(h, fun, T)
  <2> HIDE DEF T
  <2> QED BY <1>1, SumExists
<1>4. SumFunctionOnSet(fun, S) = g[S] /\ SumFunctionOnSet(fun, T) = h[T]
  BY SumIsChosen
<1> HIDE DEF g, h, T
<1>5. g[T] = h[T]
  BY <1>1, <1>2, <1>3, SumUnique
<1> QED BY <1>1, <1>2, <1>4, <1>5, IsSumAt DEF T

-----------------------------------------------------------------------------
(* Sums of integers.                                                       *)

Ints(fun, S) == \A x \in S : fun[x] \in Int

LEMMA SumEmpty == ASSUME NEW fun PROVE SumFunctionOnSet(fun, {}) = 0
BY SumStep, FS_EmptySet

LEMMA SumInt ==
  ASSUME NEW fun, NEW S, IsFiniteSet(S), Ints(fun, S)
  PROVE  SumFunctionOnSet(fun, S) \in Int
<1> DEFINE B == {s \in SUBSET S : SumFunctionOnSet(fun, s) \notin Int}
<1>1. SUFFICES ASSUME B # {} PROVE FALSE
  <2>1. S \in SUBSET S
    OBVIOUS
  <2> QED BY <2>1
<1>2. PICK s \in B : \A u \in B : u \subseteq s => u = s
  <2>1. B \subseteq SUBSET S
    OBVIOUS
  <2> HIDE DEF B
  <2> QED BY <1>1, <2>1, SmallestSubset
<1>3. IsFiniteSet(s) /\ s # {}
  <2>1. SumFunctionOnSet(fun, s) \notin Int /\ IsFiniteSet(s)
    BY FS_Subset
  <2>2. s = {} => SumFunctionOnSet(fun, s) = 0
    BY <2>1, SumStep
  <2> QED BY <2>1, <2>2
<1>4. Pick(s) \in s /\ s \ {Pick(s)} \in SUBSET S
  BY <1>3, PickIn
<1>5. SumFunctionOnSet(fun, s \ {Pick(s)}) \in Int
  BY <1>2, <1>4
<1>6. fun[Pick(s)] \in Int
  BY <1>4 DEF Ints
<1> QED BY <1>3, <1>5, <1>6, SumStep

\* A sum takes its elements in any order.
LEMMA SumRemove ==
  ASSUME NEW fun, NEW S, IsFiniteSet(S), Ints(fun, S), NEW x \in S
  PROVE  SumFunctionOnSet(fun, S) = fun[x] + SumFunctionOnSet(fun, S \ {x})
<1> DEFINE B == {s \in SUBSET S : \E y \in s : SumFunctionOnSet(fun, s)
                                          # fun[y] + SumFunctionOnSet(fun, s \ {y})}
<1>1. SUFFICES ASSUME B # {} PROVE FALSE
  <2>1. S \in SUBSET S
    OBVIOUS
  <2> QED BY <2>1
<1>2. PICK s \in B : \A u \in B : u \subseteq s => u = s
  <2>1. B \subseteq SUBSET S
    OBVIOUS
  <2> HIDE DEF B
  <2> QED BY <1>1, <2>1, SmallestSubset
<1>3. PICK y \in s : SumFunctionOnSet(fun, s) # fun[y] + SumFunctionOnSet(fun, s \ {y})
  OBVIOUS
<1>4. /\ s \in SUBSET S /\ IsFiniteSet(s) /\ Pick(s) \in s
  BY PickIn, FS_Subset
<1>5. \A u \in SUBSET s : u # s =>
        \A z \in u : SumFunctionOnSet(fun, u) = fun[z] + SumFunctionOnSet(fun, u \ {z})
  BY <1>2, <1>4
<1> HIDE DEF B
<1>6. SumFunctionOnSet(fun, s) = fun[Pick(s)] + SumFunctionOnSet(fun, s \ {Pick(s)})
  BY <1>4, SumStep
<1>7. Pick(s) # y
  BY <1>3, <1>6
<1> DEFINE rest == (s \ {y}) \ {Pick(s)}
<1>8. SumFunctionOnSet(fun, s \ {y}) = fun[Pick(s)] + SumFunctionOnSet(fun, rest)
  <2>1. s \ {y} \in SUBSET s /\ s \ {y} # s /\ Pick(s) \in s \ {y}
    BY <1>4, <1>7
  <2> QED BY <1>5, <2>1
<1>9. SumFunctionOnSet(fun, s \ {Pick(s)}) = fun[y] + SumFunctionOnSet(fun, rest)
  <2>1. s \ {Pick(s)} \in SUBSET s /\ s \ {Pick(s)} # s /\ y \in s \ {Pick(s)}
    BY <1>4, <1>7
  <2>2. (s \ {Pick(s)}) \ {y} = rest
    OBVIOUS
  <2> QED BY <1>5, <2>1, <2>2
<1>10. SumFunctionOnSet(fun, rest) \in Int
  <2>1. IsFiniteSet(rest) /\ Ints(fun, rest)
    BY <1>4, FS_Subset DEF Ints
  <2> HIDE DEF rest
  <2> QED BY <2>1, SumInt
<1>11. fun[y] \in Int /\ fun[Pick(s)] \in Int
  BY <1>4 DEF Ints
<1> HIDE DEF rest
<1> QED BY <1>3, <1>6, <1>8, <1>9, <1>10, <1>11

LEMMA SumAdd ==
  ASSUME NEW fun, NEW S, IsFiniteSet(S), NEW x, x \notin S, Ints(fun, S \cup {x})
  PROVE  SumFunctionOnSet(fun, S \cup {x}) = fun[x] + SumFunctionOnSet(fun, S)
<1>1. IsFiniteSet(S \cup {x}) /\ (S \cup {x}) \ {x} = S /\ x \in S \cup {x}
  BY FS_AddElement
<1> QED BY <1>1, SumRemove

\* A sum depends on the values it adds.
LEMMA SumEqual ==
  ASSUME NEW f, NEW g, NEW S, IsFiniteSet(S), \A x \in S : f[x] = g[x]
  PROVE  SumFunctionOnSet(f, S) = SumFunctionOnSet(g, S)
<1> DEFINE B == {s \in SUBSET S : SumFunctionOnSet(f, s) # SumFunctionOnSet(g, s)}
<1>1. SUFFICES ASSUME B # {} PROVE FALSE
  <2>1. S \in SUBSET S
    OBVIOUS
  <2> QED BY <2>1
<1>2. PICK s \in B : \A u \in B : u \subseteq s => u = s
  <2>1. B \subseteq SUBSET S
    OBVIOUS
  <2> HIDE DEF B
  <2> QED BY <1>1, <2>1, SmallestSubset
<1>3. IsFiniteSet(s) /\ s # {}
  BY SumEmpty, FS_Subset
<1>4. Pick(s) \in s /\ s \ {Pick(s)} \in SUBSET S
  BY <1>3, PickIn
<1>5. SumFunctionOnSet(f, s \ {Pick(s)}) = SumFunctionOnSet(g, s \ {Pick(s)})
  BY <1>2, <1>4
<1> QED BY <1>3, <1>4, <1>5, SumStep

\* Two sums over the same set.
LEMMA SumPlus ==
  ASSUME NEW f, NEW g, NEW h, NEW S, IsFiniteSet(S), Ints(f, S), Ints(g, S),
         \A x \in S : h[x] = f[x] + g[x]
  PROVE  SumFunctionOnSet(h, S) = SumFunctionOnSet(f, S) + SumFunctionOnSet(g, S)
<1> DEFINE B == {s \in SUBSET S : SumFunctionOnSet(h, s)
                                    # SumFunctionOnSet(f, s) + SumFunctionOnSet(g, s)}
<1>1. SUFFICES ASSUME B # {} PROVE FALSE
  <2>1. S \in SUBSET S
    OBVIOUS
  <2> QED BY <2>1
<1>2. PICK s \in B : \A u \in B : u \subseteq s => u = s
  <2>1. B \subseteq SUBSET S
    OBVIOUS
  <2> HIDE DEF B
  <2> QED BY <1>1, <2>1, SmallestSubset
<1>3. IsFiniteSet(s) /\ s # {} /\ s \in SUBSET S
  <2>1. /\ SumFunctionOnSet(h, s) # SumFunctionOnSet(f, s) + SumFunctionOnSet(g, s)
        /\ s \in SUBSET S /\ IsFiniteSet(s)
    BY FS_Subset
  <2>2. s = {} => /\ SumFunctionOnSet(f, s) = 0 /\ SumFunctionOnSet(g, s) = 0
                  /\ SumFunctionOnSet(h, s) = 0
    BY <2>1, SumStep
  <2> HIDE DEF B
  <2> QED BY <2>1, <2>2
<1> DEFINE p == Pick(s)
           u == s \ {p}
<1>4. p \in s /\ u \in SUBSET S /\ IsFiniteSet(u)
  BY <1>3, PickIn, FS_Subset
<1>5. SumFunctionOnSet(h, u) = SumFunctionOnSet(f, u) + SumFunctionOnSet(g, u)
  BY <1>2, <1>4
<1>6. SumFunctionOnSet(f, u) \in Int /\ SumFunctionOnSet(g, u) \in Int
  <2>1. Ints(f, u) /\ Ints(g, u)
    BY <1>4 DEF Ints
  <2> HIDE DEF u
  <2> QED BY <1>4, <2>1, SumInt
<1>7. f[p] \in Int /\ g[p] \in Int /\ h[p] = f[p] + g[p]
  BY <1>3, <1>4 DEF Ints
<1>8. /\ SumFunctionOnSet(f, s) = f[p] + SumFunctionOnSet(f, u)
      /\ SumFunctionOnSet(g, s) = g[p] + SumFunctionOnSet(g, u)
      /\ SumFunctionOnSet(h, s) = h[p] + SumFunctionOnSet(h, u)
  BY <1>3, SumStep
<1>9. SumFunctionOnSet(h, s) # SumFunctionOnSet(f, s) + SumFunctionOnSet(g, s)
  OBVIOUS
<1> HIDE DEF B, p, u
<1> QED BY <1>5, <1>6, <1>7, <1>8, <1>9

\* A sum splits over the two parts of its set.
LEMMA SumSplit ==
  ASSUME NEW f, NEW S, IsFiniteSet(S), Ints(f, S), NEW U, U \subseteq S
  PROVE  SumFunctionOnSet(f, S) = SumFunctionOnSet(f, U) + SumFunctionOnSet(f, S \ U)
<1> DEFINE B == {s \in SUBSET U : SumFunctionOnSet(f, S)
                                    # SumFunctionOnSet(f, s) + SumFunctionOnSet(f, S \ s)}
<1>0. IsFiniteSet(U)
  BY FS_Subset
<1>1. SUFFICES ASSUME B # {} PROVE FALSE
  <2>1. U \in SUBSET U
    OBVIOUS
  <2> QED BY <2>1
<1>2. PICK s \in B : \A u \in B : u \subseteq s => u = s
  <2>1. B \subseteq SUBSET U
    OBVIOUS
  <2> HIDE DEF B
  <2> QED BY <1>0, <1>1, <2>1, SmallestSubset
<1>3. /\ s \in SUBSET S /\ s \in SUBSET U /\ IsFiniteSet(s)
      /\ SumFunctionOnSet(f, S) # SumFunctionOnSet(f, s) + SumFunctionOnSet(f, S \ s)
  BY FS_Subset
<1>4. SumFunctionOnSet(f, S) \in Int
  BY SumInt
<1>5. s # {}
  <2>1. ASSUME s = {} PROVE FALSE
    <3>1. SumFunctionOnSet(f, s) = 0 /\ S \ s = S
      BY <2>1, SumEmpty
    <3>2. \A n \in Int : n = 0 + n
      OBVIOUS
    <3>3. SumFunctionOnSet(f, S) = 0 + SumFunctionOnSet(f, S)
      BY <1>4, <3>2
    <3> HIDE DEF B
    <3> QED BY <1>3, <3>1, <3>3, Zenon
  <2> QED BY <2>1
<1>6. PICK x \in s : TRUE
  BY <1>5
<1> DEFINE u == s \ {x}
           rest == S \ s
<1>7. u \in SUBSET U /\ u # s /\ u \subseteq s
  BY <1>3
<1>8. SumFunctionOnSet(f, S) = SumFunctionOnSet(f, u) + SumFunctionOnSet(f, S \ u)
  BY <1>2, <1>7
<1>9. SumFunctionOnSet(f, s) = f[x] + SumFunctionOnSet(f, u)
  BY <1>3, SumRemove DEF Ints
<1>10. SumFunctionOnSet(f, S \ u) = f[x] + SumFunctionOnSet(f, rest)
  <2>1. S \ u = rest \cup {x} /\ x \notin rest /\ x \in S
    BY <1>3
  <2>2. IsFiniteSet(rest) /\ Ints(f, rest \cup {x})
    BY <1>3, FS_Subset DEF Ints
  <2> HIDE DEF rest, u
  <2> QED BY <2>1, <2>2, SumAdd
<1>11. f[x] \in Int /\ SumFunctionOnSet(f, u) \in Int /\ SumFunctionOnSet(f, rest) \in Int
  <2>1. IsFiniteSet(rest) /\ IsFiniteSet(u) /\ Ints(f, rest) /\ Ints(f, u)
    BY <1>3, FS_Subset DEF Ints
  <2>2. f[x] \in Int
    BY <1>3 DEF Ints
  <2> HIDE DEF rest, u
  <2> QED BY <2>1, <2>2, SumInt
<1>12. SumFunctionOnSet(f, S) # SumFunctionOnSet(f, s) + SumFunctionOnSet(f, rest)
  BY <1>3
<1> HIDE DEF B, u, rest
<1> QED BY <1>8, <1>9, <1>10, <1>11, <1>12

LEMMA SumUnion ==
  ASSUME NEW f, NEW S, IsFiniteSet(S), NEW T, IsFiniteSet(T), Ints(f, S \cup T), S \cap T = {}
  PROVE  SumFunctionOnSet(f, S \cup T) = SumFunctionOnSet(f, S) + SumFunctionOnSet(f, T)
<1>1. IsFiniteSet(S \cup T) /\ S \subseteq S \cup T /\ (S \cup T) \ S = T
  BY FS_Union
<1> QED BY <1>1, SumSplit

\* Nothing adds up to nothing.
LEMMA SumZero ==
  ASSUME NEW f, NEW S, IsFiniteSet(S), \A x \in S : f[x] = 0
  PROVE  SumFunctionOnSet(f, S) = 0
<1>1. Ints(f, S) /\ \A x \in S : f[x] = f[x] + f[x]
  BY DEF Ints
<1>2. SumFunctionOnSet(f, S) = SumFunctionOnSet(f, S) + SumFunctionOnSet(f, S)
  BY <1>1, SumPlus
<1>3. SumFunctionOnSet(f, S) \in Int
  BY <1>1, SumInt
<1>4. \A n \in Int : n = n + n => n = 0
  OBVIOUS
<1> QED BY <1>2, <1>3, <1>4, Zenon

\* Only the elements that are not 0 count.
LEMMA SumSupport ==
  ASSUME NEW f, NEW S, IsFiniteSet(S), Ints(f, S), NEW U, U \subseteq S,
         \A x \in S \ U : f[x] = 0
  PROVE  SumFunctionOnSet(f, S) = SumFunctionOnSet(f, U)
<1>1. SumFunctionOnSet(f, S) = SumFunctionOnSet(f, U) + SumFunctionOnSet(f, S \ U)
  BY SumSplit
<1>2. IsFiniteSet(S \ U) /\ IsFiniteSet(U) /\ Ints(f, U)
  BY FS_Subset DEF Ints
<1>3. SumFunctionOnSet(f, S \ U) = 0
  BY <1>2, SumZero
<1>4. SumFunctionOnSet(f, U) \in Int
  BY <1>2, SumInt
<1> QED BY <1>1, <1>3, <1>4

\* One value changes.
LEMMA SumUpdate ==
  ASSUME NEW f, NEW g, NEW S, IsFiniteSet(S), Ints(f, S), Ints(g, S), NEW x \in S,
         \A y \in S \ {x} : g[y] = f[y]
  PROVE  SumFunctionOnSet(g, S) = SumFunctionOnSet(f, S) - f[x] + g[x]
<1>1. SumFunctionOnSet(f, S) = f[x] + SumFunctionOnSet(f, S \ {x})
  BY SumRemove
<1>2. SumFunctionOnSet(g, S) = g[x] + SumFunctionOnSet(g, S \ {x})
  BY SumRemove
<1>3. IsFiniteSet(S \ {x}) /\ Ints(f, S \ {x})
  BY FS_Subset DEF Ints
<1>4. SumFunctionOnSet(g, S \ {x}) = SumFunctionOnSet(f, S \ {x})
  BY <1>3, SumEqual
<1>5. SumFunctionOnSet(f, S \ {x}) \in Int /\ f[x] \in Int /\ g[x] \in Int
  BY <1>3, SumInt DEF Ints
<1> QED BY <1>1, <1>2, <1>4, <1>5

\* The difference of two sums.
LEMMA SumMinus ==
  ASSUME NEW f, NEW g, NEW h, NEW S, IsFiniteSet(S), Ints(f, S), Ints(g, S),
         \A x \in S : h[x] = f[x] - g[x]
  PROVE  SumFunctionOnSet(h, S) = SumFunctionOnSet(f, S) - SumFunctionOnSet(g, S)
<1>1. Ints(h, S) /\ \A x \in S : f[x] = g[x] + h[x]
  BY DEF Ints
<1>2. SumFunctionOnSet(f, S) = SumFunctionOnSet(g, S) + SumFunctionOnSet(h, S)
  BY <1>1, SumPlus
<1>3. SumFunctionOnSet(g, S) \in Int /\ SumFunctionOnSet(h, S) \in Int
  BY <1>1, SumInt
<1> QED BY <1>2, <1>3

\* A sum of natural numbers is one, and is at least each of its parts.
LEMMA SumNat ==
  ASSUME NEW f, NEW S, IsFiniteSet(S), \A x \in S : f[x] \in Nat
  PROVE  SumFunctionOnSet(f, S) \in Nat
<1> DEFINE B == {s \in SUBSET S : SumFunctionOnSet(f, s) \notin Nat}
<1>1. SUFFICES ASSUME B # {} PROVE FALSE
  <2>1. S \in SUBSET S
    OBVIOUS
  <2> QED BY <2>1
<1>2. PICK s \in B : \A u \in B : u \subseteq s => u = s
  <2>1. B \subseteq SUBSET S
    OBVIOUS
  <2> HIDE DEF B
  <2> QED BY <1>1, <2>1, SmallestSubset
<1>3. SumFunctionOnSet(f, s) \notin Nat /\ IsFiniteSet(s) /\ s \in SUBSET S
  BY FS_Subset
<1>4. s # {}
  <2>1. s = {} => SumFunctionOnSet(f, s) = 0
    BY <1>3, SumStep
  <2> HIDE DEF B
  <2> QED BY <1>3, <2>1
<1>5. Pick(s) \in s /\ s \ {Pick(s)} \in SUBSET S /\ s \ {Pick(s)} # s
  BY <1>3, <1>4, PickIn
<1>6. SumFunctionOnSet(f, s \ {Pick(s)}) \in Nat
  BY <1>2, <1>5
<1>7. SumFunctionOnSet(f, s) = f[Pick(s)] + SumFunctionOnSet(f, s \ {Pick(s)})
  BY <1>3, <1>4, SumStep
<1> HIDE DEF B
<1> QED BY <1>3, <1>5, <1>6, <1>7

LEMMA SumBound ==
  ASSUME NEW f, NEW g, NEW S, IsFiniteSet(S), Ints(f, S), Ints(g, S),
         \A x \in S : f[x] <= g[x]
  PROVE  SumFunctionOnSet(f, S) <= SumFunctionOnSet(g, S)
<1> DEFINE d == [x \in S |-> g[x] - f[x]]
<1>1. \A x \in S : d[x] \in Nat /\ d[x] = g[x] - f[x]
  BY DEF Ints
<1> HIDE DEF d
<1>2. SumFunctionOnSet(d, S) = SumFunctionOnSet(g, S) - SumFunctionOnSet(f, S)
  BY <1>1, SumMinus
<1>3. SumFunctionOnSet(d, S) \in Nat
  BY <1>1, SumNat
<1>4. SumFunctionOnSet(f, S) \in Int /\ SumFunctionOnSet(g, S) \in Int
  BY SumInt
<1> QED BY <1>2, <1>3, <1>4

LEMMA SumSingleton ==
  ASSUME NEW f, NEW x, f[x] \in Int
  PROVE  SumFunctionOnSet(f, {x}) = f[x]
<1>1. IsFiniteSet({}) /\ {} \cup {x} = {x} /\ Ints(f, {} \cup {x})
  BY FS_EmptySet DEF Ints
<1>2. SumFunctionOnSet(f, {x}) = f[x] + SumFunctionOnSet(f, {})
  BY <1>1, SumAdd
<1> QED BY <1>2, SumEmpty

LEMMA SumMember ==
  ASSUME NEW f, NEW S, IsFiniteSet(S), \A x \in S : f[x] \in Nat, NEW x \in S
  PROVE  f[x] <= SumFunctionOnSet(f, S)
<1>1. IsFiniteSet(S \ {x}) /\ Ints(f, S)
  BY FS_Subset DEF Ints
<1>2. SumFunctionOnSet(f, S) = f[x] + SumFunctionOnSet(f, S \ {x})
  BY <1>1, SumRemove
<1>3. SumFunctionOnSet(f, S \ {x}) \in Nat
  BY <1>1, SumNat
<1> QED BY <1>2, <1>3

-----------------------------------------------------------------------------
(* Sums of sums.                                                           *)

\* By rows or by columns.
LEMMA SumSwap ==
  ASSUME NEW F, NEW I, IsFiniteSet(I), NEW J, IsFiniteSet(J),
         \A i \in I, j \in J : F[i][j] \in Int
  PROVE  SumFunctionOnSet([i \in I |-> SumFunctionOnSet(F[i], J)], I)
           = SumFunctionOnSet([j \in J |-> SumFunctionOnSet([i \in I |-> F[i][j]], I)], J)
<1> DEFINE row == [i \in I |-> SumFunctionOnSet(F[i], J)]
           cell(j) == [i \in I |-> F[i][j]]
           col(s) == [j \in J |-> SumFunctionOnSet(cell(j), s)]
           B == {s \in SUBSET I : SumFunctionOnSet(row, s) # SumFunctionOnSet(col(s), J)}
<1>1. SUFFICES ASSUME B # {} PROVE FALSE
  <2>1. I \in SUBSET I
    OBVIOUS
  <2>2. SumFunctionOnSet(row, I) = SumFunctionOnSet(col(I), J)
    BY <2>1
  <2> QED BY <2>2
<1>2. PICK s \in B : \A u \in B : u \subseteq s => u = s
  <2>1. B \subseteq SUBSET I
    OBVIOUS
  <2> HIDE DEF B
  <2> QED BY <1>1, <2>1, SmallestSubset
<1>3. /\ SumFunctionOnSet(row, s) # SumFunctionOnSet(col(s), J)
      /\ IsFiniteSet(s) /\ s \in SUBSET I
  BY FS_Subset
<1>4. \A u \in SUBSET s : u # s => SumFunctionOnSet(row, u) = SumFunctionOnSet(col(u), J)
  BY <1>2, <1>3
<1>5. \A u \in SUBSET I : \A j \in J : col(u)[j] = SumFunctionOnSet(cell(j), u)
  OBVIOUS
<1>6. \A j \in J : Ints(cell(j), I)
  BY DEF Ints
<1>7. \A i \in I : row[i] = SumFunctionOnSet(F[i], J) /\ Ints(F[i], J)
  BY DEF Ints
<1>8. \A i \in I, j \in J : cell(j)[i] = F[i][j]
  OBVIOUS
<1> HIDE DEF B, row, cell, col
<1>9. s # {}
  <2>1. ASSUME s = {} PROVE FALSE
    <3>1. SumFunctionOnSet(row, s) = 0
      BY <2>1, SumEmpty
    <3>2. \A j \in J : col(s)[j] = 0
      BY <1>3, <1>5, <2>1, SumEmpty
    <3>3. SumFunctionOnSet(col(s), J) = 0
      BY <3>2, SumZero
    <3> QED BY <1>3, <3>1, <3>3
  <2> QED BY <2>1
<1> DEFINE p == Pick(s)
           u == s \ {p}
<1>10. p \in s /\ u \in SUBSET s /\ u # s /\ u \in SUBSET I /\ IsFiniteSet(u) /\ p \in I
  BY <1>3, <1>9, PickIn, FS_Subset
<1> HIDE DEF p
<1>11. SumFunctionOnSet(row, s) = row[p] + SumFunctionOnSet(row, u)
  BY <1>3, <1>9, SumStep DEF p
<1>12. \A j \in J : col(s)[j] = F[p][j] + col(u)[j]
  <2> SUFFICES ASSUME NEW j \in J PROVE col(s)[j] = F[p][j] + col(u)[j]
    OBVIOUS
  <2>1. SumFunctionOnSet(cell(j), s) = cell(j)[p] + SumFunctionOnSet(cell(j), u)
    BY <1>3, <1>9, SumStep DEF p
  <2> HIDE DEF u
  <2> QED BY <1>3, <1>5, <1>8, <1>10, <2>1
<1>13. Ints(col(u), J) /\ Ints(F[p], J)
  <2>1. \A j \in J : Ints(cell(j), u)
    BY <1>3, <1>6 DEF Ints, u
  <2> HIDE DEF u
  <2>2. \A j \in J : col(u)[j] \in Int
    BY <1>5, <1>10, <2>1, SumInt
  <2> QED BY <1>7, <1>10, <2>2 DEF Ints
<1> HIDE DEF u
<1>14. SumFunctionOnSet(col(s), J) = SumFunctionOnSet(F[p], J) + SumFunctionOnSet(col(u), J)
  BY <1>12, <1>13, SumPlus
<1> QED BY <1>3, <1>4, <1>7, <1>10, <1>11, <1>14

\* A table of integers with the sums of its rows and of its columns.
IsTable(F, I, J, row, cell, col) ==
  /\ \A i \in I, j \in J : F[i][j] \in Int /\ cell[j][i] = F[i][j]
  /\ \A i \in I : row[i] = SumFunctionOnSet(F[i], J)
  /\ \A j \in J : col[j] = SumFunctionOnSet(cell[j], I)

LEMMA TableSums ==
  ASSUME NEW F, NEW I, IsFiniteSet(I), NEW J, IsFiniteSet(J), NEW row, NEW cell, NEW col,
         IsTable(F, I, J, row, cell, col)
  PROVE  SumFunctionOnSet(row, I) = SumFunctionOnSet(col, J)
<1> DEFINE rows == [i \in I |-> SumFunctionOnSet(F[i], J)]
           line(j) == [i \in I |-> F[i][j]]
           cols == [j \in J |-> SumFunctionOnSet(line(j), I)]
<1>1. SumFunctionOnSet(rows, I) = SumFunctionOnSet(cols, J)
  <2>1. \A i \in I, j \in J : F[i][j] \in Int
    BY DEF IsTable
  <2> QED BY ONLY <2>1, IsFiniteSet(I), IsFiniteSet(J), SumSwap
<1>2. \A i \in I : row[i] = rows[i]
  BY DEF IsTable
<1>3. \A j \in J : col[j] = cols[j]
  <2> SUFFICES ASSUME NEW j \in J PROVE SumFunctionOnSet(cell[j], I) = SumFunctionOnSet(line(j), I)
    BY DEF IsTable
  <2>1. \A i \in I : cell[j][i] = line(j)[i]
    BY DEF IsTable
  <2> HIDE DEF line
  <2> QED BY <2>1, SumEqual
<1> HIDE DEF rows, cols
<1>4. SumFunctionOnSet(row, I) = SumFunctionOnSet(rows, I)
  BY <1>2, SumEqual
<1>5. SumFunctionOnSet(col, J) = SumFunctionOnSet(cols, J)
  BY <1>3, SumEqual
<1> QED BY <1>1, <1>4, <1>5

\* Grouped by a key.
LEMMA SumGroup ==
  ASSUME NEW f, NEW S, IsFiniteSet(S), Ints(f, S), NEW G, IsFiniteSet(G),
         NEW key, \A x \in S : key[x] \in G
  PROVE  SumFunctionOnSet(f, S)
           = SumFunctionOnSet([g \in G |-> SumFunctionOnSet(f, {x \in S : key[x] = g})], G)
<1> DEFINE F == [x \in S |-> [g \in G |-> IF key[x] = g THEN f[x] ELSE 0]]
           of(g) == {x \in S : key[x] = g}
<1>1. \A x \in S, g \in G : F[x][g] = (IF key[x] = g THEN f[x] ELSE 0) /\ F[x][g] \in Int
  BY DEF Ints
<1> HIDE DEF F
<1>2. \A x \in S : SumFunctionOnSet(F[x], G) = f[x]
  <2> SUFFICES ASSUME NEW x \in S PROVE SumFunctionOnSet(F[x], G) = f[x]
    OBVIOUS
  <2>1. /\ Ints(F[x], G) /\ {key[x]} \subseteq G
        /\ \A g \in G \ {key[x]} : F[x][g] = 0
        /\ F[x][key[x]] = f[x] /\ f[x] \in Int
    BY <1>1 DEF Ints
  <2>2. SumFunctionOnSet(F[x], G) = SumFunctionOnSet(F[x], {key[x]})
    BY <2>1, SumSupport
  <2> QED BY <2>1, <2>2, SumSingleton
<1>3. \A g \in G : SumFunctionOnSet([x \in S |-> F[x][g]], S) = SumFunctionOnSet(f, of(g))
  <2> SUFFICES ASSUME NEW g \in G
               PROVE  SumFunctionOnSet([x \in S |-> F[x][g]], S) = SumFunctionOnSet(f, of(g))
    OBVIOUS
  <2> DEFINE c == [x \in S |-> F[x][g]]
  <2>1. /\ Ints(c, S) /\ of(g) \subseteq S /\ \A x \in S \ of(g) : c[x] = 0
        /\ \A x \in of(g) : c[x] = f[x]
    BY <1>1 DEF Ints
  <2>2. IsFiniteSet(of(g))
    BY FS_Subset
  <2> HIDE DEF c, of
  <2>3. SumFunctionOnSet(c, S) = SumFunctionOnSet(c, of(g))
    BY <2>1, SumSupport
  <2>4. SumFunctionOnSet(c, of(g)) = SumFunctionOnSet(f, of(g))
    BY <2>1, <2>2, SumEqual
  <2> QED BY <2>3, <2>4 DEF c
<1>4. SumFunctionOnSet([x \in S |-> SumFunctionOnSet(F[x], G)], S)
        = SumFunctionOnSet([g \in G |-> SumFunctionOnSet([x \in S |-> F[x][g]], S)], G)
  BY <1>1, SumSwap
<1>5. SumFunctionOnSet([x \in S |-> SumFunctionOnSet(F[x], G)], S) = SumFunctionOnSet(f, S)
  <2> DEFINE h == [x \in S |-> SumFunctionOnSet(F[x], G)]
  <2>1. \A x \in S : h[x] = f[x]
    BY <1>2
  <2> HIDE DEF h
  <2> QED BY <2>1, SumEqual DEF h
<1>6. SumFunctionOnSet([g \in G |-> SumFunctionOnSet([x \in S |-> F[x][g]], S)], G)
        = SumFunctionOnSet([g \in G |-> SumFunctionOnSet(f, of(g))], G)
  <2> DEFINE h == [g \in G |-> SumFunctionOnSet([x \in S |-> F[x][g]], S)]
             k == [g \in G |-> SumFunctionOnSet(f, of(g))]
  <2>1. \A g \in G : h[g] = k[g]
    BY <1>3
  <2> HIDE DEF h, k
  <2> QED BY <2>1, SumEqual DEF h, k
<1> QED BY <1>4, <1>5, <1>6

\* The image of a finite set is finite.
LEMMA FiniteImage ==
  ASSUME NEW S, IsFiniteSet(S), NEW b, NEW T, T = {b[x] : x \in S}
  PROVE  IsFiniteSet(T)
<1>1. [x \in S |-> b[x]] \in Surjection(S, T)
  BY DEF Surjection
<1> QED BY <1>1, FS_Surjection

\* Under other names.
LEMMA SumImage ==
  ASSUME NEW f, NEW S, IsFiniteSet(S), NEW g, NEW T, Ints(g, T), NEW b,
         T = {b[x] : x \in S}, \A x \in S, y \in S : b[x] = b[y] => x = y,
         \A x \in S : f[x] = g[b[x]]
  PROVE  IsFiniteSet(T) /\ SumFunctionOnSet(f, S) = SumFunctionOnSet(g, T)
<1> DEFINE image(s) == {b[x] : x \in s}
           B == {s \in SUBSET S : SumFunctionOnSet(f, s) # SumFunctionOnSet(g, image(s))}
<1>0. ASSUME NEW s \in SUBSET S PROVE IsFiniteSet(s) /\ IsFiniteSet(image(s))
  <2>1. IsFiniteSet(s)
    BY FS_Subset
  <2>2. [x \in s |-> b[x]] \in Surjection(s, image(s))
    BY DEF Surjection
  <2> QED BY <2>1, <2>2, FS_Surjection
<1>1. SUFFICES ASSUME B # {} PROVE FALSE
  <2>1. S \in SUBSET S /\ image(S) = T
    OBVIOUS
  <2> QED BY <1>0, <2>1
<1>2. PICK s \in B : \A u \in B : u \subseteq s => u = s
  <2>1. B \subseteq SUBSET S
    OBVIOUS
  <2> HIDE DEF B
  <2> QED BY <1>1, <2>1, SmallestSubset
<1>3. /\ SumFunctionOnSet(f, s) # SumFunctionOnSet(g, image(s))
      /\ s \in SUBSET S
  OBVIOUS
<1>4. s # {}
  <2>1. ASSUME s = {} PROVE FALSE
    <3>1. SumFunctionOnSet(f, s) = 0 /\ image(s) = {}
      BY <2>1, SumEmpty
    <3>2. SumFunctionOnSet(g, image(s)) = 0
      BY <3>1, SumEmpty
    <3> HIDE DEF B, image
    <3> QED BY <1>3, <3>1, <3>2
  <2> QED BY <2>1
<1> DEFINE p == Pick(s)
           u == s \ {p}
<1>5. p \in s /\ u \in SUBSET S /\ u # s /\ u \subseteq s
  BY <1>3, <1>4, PickIn
<1>6. SumFunctionOnSet(f, u) = SumFunctionOnSet(g, image(u))
  BY <1>2, <1>5
<1>7. SumFunctionOnSet(f, s) = f[p] + SumFunctionOnSet(f, u)
  BY <1>0, <1>3, <1>4, SumStep
<1>8. image(s) = image(u) \cup {b[p]} /\ b[p] \notin image(u)
  BY <1>3, <1>5
<1>9. Ints(g, image(u) \cup {b[p]}) /\ IsFiniteSet(image(u))
  <2>1. IsFiniteSet(image(u))
    BY <1>0, <1>5
  <2>2. image(u) \cup {b[p]} \subseteq T
    BY <1>3, <1>5
  <2> HIDE DEF image, u, p
  <2> QED BY <2>1, <2>2 DEF Ints
<1> HIDE DEF B, p, u, image
<1>10. SumFunctionOnSet(g, image(u) \cup {b[p]}) = g[b[p]] + SumFunctionOnSet(g, image(u))
  BY <1>8, <1>9, SumAdd
<1> QED BY <1>3, <1>5, <1>6, <1>7, <1>8, <1>10

\* The sums of the first numbers of a list.
LEMMA PrefixStep ==
  ASSUME NEW sizes, NEW n \in Nat, \A i \in 1..n : sizes[i] \in Nat
  PROVE  /\ SumFunctionOnSet(sizes, 1..0) = 0
         /\ \A i \in 0..n : SumFunctionOnSet(sizes, 1..i) \in Nat
         /\ \A i \in 1..n : SumFunctionOnSet(sizes, 1..i) = SumFunctionOnSet(sizes, 1..(i - 1)) + sizes[i]
<1>1. SumFunctionOnSet(sizes, 1..0) = 0
  BY SumEmpty
<1>2. ASSUME NEW i \in 0..n PROVE IsFiniteSet(1..i) /\ Ints(sizes, 1..i) /\ SumFunctionOnSet(sizes, 1..i) \in Nat
  <2>1. IsFiniteSet(1..i) /\ \A k \in 1..i : sizes[k] \in Nat
    BY FS_Interval
  <2> QED BY <2>1, SumNat DEF Ints
<1>3. ASSUME NEW i \in 1..n PROVE SumFunctionOnSet(sizes, 1..i) = SumFunctionOnSet(sizes, 1..(i - 1)) + sizes[i]
  <2>1. i \in 1..i /\ (1..i) \ {i} = 1..(i - 1) /\ i \in 0..n /\ i - 1 \in 0..n
    OBVIOUS
  <2>2. IsFiniteSet(1..i) /\ Ints(sizes, 1..i)
    BY <1>2, <2>1
  <2>3. SumFunctionOnSet(sizes, 1..i) = sizes[i] + SumFunctionOnSet(sizes, (1..i) \ {i})
    BY <2>1, <2>2, SumRemove
  <2>4. SumFunctionOnSet(sizes, 1..i) = sizes[i] + SumFunctionOnSet(sizes, 1..(i - 1))
    BY <2>1, <2>3
  <2>5. sizes[i] \in Nat /\ SumFunctionOnSet(sizes, 1..(i - 1)) \in Nat
    BY <1>2, <2>1
  <2> QED BY <2>4, <2>5
<1> QED BY <1>1, <1>2, <1>3

LEMMA PrefixGrows ==
  ASSUME NEW sizes, NEW n \in Nat, \A i \in 1..n : sizes[i] \in Nat,
         NEW i \in 0..n, NEW k \in 0..n, i <= k
  PROVE  SumFunctionOnSet(sizes, 1..i) <= SumFunctionOnSet(sizes, 1..k)
<1>1. IsFiniteSet(1..k) /\ Ints(sizes, 1..k) /\ 1..i \subseteq 1..k
  BY FS_Interval DEF Ints
<1>2. SumFunctionOnSet(sizes, 1..k)
        = SumFunctionOnSet(sizes, 1..i) + SumFunctionOnSet(sizes, (1..k) \ (1..i))
  BY <1>1, SumSplit
<1>3. SumFunctionOnSet(sizes, (1..k) \ (1..i)) \in Nat
  <2>1. IsFiniteSet((1..k) \ (1..i)) /\ \A x \in (1..k) \ (1..i) : sizes[x] \in Nat
    BY <1>1, FS_Subset
  <2> QED BY <2>1, SumNat
<1>4. SumFunctionOnSet(sizes, 1..i) \in Nat
  BY PrefixStep
<1> QED BY <1>2, <1>3, <1>4
=============================================================================
