----------------------------- MODULE StatsProofs -----------------------------
(***************************************************************************)
(* What holds of the statistics page and of the roll-ups for any history,  *)
(* prices, windows, ladder of bar widths, number of rows, users and keys.  *)
(*                                                                         *)
(* The pages are functions of a finite set of requests.  Each table puts   *)
(* every request into one row, and is right because the sums over the rows *)
(* add up to the sum over the set.  That is an induction on the set, which *)
(* is done once, on a set of subsets (SetOfSubsets), for the fold with     *)
(* which the sums are defined; the sort of the roll-ups is an induction on *)
(* places (SetOfNaturals).                                                 *)
(*                                                                         *)
(* The invariant of the history is that no request started later than now, *)
(* so the chart has an end.  The invariant of the roll-ups (RollupInv)     *)
(* says what is still to come while a page is loaded: the keys that were   *)
(* copied will be listed, and a user with requests that are due is to be   *)
(* counted or has a row with at least as many.                             *)
(***************************************************************************)
EXTENDS Stats, FiniteSetTheorems, SequenceTheorems, WellFoundedInduction,
        TLAPS

-----------------------------------------------------------------------------
(* Induction.                                                              *)

\* Induction on numbers, about a set of them.
LEMMA SetOfNaturals ==
    ASSUME NEW T, 0 \in T, \A n \in Nat : n \in T => n + 1 \in T
    PROVE  Nat \subseteq T
<1> DEFINE Rest == Nat \ T
<1>1. SUFFICES ASSUME Rest # {} PROVE FALSE
  OBVIOUS
<1>2. PICK n \in Rest : \A m \in Rest : ~(<<m, n>> \in OpToRel(<, Nat))
  <2>1. Rest \subseteq Nat
    OBVIOUS
  <2> HIDE DEF Rest
  <2>2. QED
    BY <1>1, <2>1, NatLessThanWellFounded, WFMin
<1>3. n \in Nat /\ n # 0 /\ n - 1 \in Nat /\ n - 1 < n
  OBVIOUS
<1>4. n - 1 \notin Rest
  BY <1>2, <1>3 DEF OpToRel
<1>5. (n - 1) + 1 \in T
  BY <1>3, <1>4
<1>6. QED
  BY <1>3, <1>5

\* Induction on the subsets of a finite set, about a set of them.
LEMMA SetOfSubsets ==
    ASSUME NEW D, IsFiniteSet(D), NEW T, {} \in T,
           \A s \in SUBSET D, x \in D : s \in T /\ x \notin s => s \cup {x} \in T
    PROVE  SUBSET D \subseteq T
<1> DEFINE N == {n \in Nat : \A s \in SUBSET D : Cardinality(s) = n => s \in T}
<1>1. \A s \in SUBSET D : IsFiniteSet(s) /\ Cardinality(s) \in Nat
  BY FS_Subset, FS_CardinalityType
<1>2. 0 \in N
  BY <1>1, FS_EmptySet
<1>3. ASSUME NEW n \in Nat, n \in N PROVE n + 1 \in N
  <2>1. SUFFICES ASSUME NEW s \in SUBSET D, Cardinality(s) = n + 1
                 PROVE  s \in T
    OBVIOUS
  <2>2. s # {}
    <3>1. Cardinality({}) = 0 /\ n + 1 # 0
      BY FS_EmptySet
    <3>2. QED
      BY <2>1, <3>1
  <2>3. PICK x \in s : TRUE
    BY <2>2
  <2>4. Cardinality(s \ {x}) = n
    <3>1. Cardinality(s \ {x}) = Cardinality(s) - 1
      BY <1>1, FS_RemoveElement
    <3>2. QED
      BY <2>1, <3>1
  <2>5. s \ {x} \in T /\ s \ {x} \in SUBSET D
    BY <1>3, <2>4
  <2>6. (s \ {x}) \cup {x} = s
    OBVIOUS
  <2>7. QED
    BY <2>5, <2>6
<1>4. Nat \subseteq N
  <2> HIDE DEF N
  <2>1. QED
    BY <1>2, <1>3, SetOfNaturals
<1>5. QED
  BY <1>1, <1>4

-----------------------------------------------------------------------------
(* Sums over finite sets.                                                  *)

\* The element the fold of the library takes first.
Pick(s) == CHOOSE x \in s : TRUE

\* What the fold of the library is: a function on the subsets of S.
IsFold(g, f, S) ==
    g = [s \in SUBSET S |->
            IF s = {} THEN 0 ELSE f[Pick(s)] + g[s \ {Pick(s)}]]

\* The sum is its value at S.
LEMMA SumIsFold ==
    ASSUME NEW f, NEW S
    PROVE  SumFunctionOnSet(f, S) = (CHOOSE g : IsFold(g, f, S))[S]
  BY DEF SumFunctionOnSet, FoldFunctionOnSet, MapThenFoldSet, IsFold, Pick

\* There is such a function: one that is right up to a size gives one that
\* is right up to the next.
LEMMA FoldExists ==
    ASSUME NEW f, NEW S, IsFiniteSet(S), \A x \in S : f[x] \in Int
    PROVE  \E g : IsFold(g, f, S)
<1> DEFINE Value(g, s) == IF s = {} THEN 0 ELSE f[Pick(s)] + g[s \ {Pick(s)}]
           Upto(g, n) == \A s \in SUBSET S :
                            Cardinality(s) <= n => g[s] = Value(g, s)
           N == {n \in Nat : \E g \in [SUBSET S -> Int] : Upto(g, n)}
<1>1. \A s \in SUBSET S : IsFiniteSet(s) /\ Cardinality(s) \in Nat
                          /\ Cardinality(s) <= Cardinality(S)
  BY FS_Subset, FS_CardinalityType
<1>2. \A s \in SUBSET S : s # {} =>
         /\ Pick(s) \in s /\ s \ {Pick(s)} \in SUBSET S
         /\ Cardinality(s \ {Pick(s)}) = Cardinality(s) - 1
  BY <1>1, FS_RemoveElement DEF Pick
<1>3. 0 \in N
  <2> DEFINE g == [s \in SUBSET S |-> 0]
  <2>1. g \in [SUBSET S -> Int]
    OBVIOUS
  <2>2. \A s \in SUBSET S : Cardinality(s) <= 0 => s = {}
    BY <1>1, FS_EmptySet
  <2>3. Upto(g, 0)
    BY <2>2
  <2>4. QED
    BY <2>1, <2>3
<1>4. ASSUME NEW n \in Nat, n \in N PROVE n + 1 \in N
  <2>1. PICK g \in [SUBSET S -> Int] : Upto(g, n)
    BY <1>4
  <2> DEFINE h == [s \in SUBSET S |-> Value(g, s)]
  <2>2. h \in [SUBSET S -> Int]
    BY <1>2
  <2>3. ASSUME NEW s \in SUBSET S, Cardinality(s) <= n + 1
        PROVE  h[s] = Value(h, s)
    <3>1. CASE s = {}
      BY <3>1
    <3>2. CASE s # {}
      <4>1. s \ {Pick(s)} \in SUBSET S /\ Cardinality(s \ {Pick(s)}) <= n
        BY <1>1, <1>2, <2>3, <3>2
      <4>2. g[s \ {Pick(s)}] = h[s \ {Pick(s)}]
        BY <2>1, <4>1
      <4>3. QED
        BY <3>2, <4>2
    <3>3. QED
      BY <3>1, <3>2
  <2>4. Upto(h, n + 1)
    BY <2>3
  <2> HIDE DEF h, Upto
  <2>5. QED
    BY <2>2, <2>4
<1>5. Cardinality(S) \in N
  <2>1. Nat \subseteq N
    <3> HIDE DEF N
    <3>1. QED
      BY <1>3, <1>4, SetOfNaturals
  <2>2. QED
    BY <2>1, FS_CardinalityType
<1>6. PICK g \in [SUBSET S -> Int] : Upto(g, Cardinality(S))
  BY <1>5
<1>7. g = [s \in SUBSET S |-> Value(g, s)]
  BY <1>1, <1>6
<1>8. QED
  BY <1>7 DEF IsFold

\* Its values are integers, and follow its equation.
LEMMA FoldProperties ==
    ASSUME NEW f, NEW S, IsFiniteSet(S), \A x \in S : f[x] \in Int,
           NEW g, IsFold(g, f, S)
    PROVE  \A s \in SUBSET S :
              /\ g[s] \in Int
              /\ s = {} => g[s] = 0
              /\ s # {} => Pick(s) \in s /\ g[s] = f[Pick(s)] + g[s \ {Pick(s)}]
<1> DEFINE N == {n \in Nat : \A s \in SUBSET S : Cardinality(s) <= n => g[s] \in Int}
<1>1. \A s \in SUBSET S : IsFiniteSet(s) /\ Cardinality(s) \in Nat
                          /\ Cardinality(s) <= Cardinality(S)
  BY FS_Subset, FS_CardinalityType
<1>2. \A s \in SUBSET S : s # {} =>
         /\ Pick(s) \in s /\ s \ {Pick(s)} \in SUBSET S
         /\ Cardinality(s \ {Pick(s)}) = Cardinality(s) - 1
  BY <1>1, FS_RemoveElement DEF Pick
<1>3. \A s \in SUBSET S :
         /\ s = {} => g[s] = 0
         /\ s # {} => g[s] = f[Pick(s)] + g[s \ {Pick(s)}]
  BY DEF IsFold
<1>0. g[{}] \in Int
  <2>1. g[{}] = 0
    BY <1>3
  <2>2. QED
    BY <2>1
<1>4. 0 \in N
  <2>1. \A s \in SUBSET S : Cardinality(s) <= 0 => s = {}
    BY <1>1, FS_EmptySet
  <2>2. \A s \in SUBSET S : Cardinality(s) <= 0 => g[s] \in Int
    BY <1>0, <2>1
  <2>3. QED
    BY <2>2
<1>5. ASSUME NEW n \in Nat, n \in N PROVE n + 1 \in N
  <2>1. ASSUME NEW s \in SUBSET S, Cardinality(s) <= n + 1, s # {}
        PROVE  g[s] \in Int
    <3>1. Cardinality(s \ {Pick(s)}) <= n
      BY <1>1, <1>2, <2>1
    <3>2. g[s \ {Pick(s)}] \in Int /\ f[Pick(s)] \in Int
      BY <1>2, <1>5, <2>1, <3>1
    <3>3. QED
      BY <1>3, <2>1, <3>2
  <2>2. \A s \in SUBSET S : Cardinality(s) <= n + 1 => g[s] \in Int
    BY <1>0, <2>1
  <2>3. QED
    BY <2>2
<1>6. Cardinality(S) \in N
  <2> HIDE DEF N
  <2>1. QED
    BY <1>4, <1>5, SetOfNaturals, FS_CardinalityType
<1>7. QED
  BY <1>1, <1>2, <1>3, <1>6

\* A fold is the same function on what two sets share.
LEMMA FoldUnique ==
    ASSUME NEW D, IsFiniteSet(D), NEW f, \A x \in D : f[x] \in Int,
           NEW S \in SUBSET D, NEW e, \A x \in S : e[x] = f[x],
           NEW g, IsFold(g, f, D), NEW h, IsFold(h, e, S)
    PROVE  h[S] = g[S]
<1> DEFINE N == {n \in Nat : \A s \in SUBSET S : Cardinality(s) <= n => g[s] = h[s]}
<1>1. \A s \in SUBSET S : IsFiniteSet(s) /\ Cardinality(s) \in Nat
                          /\ Cardinality(s) <= Cardinality(S)
  BY FS_Subset, FS_CardinalityType
<1>2. \A s \in SUBSET S : s # {} =>
         /\ Pick(s) \in s /\ s \ {Pick(s)} \in SUBSET S
         /\ Cardinality(s \ {Pick(s)}) = Cardinality(s) - 1
  BY <1>1, FS_RemoveElement DEF Pick
<1>3. \A s \in SUBSET S :
         /\ s = {} => g[s] = 0 /\ h[s] = 0
         /\ s # {} => /\ g[s] = f[Pick(s)] + g[s \ {Pick(s)}]
                      /\ h[s] = e[Pick(s)] + h[s \ {Pick(s)}]
  BY DEF IsFold
<1>4. 0 \in N
  <2>1. \A s \in SUBSET S : Cardinality(s) <= 0 => s = {}
    BY <1>1, FS_EmptySet
  <2>2. QED
    BY <1>3, <2>1
<1>5. ASSUME NEW n \in Nat, n \in N PROVE n + 1 \in N
  <2>1. ASSUME NEW s \in SUBSET S, Cardinality(s) <= n + 1, s # {}
        PROVE  g[s] = h[s]
    <3>1. Cardinality(s \ {Pick(s)}) <= n
      BY <1>1, <1>2, <2>1
    <3>2. g[s \ {Pick(s)}] = h[s \ {Pick(s)}] /\ e[Pick(s)] = f[Pick(s)]
      BY <1>2, <1>5, <2>1, <3>1
    <3>3. QED
      BY <1>3, <2>1, <3>2
  <2>2. \A s \in SUBSET S : Cardinality(s) <= n + 1 => g[s] = h[s]
    BY <1>3, <2>1
  <2>3. QED
    BY <2>2
<1>6. Cardinality(S) \in N
  <2>1. IsFiniteSet(S)
    BY FS_Subset
  <2> HIDE DEF N
  <2>2. QED
    BY <1>4, <1>5, <2>1, SetOfNaturals, FS_CardinalityType
<1>7. QED
  BY <1>1, <1>6

\* A sum is an integer, and every element is in it once.
LEMMA SumTyped ==
    ASSUME NEW f, NEW S, IsFiniteSet(S), \A x \in S : f[x] \in Int
    PROVE  /\ SumFunctionOnSet(f, S) \in Int
           /\ \A x \in S : SumFunctionOnSet(f, S)
                             = f[x] + SumFunctionOnSet(f, S \ {x})
<1> DEFINE sum(s) == SumFunctionOnSet(f, s)
           g == CHOOSE g : IsFold(g, f, S)
           N == {n \in Nat : \A s \in SUBSET S : Cardinality(s) <= n =>
                                \A x \in s : g[s] = f[x] + g[s \ {x}]}
<1>1. IsFold(g, f, S)
  BY FoldExists
<1>2. \A s \in SUBSET S : sum(s) = g[s]
  <2>1. TAKE s \in SUBSET S
  <2> DEFINE h == CHOOSE h : IsFold(h, f, s)
  <2>2. IsFiniteSet(s)
    BY FS_Subset
  <2>3. IsFold(h, f, s)
    BY <2>2, FoldExists
  <2>4. sum(s) = h[s]
    BY SumIsFold
  <2> HIDE DEF g, h, sum
  <2>5. h[s] = g[s]
    BY <1>1, <2>2, <2>3, FoldUnique
  <2>6. QED
    BY <2>4, <2>5
<1> HIDE DEF g
<1>3. \A s \in SUBSET S :
         /\ g[s] \in Int
         /\ s = {} => g[s] = 0
         /\ s # {} => Pick(s) \in s /\ g[s] = f[Pick(s)] + g[s \ {Pick(s)}]
  BY <1>1, FoldProperties
<1>4. \A s \in SUBSET S : /\ IsFiniteSet(s) /\ Cardinality(s) \in Nat
                          /\ Cardinality(s) <= Cardinality(S)
                          /\ \A x \in s : Cardinality(s \ {x}) = Cardinality(s) - 1
  BY FS_Subset, FS_CardinalityType, FS_RemoveElement
<1>5. 0 \in N
  <2>1. \A s \in SUBSET S : Cardinality(s) <= 0 => s = {}
    BY <1>4, FS_EmptySet
  <2>2. QED
    BY <2>1
<1>6. ASSUME NEW n \in Nat, n \in N PROVE n + 1 \in N
  <2>1. ASSUME NEW s \in SUBSET S, Cardinality(s) <= n + 1, NEW x \in s
        PROVE  g[s] = f[x] + g[s \ {x}]
    <3> DEFINE y == Pick(s)
    <3>1. y \in s /\ g[s] = f[y] + g[s \ {y}]
      BY <1>3
    <3> HIDE DEF y
    <3>2. CASE x = y
      BY <3>1, <3>2
    <3>3. CASE x # y
      <4>1. /\ s \ {x} \in SUBSET S /\ s \ {y} \in SUBSET S
            /\ y \in s \ {x} /\ x \in s \ {y}
            /\ (s \ {x}) \ {y} = (s \ {y}) \ {x}
        BY <3>1, <3>3
      <4>2. Cardinality(s \ {x}) <= n /\ Cardinality(s \ {y}) <= n
        BY <1>4, <2>1, <3>1
      <4>3. /\ g[s \ {y}] = f[x] + g[(s \ {y}) \ {x}]
            /\ g[s \ {x}] = f[y] + g[(s \ {x}) \ {y}]
        BY <1>6, <4>1, <4>2
      <4> DEFINE rest == g[(s \ {y}) \ {x}]
      <4>4. /\ f[x] \in Int /\ f[y] \in Int /\ rest \in Int
        BY <1>3, <3>1
      <4>5. g[s] = f[y] + (f[x] + rest) /\ g[s \ {x}] = f[y] + rest
        BY <3>1, <4>1, <4>3
      <4> HIDE DEF rest
      <4>6. QED
        BY <4>4, <4>5
    <3>4. QED
      BY <3>2, <3>3
  <2>2. QED
    BY <2>1
<1>7. Cardinality(S) \in N
  <2> HIDE DEF N
  <2>1. QED
    BY <1>5, <1>6, SetOfNaturals, FS_CardinalityType
<1>8. \A x \in S : g[S] = f[x] + g[S \ {x}]
  BY <1>4, <1>7
<1>9. QED
  BY <1>2, <1>3, <1>8

\* The empty sum.
LEMMA SumOfNone == ASSUME NEW f PROVE SumFunctionOnSet(f, {}) = 0
<1> DEFINE g == CHOOSE g : IsFold(g, f, {})
<1>1. IsFiniteSet({})
  BY FS_EmptySet
<1>2. IsFold(g, f, {})
  BY <1>1, FoldExists
<1>3. g[{}] = 0
  <2> HIDE DEF g
  <2>1. QED
    BY <1>2 DEF IsFold
<1>4. QED
  BY <1>3, SumIsFold

\* Only what is added up matters.
LEMMA SumSame ==
    ASSUME NEW f, NEW e, NEW S, IsFiniteSet(S),
           \A x \in S : f[x] \in Int /\ e[x] = f[x]
    PROVE  SumFunctionOnSet(e, S) = SumFunctionOnSet(f, S)
<1> DEFINE g == CHOOSE g : IsFold(g, f, S)
           h == CHOOSE h : IsFold(h, e, S)
<1>1. IsFold(g, f, S) /\ IsFold(h, e, S)
  BY FoldExists
<1>2. SumFunctionOnSet(f, S) = g[S] /\ SumFunctionOnSet(e, S) = h[S]
  BY SumIsFold
<1> HIDE DEF g, h
<1>3. h[S] = g[S]
  BY <1>1, FoldUnique
<1>4. QED
  BY <1>2, <1>3

\* One more element.
LEMMA SumAdd ==
    ASSUME NEW f, NEW S, IsFiniteSet(S), NEW x, x \notin S,
           \A y \in S \cup {x} : f[y] \in Int
    PROVE  SumFunctionOnSet(f, S \cup {x}) = SumFunctionOnSet(f, S) + f[x]
<1>1. IsFiniteSet(S \cup {x}) /\ (S \cup {x}) \ {x} = S
  BY FS_AddElement
<1>2. SumFunctionOnSet(f, S) \in Int /\ f[x] \in Int
  BY SumTyped
<1>3. SumFunctionOnSet(f, S \cup {x}) = f[x] + SumFunctionOnSet(f, S)
  <2>1. SumFunctionOnSet(f, S \cup {x})
          = f[x] + SumFunctionOnSet(f, (S \cup {x}) \ {x})
    BY <1>1, SumTyped
  <2>2. QED
    BY <1>1, <2>1
<1>4. QED
  BY <1>2, <1>3

\* Two sets that share nothing.
LEMMA SumDisjoint ==
    ASSUME NEW f, NEW A, IsFiniteSet(A), NEW B, IsFiniteSet(B),
           A \cap B = {}, \A x \in A \cup B : f[x] \in Int
    PROVE  SumFunctionOnSet(f, A \cup B)
             = SumFunctionOnSet(f, A) + SumFunctionOnSet(f, B)
<1> DEFINE sum(s) == SumFunctionOnSet(f, s)
           T == {s \in SUBSET B : sum(A \cup s) = sum(A) + sum(s)}
<1>0. sum(A) \in Int
  BY SumTyped
<1>1. {} \in T
  <2>1. A \cup {} = A /\ sum({}) = 0
    BY SumOfNone
  <2> HIDE DEF sum
  <2>2. QED
    BY <1>0, <2>1
<1>2. ASSUME NEW s \in SUBSET B, NEW x \in B, s \in T, x \notin s
      PROVE  s \cup {x} \in T
  <2>1. IsFiniteSet(s) /\ IsFiniteSet(A \cup s)
    BY FS_Subset, FS_Union
  <2>2. sum(s \cup {x}) = sum(s) + f[x]
    BY <1>2, <2>1, SumAdd
  <2>3. sum((A \cup s) \cup {x}) = sum(A \cup s) + f[x]
    BY <1>2, <2>1, SumAdd
  <2>4. sum(s) \in Int /\ f[x] \in Int
    BY <2>1, SumTyped
  <2>5. A \cup (s \cup {x}) = (A \cup s) \cup {x} /\ s \cup {x} \in SUBSET B
    OBVIOUS
  <2>6. sum(A \cup (s \cup {x})) = sum(A) + sum(s \cup {x})
    <3>1. sum(A \cup (s \cup {x})) = sum(A \cup s) + f[x]
      BY <2>3, <2>5
    <3>2. sum(A \cup s) = sum(A) + sum(s)
      BY <1>2
    <3> HIDE DEF sum
    <3>3. QED
      BY <1>0, <2>2, <2>4, <3>1, <3>2
  <2>7. QED
    BY <2>5, <2>6
<1>3. B \in T
  <2> HIDE DEF T
  <2>1. QED
    BY <1>1, <1>2, SetOfSubsets
<1>4. QED
  BY <1>3

\* Larger numbers have a larger sum.
LEMMA SumMonotone ==
    ASSUME NEW f, NEW e, NEW S, IsFiniteSet(S),
           \A x \in S : f[x] \in Int /\ e[x] \in Int /\ f[x] <= e[x]
    PROVE  SumFunctionOnSet(f, S) <= SumFunctionOnSet(e, S)
<1> DEFINE T == {s \in SUBSET S :
                    SumFunctionOnSet(f, s) <= SumFunctionOnSet(e, s)}
<1>1. {} \in T
  BY SumOfNone
<1>2. ASSUME NEW s \in SUBSET S, NEW x \in S, s \in T, x \notin s
      PROVE  s \cup {x} \in T
  <2>1. IsFiniteSet(s)
    BY FS_Subset
  <2>2. /\ SumFunctionOnSet(f, s \cup {x}) = SumFunctionOnSet(f, s) + f[x]
        /\ SumFunctionOnSet(e, s \cup {x}) = SumFunctionOnSet(e, s) + e[x]
    BY <1>2, <2>1, SumAdd
  <2>3. SumFunctionOnSet(f, s) \in Int /\ SumFunctionOnSet(e, s) \in Int
    BY <2>1, SumTyped
  <2>4. QED
    BY <1>2, <2>2, <2>3
<1>3. S \in T
  <2> HIDE DEF T
  <2>1. QED
    BY <1>1, <1>2, SetOfSubsets
<1>4. QED
  BY <1>3

\* Natural numbers: nothing is larger than the sum of all.
LEMMA SumNatural ==
    ASSUME NEW f, NEW S, IsFiniteSet(S), \A x \in S : f[x] \in Nat
    PROVE  /\ SumFunctionOnSet(f, S) \in Nat
           /\ \A x \in S : f[x] <= SumFunctionOnSet(f, S)
           /\ \A s \in SUBSET S :
                 SumFunctionOnSet(f, s) <= SumFunctionOnSet(f, S)
<1> DEFINE sum(s) == SumFunctionOnSet(f, s)
           T == {s \in SUBSET S : sum(s) \in Nat}
<1>1. {} \in T
  BY SumOfNone
<1>2. ASSUME NEW s \in SUBSET S, NEW x \in S, s \in T, x \notin s
      PROVE  s \cup {x} \in T
  <2>1. IsFiniteSet(s)
    BY FS_Subset
  <2>2. sum(s \cup {x}) = sum(s) + f[x]
    BY <1>2, <2>1, SumAdd
  <2>3. QED
    BY <1>2, <2>2
<1>3. SUBSET S \subseteq T
  <2> HIDE DEF T
  <2>1. QED
    BY <1>1, <1>2, SetOfSubsets
<1>4. ASSUME NEW s \in SUBSET S PROVE sum(s) <= sum(S)
  <2>1. IsFiniteSet(s) /\ IsFiniteSet(S \ s)
    BY FS_Subset
  <2>2. s \cup (S \ s) = S /\ s \cap (S \ s) = {}
    OBVIOUS
  <2>3. sum(s \cup (S \ s)) = sum(s) + sum(S \ s)
    BY <2>1, <2>2, SumDisjoint
  <2>4. sum(s) \in Nat /\ sum(S \ s) \in Nat
    BY <1>3
  <2>5. sum(S) = sum(s) + sum(S \ s)
    BY <2>2, <2>3
  <2> HIDE DEF sum
  <2>6. QED
    BY <2>4, <2>5
<1>5. ASSUME NEW x \in S PROVE f[x] <= sum(S)
  <2>1. sum(S) = f[x] + sum(S \ {x})
    BY SumTyped
  <2>2. sum(S \ {x}) \in Nat /\ f[x] \in Nat
    BY <1>3
  <2>3. QED
    BY <2>1, <2>2
<1>6. QED
  BY <1>3, <1>4, <1>5

\* What k puts into M.
Fibers(E, k, M) == {i \in E : k[i] \in M}

Fiber(E, k, n) == {i \in E : k[i] = n}

\* Sums over the fibers of k add up to one sum.
LEMMA SumOfFibers ==
    ASSUME NEW f, NEW E, IsFiniteSet(E), \A i \in E : f[i] \in Int,
           NEW M, IsFiniteSet(M), NEW k, NEW w,
           \A n \in M : w[n] = SumFunctionOnSet(f, Fiber(E, k, n))
    PROVE  SumFunctionOnSet(w, M) = SumFunctionOnSet(f, Fibers(E, k, M))
<1> DEFINE sum(s) == SumFunctionOnSet(f, s)
           In(s) == Fibers(E, k, s)
           T == {s \in SUBSET M : SumFunctionOnSet(w, s) = sum(In(s))}
<1>1. \A s : IsFiniteSet(In(s)) /\ sum(In(s)) \in Int
  BY FS_Subset, SumTyped DEF Fibers
<1>2. \A n \in M : w[n] = sum(In({n})) /\ w[n] \in Int
  <2>1. TAKE n \in M
  <2>2. In({n}) = Fiber(E, k, n)
    BY DEF Fibers, Fiber
  <2>3. w[n] = sum(In({n}))
    BY <2>2
  <2> HIDE DEF sum, In
  <2>4. QED
    BY <1>1, <2>3
<1>3. {} \in T
  <2>1. In({}) = {}
    BY DEF Fibers
  <2>2. SumFunctionOnSet(w, {}) = sum(In({}))
    BY <2>1, SumOfNone
  <2>3. QED
    BY <2>2
<1>4. ASSUME NEW s \in SUBSET M, NEW n \in M, s \in T, n \notin s
      PROVE  s \cup {n} \in T
  <2>1. IsFiniteSet(s)
    BY FS_Subset
  <2>2. SumFunctionOnSet(w, s \cup {n}) = SumFunctionOnSet(w, s) + w[n]
    <3>1. \A m \in s \cup {n} : w[m] \in Int
      BY <1>2
    <3>2. QED
      BY <1>4, <2>1, <3>1, SumAdd
  <2>3. In(s \cup {n}) = In(s) \cup In({n}) /\ In(s) \cap In({n}) = {}
    BY <1>4 DEF Fibers
  <2>4. sum(In(s) \cup In({n})) = sum(In(s)) + sum(In({n}))
    <3>1. \A i \in In(s) \cup In({n}) : f[i] \in Int
      BY DEF Fibers
    <3> HIDE DEF In
    <3>2. QED
      BY <1>1, <2>3, <3>1, SumDisjoint
  <2>5. SumFunctionOnSet(w, s \cup {n}) = sum(In(s \cup {n}))
    <3>1. SumFunctionOnSet(w, s) = sum(In(s)) /\ w[n] = sum(In({n}))
      BY <1>2, <1>4
    <3> HIDE DEF In, sum
    <3>2. QED
      BY <2>2, <2>3, <2>4, <3>1
  <2>6. QED
    BY <2>5
<1>5. M \in T
  <2> HIDE DEF T
  <2>1. QED
    BY <1>3, <1>4, SetOfSubsets
<1>6. QED
  BY <1>5

\* A cardinality is a sum, and those of fibers add up to one.
LEMMA CardinalityIsSum ==
    ASSUME NEW f, NEW S, IsFiniteSet(S), \A x \in S : f[x] = 1
    PROVE  Cardinality(S) = SumFunctionOnSet(f, S)
<1> DEFINE T == {s \in SUBSET S : Cardinality(s) = SumFunctionOnSet(f, s)}
<1>1. {} \in T
  BY SumOfNone, FS_EmptySet
<1>2. ASSUME NEW s \in SUBSET S, NEW x \in S, s \in T, x \notin s
      PROVE  s \cup {x} \in T
  <2>1. IsFiniteSet(s)
    BY FS_Subset
  <2>2. SumFunctionOnSet(f, s \cup {x}) = SumFunctionOnSet(f, s) + 1
    BY <1>2, <2>1, SumAdd
  <2>3. Cardinality(s \cup {x}) = Cardinality(s) + 1
    BY <1>2, <2>1, FS_AddElement
  <2>4. QED
    BY <1>2, <2>2, <2>3
<1>3. S \in T
  <2> HIDE DEF T
  <2>1. QED
    BY <1>1, <1>2, SetOfSubsets
<1>4. QED
  BY <1>3

\* The same for how many there are.
LEMMA CountOfFibers ==
    ASSUME NEW E, IsFiniteSet(E), NEW M, IsFiniteSet(M), NEW k, NEW w,
           \A n \in M : w[n] = Cardinality(Fiber(E, k, n))
    PROVE  SumFunctionOnSet(w, M) = Cardinality(Fibers(E, k, M))
<1> DEFINE f == [i \in E |-> 1]
<1>1. \A i \in E : f[i] = 1 /\ f[i] \in Int
  OBVIOUS
<1> HIDE DEF f
<1>2. \A s \in SUBSET E : Cardinality(s) = SumFunctionOnSet(f, s)
  BY <1>1, FS_Subset, CardinalityIsSum
<1>3. \A n \in M : w[n] = SumFunctionOnSet(f, Fiber(E, k, n))
  BY <1>2 DEF Fiber
<1>4. SumFunctionOnSet(w, M) = SumFunctionOnSet(f, Fibers(E, k, M))
  BY <1>1, <1>3, SumOfFibers
<1>5. QED
  BY <1>2, <1>4 DEF Fibers

-----------------------------------------------------------------------------
(* The time axis.                                                          *)

\* Division by a width: which bar a time is in.
LEMMA Division ==
    ASSUME NEW a \in Nat, NEW w \in Nat \ {0}
    PROVE  /\ a \div w \in Nat
           /\ w * (a \div w) <= a
           /\ a < w * (a \div w) + w
  OBVIOUS

\* A quotient is below every bound its dividend does not reach.
LEMMA QuotientBelow ==
    ASSUME NEW a \in Nat, NEW w \in Nat \ {0}, NEW m \in Nat, a < m * w
    PROVE  a \div w < m
  <1>1. a \div w \in Nat /\ w * (a \div w) <= a
    BY Division
  <1>2. SUFFICES ASSUME a \div w >= m PROVE FALSE
    BY <1>1
  <1>3. w * (a \div w) >= w * m
    BY <1>1, <1>2
  <1> QED BY <1>1, <1>3

\* Quotients grow with their dividends.
LEMMA QuotientGrows ==
    ASSUME NEW b \in Nat, NEW a \in 0..b, NEW w \in Nat \ {0}
    PROVE  a \div w <= b \div w
  <1> DEFINE m == b \div w + 1
  <1>1. m \in Nat /\ b < m * w
    BY Division
  <1>2. a < m * w
    BY <1>1
  <1>3. a \div w < m
    BY <1>1, <1>2, QuotientBelow
  <1> QED BY <1>3, Division
-----------------------------------------------------------------------------
\* A ladder with a rung that fits has a first one: the width is there.
LEMMA FirstRung ==
    ASSUME NEW span \in Nat, NEW i \in DOMAIN Ladder, Fits(span, Ladder[i])
    PROVE  \E k \in DOMAIN Ladder :
              /\ Fits(span, Ladder[k])
              /\ \A j \in 1..(k - 1) : ~Fits(span, Ladder[j])
  <1> DEFINE T == {k \in DOMAIN Ladder : Fits(span, Ladder[k])}
  <1>1. DOMAIN Ladder \subseteq Nat /\ DOMAIN Ladder = 1..Len(Ladder)
        /\ Len(Ladder) \in Nat
    BY ChartAssumption
  <1>2. T \subseteq Nat /\ T # {}
    BY <1>1
  <1> HIDE DEF T
  <1>3. PICK k \in T : \A y \in T : ~(<<y, k>> \in OpToRel(<, Nat))
    BY <1>2, NatLessThanWellFounded, WFMin
  <1>4. ASSUME NEW j \in 1..(k - 1) PROVE j \notin T
    <2>1. j \in Nat /\ k \in Nat /\ j < k
      BY <1>1, <1>2
    <2> QED BY <1>3, <2>1 DEF OpToRel
  <1>5. \A j \in 1..(k - 1) : j \in DOMAIN Ladder
    BY <1>1 DEF T
  <1> QED BY <1>3, <1>4, <1>5 DEF T

\* Whatever the span, a width is chosen, and it is the one the code finds.
LEMMA PickedIsWidth ==
    ASSUME NEW span \in Nat
    PROVE  IsWidth(span, PickWidth(span))
  <1> DEFINE rungs == {Ladder[i] : i \in DOMAIN Ladder} \cup {SeveralDays(span)}
  <1>1. \E width \in rungs : IsWidth(span, width)
    <2>1. CASE \E i \in DOMAIN Ladder : Fits(span, Ladder[i])
      BY <2>1, FirstRung DEF IsWidth
    <2>2. CASE \A i \in DOMAIN Ladder : ~Fits(span, Ladder[i])
      BY <2>2 DEF IsWidth
    <2> QED BY <2>1, <2>2
  <1> QED BY <1>1 DEF PickWidth

\* The day is a rung.
LEMMA DayType == Day \in Nat \ {0} /\ \A i \in DOMAIN Ladder : Ladder[i] \in Nat \ {0}
  BY ChartAssumption DEF Day

\* With several days for each bar there are no more bars than fit.
LEMMA SeveralDaysFit ==
    ASSUME NEW span \in Nat
    PROVE  /\ SeveralDays(span) \in Nat \ {0}
           /\ Fits(span, SeveralDays(span))
  <1> DEFINE days == span \div Day
             each == days \div MaxBars + 1
  <1>1. Day \in Nat \ {0} /\ MaxBars \in Nat \ {0}
    BY DayType, ChartAssumption
  <1>2. days \in Nat /\ span < Day * days + Day
    BY <1>1, Division
  <1> HIDE DEF days
  <1>3. each \in Nat \ {0} /\ days < MaxBars * each
    BY <1>1, <1>2, Division
  <1>4. SeveralDays(span) = each * Day
    BY DEF SeveralDays, days
  <1> HIDE DEF each
  <1>5. each * Day \in Nat \ {0}
    BY <1>1, <1>3
  <1>6. Day * (days + 1) <= Day * (MaxBars * each)
    BY <1>1, <1>2, <1>3
  <1>7. Day * (days + 1) = Day * days + Day
    BY <1>1, <1>2
  <1>8. Day * (MaxBars * each) = MaxBars * (each * Day)
    BY <1>1, <1>3
  <1>9. span < MaxBars * (each * Day)
    BY <1>1, <1>2, <1>5, <1>6, <1>7, <1>8
  <1>10. span \div (each * Day) < MaxBars
    BY <1>1, <1>5, <1>9, QuotientBelow
  <1> QED BY <1>4, <1>5, <1>10 DEF Fits

\* The chart of any span has at least one bar and no more than fit.
THEOREM BarsFit ==
    ASSUME NEW span \in Nat
    PROVE  /\ PickWidth(span) \in Nat \ {0}
           /\ NumBars(span, PickWidth(span)) \in 1..MaxBars
  <1> DEFINE width == PickWidth(span)
  <1>1. IsWidth(span, width)
    BY PickedIsWidth
  <1> HIDE DEF width
  <1>2. width \in Nat \ {0} /\ Fits(span, width)
    BY <1>1, DayType, SeveralDaysFit DEF IsWidth
  <1>3. span \div width \in Nat /\ MaxBars \in Nat
    BY <1>2, Division, ChartAssumption
  <1>4. NumBars(span, width) \in 1..MaxBars
    BY <1>2, <1>3 DEF Fits, NumBars
  <1> QED BY <1>2, <1>4 DEF width

\* A request between the first and the last one falls into the bar that has
\* its time: the clamp of the index never moves it to another.
THEOREM BarOfItsTime ==
    ASSUME NEW span \in Nat, NEW since \in 0..span
    PROVE  LET width == PickWidth(span)
               bar == BarOf(since, span, width)
           IN  /\ bar \in 0..(NumBars(span, width) - 1)
               /\ bar * width <= since /\ since < (bar + 1) * width
  <1> DEFINE width == PickWidth(span)
             index == since \div width
  <1>1. width \in Nat \ {0} /\ NumBars(span, width) \in Nat
    BY BarsFit
  <1> HIDE DEF width
  <1>2. index \in Nat /\ index * width <= since /\ since < (index + 1) * width
    BY <1>1, Division
  <1>3. index <= span \div width
    BY <1>1, QuotientGrows
  <1>4. index \in 0..(NumBars(span, width) - 1)
    BY <1>1, <1>2, <1>3 DEF NumBars
  <1>5. BarOf(since, span, width) = index
    BY <1>1, <1>4 DEF BarOf, Clamped
  <1> QED BY <1>2, <1>4, <1>5 DEF width

-----------------------------------------------------------------------------
(* The history.                                                            *)

Entries == [kind : Kinds, started : Nat]

\* No request started later than now.
HistoryInv ==
    /\ now \in Nat
    /\ history \in Seq(Entries)
    /\ \A i \in DOMAIN history : history[i].started <= now

LEMMA HistoryInvariant == Spec => []HistoryInv
<1>1. Init => HistoryInv
  BY DEF Init, HistoryInv
<1>2. HistoryInv /\ [Next]_vars => HistoryInv'
  <2> SUFFICES ASSUME HistoryInv, [Next]_vars PROVE HistoryInv'
    OBVIOUS
  <2>1. CASE Tick
    <3>1. PICK t \in Times : t > now /\ now' = t /\ UNCHANGED history
      BY <2>1 DEF Tick
    <3>2. t \in Nat
      BY StatsAssumption
    <3>3. \A i \in DOMAIN history : history[i].started \in Nat
      <4>1. \A i \in DOMAIN history : history[i] \in Entries
        BY LenProperties DEF HistoryInv
      <4>2. QED
        BY <4>1 DEF Entries
    <3>4. QED
      BY <3>1, <3>2, <3>3 DEF HistoryInv
  <2>2. ASSUME NEW kind \in Kinds, NEW t \in Times, Count(kind, t)
        PROVE  HistoryInv'
    <3> DEFINE entry == [kind |-> kind, started |-> t]
    <3>1. /\ t <= now /\ UNCHANGED now /\ history' = Append(history, entry)
      BY <2>2 DEF Count
    <3>2. entry \in Entries /\ entry.started = t
      BY StatsAssumption DEF Entries
    <3> HIDE DEF entry
    <3>3. /\ history' \in Seq(Entries) /\ Len(history') = Len(history) + 1
          /\ \A i \in 1 .. Len(history) : history'[i] = history[i]
          /\ history'[Len(history) + 1] = entry
      BY <3>1, <3>2, AppendProperties DEF HistoryInv
    <3>4. /\ DOMAIN history' = 1 .. Len(history) + 1
          /\ DOMAIN history = 1 .. Len(history) /\ Len(history) \in Nat
      BY <3>3, LenProperties DEF HistoryInv
    <3>5. \A i \in DOMAIN history' :
             i \in DOMAIN history \/ i = Len(history) + 1
      BY <3>4
    <3>6. \A i \in DOMAIN history' : history'[i].started <= now
      BY <3>1, <3>2, <3>3, <3>4, <3>5 DEF HistoryInv
    <3>7. QED
      BY <3>1, <3>3, <3>6 DEF HistoryInv
  <2>3. ASSUME UNCHANGED <<now, history>> PROVE HistoryInv'
    BY <2>3 DEF HistoryInv
  <2>4. QED
    BY <2>1, <2>2, <2>3 DEF Next, IssueKey, RevokeKey, ListUsers, CopyHistory,
                           ListKeys, CountUser, SortUsers, Answered, vars
<1>3. QED
  BY <1>1, <1>2, PTL DEF Spec

\* What is known of the entries of a page.
LEMMA EntriesTyped ==
    ASSUME HistoryInv, NEW E \in SUBSET DOMAIN history
    PROVE  /\ IsFiniteSet(E) /\ Cardinality(E) \in Nat
           /\ \A i \in E : /\ Kind(i) \in Kinds
                           /\ history[i].started \in 0 .. now
                           /\ Cost(Kind(i)) \in Nat /\ Tokens(Kind(i)) \in Nat
<1>1. DOMAIN history = 1 .. Len(history) /\ Len(history) \in Nat
  BY LenProperties DEF HistoryInv
<1>2. IsFiniteSet(DOMAIN history)
  BY <1>1, FS_Interval
<1>3. IsFiniteSet(E) /\ Cardinality(E) \in Nat
  BY <1>2, FS_Subset, FS_CardinalityType
<1>4. ASSUME NEW i \in E
      PROVE  /\ Kind(i) \in Kinds
             /\ history[i].started \in 0 .. now
             /\ Cost(Kind(i)) \in Nat /\ Tokens(Kind(i)) \in Nat
  <2>1. history[i] \in Entries
    BY <1>1 DEF HistoryInv
  <2>2. Kind(i) \in Kinds /\ history[i].started \in Nat
    BY <2>1 DEF Entries, Kind
  <2> DEFINE kind == Kind(i)
  <2>3. /\ kind.input \in Nat /\ kind.output \in Nat /\ kind.cached \in Nat
        /\ Rate[kind.model] \in Nat
    BY <2>2, StatsAssumption
  <2>4. \A a, b, c, d \in Nat : a * (b + c + d) \in Nat
    OBVIOUS
  <2>5. Cost(kind) \in Nat /\ Tokens(kind) \in Nat
    BY <2>3, <2>4 DEF Cost, Tokens
  <2>6. history[i].started \in 0 .. now
    BY <2>2 DEF HistoryInv
  <2>7. QED
    BY <2>2, <2>5, <2>6
<1>5. QED
  BY <1>3, <1>4

\* The image of a finite set is finite.
LEMMA ImageFinite ==
    ASSUME NEW E, IsFiniteSet(E), NEW k
    PROVE  IsFiniteSet({k[i] : i \in E})
<1> DEFINE S == {k[i] : i \in E}
           f == [i \in E |-> k[i]]
<1>1. f \in Surjection(E, S)
  BY DEF Surjection
<1>2. QED
  BY <1>1, FS_Surjection

Costs == [i \in DOMAIN history |-> Cost(Kind(i))]

AllTokens == [i \in DOMAIN history |-> Tokens(Kind(i))]

\* The totals are sums of one function of the history.
LEMMA TotalIsSum ==
    ASSUME HistoryInv, NEW E \in SUBSET DOMAIN history
    PROVE  /\ Total(E, Cost) = SumFunctionOnSet(Costs, E)
           /\ Total(E, Tokens) = SumFunctionOnSet(AllTokens, E)
           /\ Total(E, Cost) \in Nat /\ Total(E, Tokens) \in Nat
           /\ \A i \in E : Costs[i] \in Nat /\ AllTokens[i] \in Nat
<1>1. /\ IsFiniteSet(E)
      /\ \A i \in E : Cost(Kind(i)) \in Nat /\ Tokens(Kind(i)) \in Nat
  BY EntriesTyped
<1>2. \A i \in E : Costs[i] = Cost(Kind(i)) /\ AllTokens[i] = Tokens(Kind(i))
  BY DEF Costs, AllTokens
<1>3. Total(E, Cost) = SumFunctionOnSet(Costs, E)
  <2> DEFINE f == [i \in E |-> Cost(Kind(i))]
  <2>1. Total(E, Cost) = SumFunctionOnSet(f, E)
    BY DEF Total, SumFunction
  <2>2. \A i \in E : Costs[i] \in Int /\ f[i] = Costs[i]
    BY <1>1, <1>2
  <2> HIDE DEF f
  <2>3. QED
    BY <1>1, <2>1, <2>2, SumSame
<1>4. Total(E, Tokens) = SumFunctionOnSet(AllTokens, E)
  <2> DEFINE f == [i \in E |-> Tokens(Kind(i))]
  <2>1. Total(E, Tokens) = SumFunctionOnSet(f, E)
    BY DEF Total, SumFunction
  <2>2. \A i \in E : AllTokens[i] \in Int /\ f[i] = AllTokens[i]
    BY <1>1, <1>2
  <2> HIDE DEF f
  <2>3. QED
    BY <1>1, <2>1, <2>2, SumSame
<1>5. \A i \in E : Costs[i] \in Nat /\ AllTokens[i] \in Nat
  BY <1>1, <1>2
<1>6. QED
  BY <1>1, <1>3, <1>4, <1>5, SumNatural

\* A table with a row for each n in M, of the requests k puts there, counts
\* each of the requests that have a row once.
LEMMA RowsAddUp ==
    ASSUME HistoryInv, NEW E \in SUBSET DOMAIN history,
           NEW M, IsFiniteSet(M), NEW k, NEW w
    PROVE  /\ (\A n \in M : w[n] = Cardinality(Fiber(E, k, n)))
                 => SumFunctionOnSet(w, M) = Cardinality(Fibers(E, k, M))
           /\ (\A n \in M : w[n] = Errors(Fiber(E, k, n)))
                 => SumFunctionOnSet(w, M) = Errors(Fibers(E, k, M))
           /\ (\A n \in M : w[n] = Total(Fiber(E, k, n), Cost))
                 => SumFunctionOnSet(w, M) = Total(Fibers(E, k, M), Cost)
           /\ (\A n \in M : w[n] = Total(Fiber(E, k, n), Tokens))
                 => SumFunctionOnSet(w, M) = Total(Fibers(E, k, M), Tokens)
<1> DEFINE G(n) == Fiber(E, k, n)
           In == Fibers(E, k, M)
<1>1. IsFiniteSet(E)
  BY EntriesTyped
<1>2. ASSUME \A n \in M : w[n] = Cardinality(G(n))
      PROVE  SumFunctionOnSet(w, M) = Cardinality(In)
  BY <1>1, <1>2, CountOfFibers
<1>3. (\A n \in M : w[n] = Errors(G(n)))
         => SumFunctionOnSet(w, M) = Errors(In)
  <2> DEFINE F == {i \in E : IsError(Kind(i))}
  <2>1. IsFiniteSet(F)
    BY <1>1, FS_Subset
  <2>2. \A n : {i \in G(n) : IsError(Kind(i))} = Fiber(F, k, n)
    BY DEF Fiber
  <2>3. {i \in In : IsError(Kind(i))} = Fibers(F, k, M)
    BY DEF Fibers
  <2>4. \A n : Errors(G(n)) = Cardinality(Fiber(F, k, n))
    BY <2>2 DEF Errors
  <2>5. Errors(In) = Cardinality(Fibers(F, k, M))
    BY <2>3 DEF Errors
  <2> HIDE DEF F
  <2>6. QED
    BY <2>1, <2>4, <2>5, CountOfFibers
<1>4. \A i \in E : Costs[i] \in Int /\ AllTokens[i] \in Int
  BY TotalIsSum
<1>5. \A S \in SUBSET E : /\ Total(S, Cost) = SumFunctionOnSet(Costs, S)
                          /\ Total(S, Tokens) = SumFunctionOnSet(AllTokens, S)
  BY TotalIsSum
<1>6. In \in SUBSET E /\ \A n : G(n) \in SUBSET E
  BY DEF Fiber, Fibers
<1>7. (\A n \in M : w[n] = Total(G(n), Cost))
         => SumFunctionOnSet(w, M) = Total(In, Cost)
  <2>1. ASSUME \A n \in M : w[n] = SumFunctionOnSet(Costs, G(n))
        PROVE  SumFunctionOnSet(w, M) = SumFunctionOnSet(Costs, In)
    BY <1>1, <1>4, <2>1, SumOfFibers
  <2>2. QED
    BY <1>5, <1>6, <2>1
<1>8. (\A n \in M : w[n] = Total(G(n), Tokens))
         => SumFunctionOnSet(w, M) = Total(In, Tokens)
  <2>1. ASSUME \A n \in M : w[n] = SumFunctionOnSet(AllTokens, G(n))
        PROVE  SumFunctionOnSet(w, M) = SumFunctionOnSet(AllTokens, In)
    BY <1>1, <1>4, <2>1, SumOfFibers
  <2>2. QED
    BY <1>5, <1>6, <2>1
<1>9. QED
  BY <1>2, <1>3, <1>7, <1>8

-----------------------------------------------------------------------------
(* The breakdowns.                                                         *)

\* The bars of a breakdown, with the row for the others, count every request
\* once, if nothing is called like that row.
LEMMA BreakdownAddsUp ==
    ASSUME HistoryInv, NEW E \in SUBSET DOMAIN history,
           NEW field, Other \notin Names(E, field),
           NEW bars \in Breakdowns(E, field)
    PROVE  SumFunction(bars.shown) + bars.others = Cardinality(E)
<1> DEFINE N == Names(E, field)
           counts == Counts(E, field)
           k == [i \in E |-> Kind(i)[field]]
<1>1. IsFiniteSet(E)
  BY EntriesTyped
<1>2. PICK K \in SUBSET N : bars = Bars(counts, K)
  BY DEF Breakdowns, Top, Counts
<1>3. IsFiniteSet(N)
  <2>1. {k[i] : i \in E} = N
    BY DEF Names
  <2> HIDE DEF N, k
  <2>2. QED
    BY <1>1, <2>1, ImageFinite
<1>4. \A n \in N : /\ counts[n] = Cardinality(Fiber(E, k, n))
                   /\ counts[n] \in Int
  <2>1. TAKE n \in N
  <2>2. Group(E, field, n) = Fiber(E, k, n)
    BY DEF Group, Fiber
  <2>3. counts[n] = Cardinality(Group(E, field, n))
    BY DEF Counts
  <2>4. Cardinality(Fiber(E, k, n)) \in Nat
    BY <1>1, FS_Subset, FS_CardinalityType DEF Fiber
  <2>5. QED
    BY <2>2, <2>3, <2>4
<1>5. SumFunctionOnSet(counts, N) = Cardinality(E)
  <2>1. Fibers(E, k, N) = E
    BY DEF Names, Fibers
  <2> HIDE DEF N, k, counts
  <2>2. QED
    BY <1>1, <1>3, <1>4, <2>1, CountOfFibers
<1>6. DOMAIN counts = N
  BY DEF Counts
<1>7. bars.others = SumFunctionOnSet(counts, N \ K)
  BY <1>2, <1>6 DEF Bars
<1>8. SumFunction(bars.shown) = SumFunctionOnSet(counts, K)
  <2> DEFINE shown == bars.shown
  <2>1. /\ DOMAIN shown = K
        /\ \A n \in K : shown[n] = counts[n]
    BY <1>2 DEF Bars
  <2>2. SumFunction(shown) = SumFunctionOnSet(shown, K)
    BY <2>1 DEF SumFunction
  <2> HIDE DEF shown, counts, N
  <2>3. IsFiniteSet(K)
    BY <1>3, FS_Subset
  <2>4. \A n \in K : counts[n] \in Int
    BY <1>4
  <2>5. SumFunctionOnSet(shown, K) = SumFunctionOnSet(counts, K)
    BY <2>1, <2>3, <2>4, SumSame
  <2>6. QED
    BY <2>2, <2>5 DEF shown
<1>9. SumFunctionOnSet(counts, N)
        = SumFunctionOnSet(counts, K) + SumFunctionOnSet(counts, N \ K)
  <2> HIDE DEF counts, N
  <2>1. IsFiniteSet(K) /\ IsFiniteSet(N \ K)
    BY <1>3, FS_Subset
  <2>2. K \cup (N \ K) = N /\ K \cap (N \ K) = {} /\ \A n \in N : counts[n] \in Int
    BY <1>4
  <2>3. QED
    BY <2>1, <2>2, SumDisjoint
<1>10. QED
  BY <1>5, <1>7, <1>8, <1>9

\* A field of the requests, and the names there are for it.
FieldOf(E, field) == [i \in E |-> Kind(i)[field]]

LEMMA NamesFinite ==
    ASSUME HistoryInv, NEW E \in SUBSET DOMAIN history, NEW field
    PROVE  /\ IsFiniteSet(Names(E, field))
           /\ Fibers(E, FieldOf(E, field), Names(E, field)) = E
           /\ \A n : Group(E, field, n) = Fiber(E, FieldOf(E, field), n)
<1> DEFINE k == FieldOf(E, field)
<1>1. {k[i] : i \in E} = Names(E, field)
  BY DEF Names, FieldOf
<1>2. IsFiniteSet({k[i] : i \in E})
  <2> HIDE DEF k
  <2>1. QED
    BY EntriesTyped, ImageFinite
<1>3. Fibers(E, k, Names(E, field)) = E
  BY DEF Names, FieldOf, Fibers
<1>4. \A n : Group(E, field, n) = Fiber(E, k, n)
  BY DEF Group, FieldOf, Fiber
<1>5. QED
  BY <1>1, <1>2, <1>3, <1>4

\* A column of a table is summed over the rows.
LEMMA ColumnIsSum ==
    ASSUME NEW rows, NEW field
    PROVE  LET w == [x \in DOMAIN rows |-> rows[x][field]]
           IN  /\ SumOf(rows, field) = SumFunctionOnSet(w, DOMAIN rows)
               /\ \A x \in DOMAIN rows : w[x] = rows[x][field]
  BY DEF SumOf, SumFunction

LEMMA UpstreamsAddUp ==
    ASSUME HistoryInv, NEW E \in SUBSET DOMAIN history
    PROVE  /\ SumOf(UpstreamRows(E), "requests") = Cardinality(E)
           /\ SumOf(UpstreamRows(E), "errors") = Errors(E)
           /\ SumOf(UpstreamRows(E), "cost") = Total(E, Cost)
<1> DEFINE N == Names(E, "upstream")
           k == FieldOf(E, "upstream")
           rows == UpstreamRows(E)
           column(field) == [x \in DOMAIN rows |-> rows[x][field]]
<1>1. DOMAIN rows = N
  BY DEF UpstreamRows
<1>2. \A n \in N : /\ rows[n].requests = Cardinality(Fiber(E, k, n))
                   /\ rows[n].errors = Errors(Fiber(E, k, n))
                   /\ rows[n].cost = Total(Fiber(E, k, n), Cost)
  <2>1. TAKE n \in N
  <2>2. rows[n] = [requests |-> Cardinality(Group(E, "upstream", n)),
                   errors |-> Errors(Group(E, "upstream", n)),
                   cost |-> Total(Group(E, "upstream", n), Cost)]
    BY DEF UpstreamRows
  <2> HIDE DEF rows, k
  <2>3. Group(E, "upstream", n) = Fiber(E, k, n)
    BY NamesFinite DEF k
  <2>4. QED
    BY <2>2, <2>3
<1>3. IsFiniteSet(N) /\ Fibers(E, k, N) = E
  BY NamesFinite
<1> HIDE DEF rows, k, N
<1>4. /\ SumOf(rows, "requests") = SumFunctionOnSet(column("requests"), N)
      /\ \A n \in N : column("requests")[n] = Cardinality(Fiber(E, k, n))
  BY <1>1, <1>2, ColumnIsSum
<1>5. /\ SumOf(rows, "errors") = SumFunctionOnSet(column("errors"), N)
      /\ \A n \in N : column("errors")[n] = Errors(Fiber(E, k, n))
  BY <1>1, <1>2, ColumnIsSum
<1>6. /\ SumOf(rows, "cost") = SumFunctionOnSet(column("cost"), N)
      /\ \A n \in N : column("cost")[n] = Total(Fiber(E, k, n), Cost)
  BY <1>1, <1>2, ColumnIsSum
<1> HIDE DEF column
<1>7. SumOf(rows, "requests") = Cardinality(E)
  BY <1>3, <1>4, RowsAddUp
<1>8. SumOf(rows, "errors") = Errors(E)
  BY <1>3, <1>5, RowsAddUp
<1>9. SumOf(rows, "cost") = Total(E, Cost)
  BY <1>3, <1>6, RowsAddUp
<1>10. QED
  BY <1>7, <1>8, <1>9 DEF rows

-----------------------------------------------------------------------------
(* The table of days.                                                      *)

LEMMA MinOfNaturals ==
    ASSUME NEW S \in SUBSET Nat, S # {}
    PROVE  Min(S) \in S /\ \A y \in S : Min(S) <= y
<1>1. \E x \in S : \A y \in S : x <= y
  <2>1. PICK x \in S : \A y \in S : ~(<<y, x>> \in OpToRel(<, Nat))
    BY NatLessThanWellFounded, WFMin
  <2>2. \A y \in S : ~(y < x)
    BY <2>1 DEF OpToRel
  <2>3. QED
    BY <2>2
<1>2. QED
  BY <1>1 DEF Min

LEMMA MaxOfNaturals ==
    ASSUME NEW b \in Nat, NEW S \in SUBSET (0 .. b), S # {}
    PROVE  Max(S) \in S /\ \A y \in S : y <= Max(S)
<1> DEFINE R == {n \in Nat : b - n \in S}
<1>1. PICK z \in S : TRUE
  OBVIOUS
<1>2. b - z \in Nat /\ b - (b - z) = z
  OBVIOUS
<1>3. R # {} /\ R \in SUBSET Nat
  BY <1>1, <1>2
<1>4. PICK n \in R : \A m \in R : n <= m
  <2> HIDE DEF R
  <2>1. QED
    BY <1>3, MinOfNaturals
<1>5. b - n \in S
  OBVIOUS
<1>6. ASSUME NEW y \in S PROVE b - n >= y
  <2>1. b - y \in Nat /\ b - (b - y) = y
    OBVIOUS
  <2>2. n <= b - y /\ n \in Nat
    BY <1>4, <2>1
  <2>3. QED
    BY <2>1, <2>2
<1>7. \E x \in S : \A y \in S : x >= y
  BY <1>5, <1>6
<1>8. QED
  BY <1>7 DEF Max

\* The latest m of some numbers: all of them, or m.
LEMMA Latest ==
    ASSUME NEW b \in Nat, NEW D \in SUBSET (0 .. b), D # {}, NEW m \in Nat \ {0}
    PROVE  LET late == {d \in D : Cardinality({e \in D : e > d}) < m}
           IN  /\ late # {}
               /\ \A d \in D : d >= Min(late) <=> d \in late
               /\ late = D \/ Cardinality(late) = m
<1> DEFINE above(d) == {e \in D : e > d}
           late == {d \in D : Cardinality(above(d)) < m}
<1>1. /\ IsFiniteSet(D) /\ \A d \in D : d \in Nat
      /\ \A d : IsFiniteSet(above(d)) /\ Cardinality(above(d)) \in Nat
  <2>1. IsFiniteSet(D)
    <3>1. IsFiniteSet(0 .. b)
      BY FS_Interval
    <3>2. QED
      BY <3>1, FS_Subset
  <2>2. QED
    BY <2>1, FS_Subset, FS_CardinalityType
<1>2. ASSUME NEW d \in late, NEW e \in D, e >= d PROVE e \in late
  <2>0. d \in D /\ d \in Nat /\ e \in Nat
    BY <1>1
  <2>1. above(e) \subseteq above(d)
    <3>1. \A x \in D : x > e => x > d
      BY <1>1, <1>2, <2>0
    <3>2. QED
      BY <3>1
  <2>2. Cardinality(above(e)) <= Cardinality(above(d))
    BY <1>1, <2>1, FS_Subset
  <2>3. Cardinality(above(d)) < m
    OBVIOUS
  <2> HIDE DEF above
  <2>4. Cardinality(above(e)) < m
    BY <1>1, <2>2, <2>3
  <2>5. QED
    BY <2>4
<1>3. late # {}
  <2>1. PICK z \in D : \A y \in D : y <= z
    BY MaxOfNaturals
  <2>2. above(z) = {}
    <3>1. ASSUME NEW y \in D PROVE ~(y > z)
      <4>1. y \in Nat /\ z \in Nat /\ y <= z
        BY <2>1
      <4>2. QED
        BY <4>1
    <3>2. QED
      BY <3>1
  <2>3. Cardinality(above(z)) < m
    <3>1. Cardinality({}) = 0 /\ 0 < m
      BY FS_EmptySet
    <3>2. QED
      BY <2>2, <3>1
  <2>4. QED
    BY <2>3
<1>4. late \in SUBSET Nat
  BY <1>1
<1> DEFINE a == Min(late)
<1>5. a \in late /\ \A y \in late : a <= y
  <2> HIDE DEF late
  <2>1. QED
    BY <1>3, <1>4, MinOfNaturals
<1>6. \A d \in D : d >= a <=> d \in late
  <2> HIDE DEF late, a
  <2>1. QED
    BY <1>1, <1>2, <1>4, <1>5
<1>7. ASSUME late # D PROVE Cardinality(late) = m
  <2> DEFINE rest == D \ late
             e == Max(rest)
  <2>1. rest \in SUBSET (0 .. b) /\ rest # {}
    BY <1>7
  <2>2. e \in rest /\ \A y \in rest : y <= e
    <3> HIDE DEF rest
    <3>1. QED
      BY <2>1, MaxOfNaturals
  <2>3. e \in D /\ e \notin late /\ \A y \in D : y \in late \/ y <= e
    BY <2>2
  <2> HIDE DEF rest, e
  <2>4. above(e) = late
    <3>1. ASSUME NEW x \in above(e) PROVE x \in late
      BY <1>1, <2>3
    <3>2. ASSUME NEW x \in late PROVE x \in above(e)
      <4>1. x \in D /\ ~(e >= x)
        BY <1>2, <2>3
      <4>2. QED
        BY <1>1, <2>3, <4>1
    <3>3. QED
      BY <3>1, <3>2
  <2>5. Cardinality(late) >= m /\ Cardinality(late) \in Nat
    <3>1. ~(Cardinality(above(e)) < m)
      BY <2>3
    <3> HIDE DEF late, above
    <3>2. Cardinality(above(e)) \in Nat
      BY <1>1
    <3>3. QED
      BY <2>4, <3>1, <3>2
  <2>6. late = above(a) \cup {a} /\ a \notin above(a)
    <3>0. a \in D /\ a \in Nat /\ late \subseteq D
      BY <1>4, <1>5
    <3>1. ASSUME NEW x \in late PROVE x \in above(a) \cup {a}
      <4>1. x \in D /\ x \in Nat /\ a <= x
        BY <1>1, <1>5
      <4> HIDE DEF a, late
      <4>2. x = a \/ x > a
        BY <3>0, <4>1
      <4>3. QED
        BY <4>1, <4>2
    <3>2. ASSUME NEW x \in above(a) \cup {a} PROVE x \in late
      <4>1. x = a \/ (x \in D /\ x > a)
        OBVIOUS
      <4> HIDE DEF a, late
      <4>2. x = a \/ (x \in D /\ x >= a)
        BY <1>1, <3>0, <4>1
      <4>3. QED
        BY <1>5, <1>6, <4>2
    <3>3. a \notin above(a)
      <4> HIDE DEF a
      <4>1. QED
        BY <3>0
    <3>4. QED
      BY <3>1, <3>2, <3>3
  <2>7. Cardinality(late) = Cardinality(above(a)) + 1
    <3> HIDE DEF late, above, a
    <3>1. QED
      BY <1>1, <2>6, FS_AddElement
  <2>8. Cardinality(above(a)) < m /\ Cardinality(above(a)) \in Nat
    <3>1. a \in late
      BY <1>5
    <3> HIDE DEF a
    <3>2. QED
      BY <1>1, <3>1
  <2> HIDE DEF late, above, a
  <2>9. QED
    BY <2>5, <2>7, <2>8
<1>8. QED
  BY <1>3, <1>6, <1>7

\* The day of a request.
Days(E) == [i \in E |-> DayOf(i)]

\* The table of days counts every request of the days it shows, and it shows
\* all days or as many as it may, the latest ones.
LEMMA DaysAddUp ==
    ASSUME HistoryInv, NEW E \in SUBSET DOMAIN history, E # {}
    PROVE  LET rows == DailyRows(E)
               shown == {i \in E : DayOf(i) >= Min(DOMAIN rows)}
           IN  /\ SumOf(rows, "requests") = Cardinality(shown)
               /\ SumOf(rows, "cost") = Total(shown, Cost)
               /\ shown = E \/ Cardinality(DOMAIN rows) = MaxDays
<1> DEFINE rows == DailyRows(E)
           k == Days(E)
           D == {DayOf(i) : i \in E}
           late == {d \in D : Cardinality({e \in D : e > d}) < MaxDays}
           column(field) == [x \in DOMAIN rows |-> rows[x][field]]
           shown == {i \in E : DayOf(i) >= Min(DOMAIN rows)}
<1>1. DOMAIN rows = late
  BY DEF DailyRows
<1>2. \A d \in late : /\ rows[d].requests = Cardinality(Fiber(E, k, d))
                      /\ rows[d].cost = Total(Fiber(E, k, d), Cost)
  <2>1. TAKE d \in late
  <2> DEFINE G == {i \in E : DayOf(i) = d}
  <2>2. rows[d] = [requests |-> Cardinality(G), errors |-> Errors(G),
                   cost |-> Total(G, Cost)]
    BY DEF DailyRows
  <2>3. G = Fiber(E, k, d)
    BY DEF Days, Fiber
  <2> HIDE DEF G, rows, k
  <2>4. QED
    BY <2>2, <2>3
<1>3. \A i \in E : DayOf(i) \in 0 .. now
  <2>1. TAKE i \in E
  <2>2. history[i].started \in 0 .. now /\ Day \in Nat \ {0} /\ now \in Nat
    BY EntriesTyped, DayType DEF HistoryInv
  <2>3. \A a, w, n \in Nat : w # 0 /\ a <= n => a \div w \in 0 .. n
    OBVIOUS
  <2>4. QED
    BY <2>2, <2>3 DEF DayOf
<1>4. D \in SUBSET (0 .. now) /\ D # {} /\ now \in Nat
  BY <1>3 DEF HistoryInv
<1>5. /\ late \subseteq D /\ late # {}
      /\ \A d \in D : d >= Min(late) <=> d \in late
      /\ late = D \/ Cardinality(late) = MaxDays
  <2>1. MaxDays \in Nat \ {0}
    BY StatsAssumption
  <2> HIDE DEF D
  <2>2. QED
    BY <1>4, <2>1, Latest
<1>6. IsFiniteSet(late)
  <2>1. IsFiniteSet(0 .. now)
    BY <1>4, FS_Interval
  <2>2. late \in SUBSET (0 .. now)
    BY <1>4, <1>5
  <2> HIDE DEF late
  <2>3. QED
    BY <2>1, <2>2, FS_Subset
<1>7. shown = Fibers(E, k, late)
  <2>1. \A i \in E : DayOf(i) \in D
    OBVIOUS
  <2> HIDE DEF late, rows, D
  <2>2. QED
    BY <1>1, <1>5, <2>1 DEF Fibers, Days
<1>8. shown = E \/ Cardinality(DOMAIN rows) = MaxDays
  <2>1. ASSUME late = D PROVE shown = E
    <3>1. \A i \in E : DayOf(i) \in D
      OBVIOUS
    <3> HIDE DEF late, rows, D
    <3>2. QED
      BY <1>1, <1>5, <2>1, <3>1
  <2>2. QED
    BY <1>1, <1>5, <2>1
<1> HIDE DEF rows, k, late, D, shown
<1>9. /\ SumOf(rows, "requests") = SumFunctionOnSet(column("requests"), late)
      /\ \A n \in late : column("requests")[n] = Cardinality(Fiber(E, k, n))
  BY <1>1, <1>2, ColumnIsSum
<1>10. /\ SumOf(rows, "cost") = SumFunctionOnSet(column("cost"), late)
       /\ \A n \in late : column("cost")[n] = Total(Fiber(E, k, n), Cost)
  BY <1>1, <1>2, ColumnIsSum
<1> HIDE DEF column
<1>11. SumOf(rows, "requests") = Cardinality(shown)
  BY <1>6, <1>7, <1>9, RowsAddUp
<1>12. SumOf(rows, "cost") = Total(shown, Cost)
  BY <1>6, <1>7, <1>10, RowsAddUp
<1>13. QED
  BY <1>8, <1>11, <1>12 DEF rows, shown

-----------------------------------------------------------------------------
(* The chart.                                                              *)

\* No request of the chart is before the first or after the last one.
LEMMA SpanIsBounded ==
    ASSUME HistoryInv, NEW E \in SUBSET DOMAIN history, E # {}
    PROVE  /\ First(E) \in Nat /\ Span(E) \in Nat
           /\ \A i \in E : history[i].started - First(E) \in 0 .. Span(E)
<1> DEFINE S == {history[i].started : i \in E}
<1>1. S \in SUBSET (0 .. now) /\ S # {} /\ now \in Nat
  BY EntriesTyped DEF HistoryInv
<1>2. \A i \in E : history[i].started \in S
  OBVIOUS
<1>3. First(E) = Min(S) /\ Span(E) = Max(S) - Min(S)
  BY DEF First, Span
<1> HIDE DEF S
<1>4. /\ Min(S) \in S /\ \A y \in S : Min(S) <= y
      /\ Max(S) \in S /\ \A y \in S : y <= Max(S)
  <2>1. S \in SUBSET Nat
    BY <1>1
  <2>2. QED
    BY <1>1, <2>1, MinOfNaturals, MaxOfNaturals
<1> DEFINE a == Min(S)
           z == Max(S)
<1>5. /\ a \in Nat /\ z \in Nat /\ a <= z
      /\ \A i \in E : /\ history[i].started \in Nat
                      /\ a <= history[i].started /\ history[i].started <= z
  <2>1. a \in S /\ z \in S /\ \A y \in S : a <= y /\ y <= z
    BY <1>4
  <2> HIDE DEF a, z
  <2>2. S \subseteq Nat
    BY <1>1
  <2>3. QED
    BY <1>2, <2>1, <2>2
<1>6. First(E) = a /\ Span(E) = z - a
  BY <1>3
<1> HIDE DEF a, z
<1>7. QED
  BY <1>5, <1>6

\* The bar of a request.
Bar(E) == [i \in E |-> BarOf(history[i].started - First(E), Span(E),
                             PickWidth(Span(E)))]

LEMMA BarOfEntry ==
    ASSUME HistoryInv, NEW E \in SUBSET DOMAIN history, E # {}
    PROVE  LET width == PickWidth(Span(E))
           IN  /\ width \in Nat \ {0}
               /\ NumBars(Span(E), width) \in 1 .. MaxBars
               /\ DOMAIN Buckets(E) = 0 .. NumBars(Span(E), width) - 1
               /\ \A i \in E :
                     /\ Bar(E)[i] \in DOMAIN Buckets(E)
                     /\ First(E) + Bar(E)[i] * width <= history[i].started
                     /\ history[i].started < First(E) + Bar(E)[i] * width + width
<1> DEFINE width == PickWidth(Span(E))
           count == NumBars(Span(E), width)
<1>1. /\ First(E) \in Nat /\ Span(E) \in Nat
      /\ \A i \in E : history[i].started - First(E) \in 0 .. Span(E)
  BY SpanIsBounded
<1>2. width \in Nat \ {0} /\ count \in 1 .. MaxBars
  BY <1>1, BarsFit
<1>3. DOMAIN Buckets(E) = 0 .. count - 1
  BY DEF Buckets
<1>4. ASSUME NEW i \in E
      PROVE  /\ Bar(E)[i] \in 0 .. count - 1
             /\ First(E) + Bar(E)[i] * width <= history[i].started
             /\ history[i].started < First(E) + Bar(E)[i] * width + width
  <2> DEFINE since == history[i].started - First(E)
             bar == Bar(E)[i]
  <2>1. bar = BarOf(since, Span(E), width)
    BY DEF Bar
  <2>2. since \in 0 .. Span(E)
    BY <1>1
  <2>3. /\ bar \in 0 .. (count - 1)
        /\ bar * width <= since /\ since < (bar + 1) * width
    <3> HIDE DEF since, bar
    <3>1. QED
      BY <1>1, <2>1, <2>2, BarOfItsTime
  <2>4. history[i].started \in Nat
    BY EntriesTyped
  <2>5. \A b, w \in Nat : (b + 1) * w = b * w + w /\ b * w \in Nat
    OBVIOUS
  <2> HIDE DEF bar, width, count
  <2>6. bar \in Nat /\ width \in Nat
    BY <1>2, <2>3
  <2>7. (bar + 1) * width = bar * width + width /\ bar * width \in Nat
    BY <2>5, <2>6
  <2> DEFINE p == bar * width
  <2>8. p \in Nat /\ p <= since /\ since < p + width
    BY <2>3, <2>7
  <2> HIDE DEF p
  <2>9. First(E) + p <= history[i].started /\ history[i].started < First(E) + p + width
    BY <1>1, <2>4, <2>6, <2>8
  <2>10. QED
    BY <2>3, <2>9 DEF bar, p
<1>5. QED
  BY <1>2, <1>3, <1>4

\* The chart counts every request once.
LEMMA BucketsAddUp ==
    ASSUME HistoryInv, NEW E \in SUBSET DOMAIN history, E # {}
    PROVE  /\ SumOf(Buckets(E), "requests") = Cardinality(E)
           /\ SumOf(Buckets(E), "errors") = Errors(E)
<1> DEFINE rows == Buckets(E)
           k == Bar(E)
           M == DOMAIN rows
           column(field) == [x \in DOMAIN rows |-> rows[x][field]]
<1>1. IsFiniteSet(M) /\ \A i \in E : k[i] \in M
  <2> DEFINE count == NumBars(Span(E), PickWidth(Span(E)))
  <2>1. count \in 1 .. MaxBars /\ M = 0 .. count - 1 /\ \A i \in E : k[i] \in M
    BY BarOfEntry
  <2> HIDE DEF M, count
  <2>2. IsFiniteSet(M)
    BY <2>1, FS_Interval
  <2>3. QED
    BY <2>1, <2>2
<1>2. \A b \in M : /\ rows[b].requests = Cardinality(Fiber(E, k, b))
                   /\ rows[b].errors = Errors(Fiber(E, k, b))
  <2>1. TAKE b \in M
  <2> DEFINE G == {i \in E : BarOf(history[i].started - First(E), Span(E),
                                   PickWidth(Span(E))) = b}
  <2>2. rows[b].requests = Cardinality(G) /\ rows[b].errors = Errors(G)
    BY DEF Buckets
  <2>3. G = Fiber(E, k, b)
    BY DEF Bar, Fiber
  <2> HIDE DEF G, rows, k
  <2>4. QED
    BY <2>2, <2>3
<1>3. Fibers(E, k, M) = E
  BY <1>1 DEF Fibers
<1> HIDE DEF rows, k
<1>4. /\ SumOf(rows, "requests") = SumFunctionOnSet(column("requests"), M)
      /\ \A n \in M : column("requests")[n] = Cardinality(Fiber(E, k, n))
  BY <1>2, ColumnIsSum
<1>5. /\ SumOf(rows, "errors") = SumFunctionOnSet(column("errors"), M)
      /\ \A n \in M : column("errors")[n] = Errors(Fiber(E, k, n))
  BY <1>2, ColumnIsSum
<1> HIDE DEF column, M
<1>6. SumOf(rows, "requests") = Cardinality(E)
  BY <1>1, <1>3, <1>4, RowsAddUp
<1>7. SumOf(rows, "errors") = Errors(E)
  BY <1>1, <1>3, <1>5, RowsAddUp
<1>8. QED
  BY <1>6, <1>7 DEF rows

-----------------------------------------------------------------------------
(* The table of models.                                                    *)

\* What one row says.
LEMMA SumOfOne ==
    ASSUME NEW f, NEW x, f[x] \in Int
    PROVE  SumFunctionOnSet(f, {x}) = f[x]
<1>1. IsFiniteSet({}) /\ {} \cup {x} = {x} /\ SumFunctionOnSet(f, {}) = 0
  BY FS_EmptySet, SumOfNone
<1>2. SumFunctionOnSet(f, {} \cup {x}) = SumFunctionOnSet(f, {}) + f[x]
  BY <1>1, SumAdd
<1>3. QED
  BY <1>1, <1>2

LEMMA ModelsAddUp ==
    ASSUME HistoryInv, NEW E \in SUBSET DOMAIN history,
           NEW table \in ModelTables(E)
    PROVE  LET Both(field) == SumOf(table.shown, field)
                              + SumFunction([r \in table.others |-> r[field]])
               CachedOnly == {i \in E :
                   Total(Group(E, "model", Kind(i).model), Tokens) = 0}
           IN  /\ Both("tokens") = Total(E, Tokens)
               /\ Both("cost") <= Total(E, Cost)
               /\ Both("cost") >= Total(E \ CachedOnly, Cost)
<1> DEFINE k == FieldOf(E, "model")
           CachedOnly == {i \in E :
               Total(Group(E, "model", Kind(i).model), Tokens) = 0}
           rows == table.shown
           others(field) == SumFunction([r \in table.others |-> r[field]])
<1>1. PICK K \in SUBSET Names(E, "model") : table = ModelRows(E, K)
  BY DEF ModelTables, Top
<1> DEFINE In == Fibers(E, k, K)
           Rest == {i \in E : Kind(i).model \notin K}
           rest == [requests |-> Cardinality(Rest),
                    tokens |-> Total(Rest, Tokens), cost |-> Total(Rest, Cost)]
<1>2. /\ DOMAIN rows = K
      /\ table.others = IF rest.tokens > 0 THEN {rest} ELSE {}
      /\ \A m \in K : rows[m] = [requests |-> Cardinality(Group(E, "model", m)),
                                 tokens |-> Total(Group(E, "model", m), Tokens),
                                 cost |-> Total(Group(E, "model", m), Cost)]
  BY <1>1 DEF ModelRows
<1>3. IsFiniteSet(K)
  BY NamesFinite, FS_Subset
<1>4. \A m : Group(E, "model", m) = Fiber(E, k, m)
  BY NamesFinite
<1>5. \A m \in K : /\ rows[m].tokens = Total(Fiber(E, k, m), Tokens)
                   /\ rows[m].cost = Total(Fiber(E, k, m), Cost)
  <2>1. TAKE m \in K
  <2> HIDE DEF rows, k
  <2>2. /\ rows[m].tokens = Total(Group(E, "model", m), Tokens)
        /\ rows[m].cost = Total(Group(E, "model", m), Cost)
    BY <1>2
  <2>3. Group(E, "model", m) = Fiber(E, k, m)
    BY <1>4
  <2>4. QED
    BY <2>2, <2>3
<1>6. /\ SumOf(rows, "tokens") = Total(In, Tokens)
      /\ SumOf(rows, "cost") = Total(In, Cost)
  <2> DEFINE column(field) == [x \in DOMAIN rows |-> rows[x][field]]
  <2> HIDE DEF rows, k
  <2>1. /\ SumOf(rows, "tokens") = SumFunctionOnSet(column("tokens"), K)
        /\ \A m \in K : column("tokens")[m] = Total(Fiber(E, k, m), Tokens)
    BY <1>2, <1>5, ColumnIsSum
  <2>2. /\ SumOf(rows, "cost") = SumFunctionOnSet(column("cost"), K)
        /\ \A m \in K : column("cost")[m] = Total(Fiber(E, k, m), Cost)
    BY <1>2, <1>5, ColumnIsSum
  <2> HIDE DEF column
  <2>3. QED
    BY <1>3, <2>1, <2>2, RowsAddUp
<1>7. /\ In \in SUBSET E /\ Rest \in SUBSET E
      /\ In \cup Rest = E /\ In \cap Rest = {}
  BY DEF Fibers, FieldOf
<1> DEFINE tokens == Total(Rest, Tokens)
           cost == Total(Rest, Cost)
<1> HIDE DEF In, Rest
<1>8. \A S \in SUBSET E :
         /\ S \in SUBSET DOMAIN history
         /\ IsFiniteSet(S)
         /\ Total(S, Tokens) = SumFunctionOnSet(AllTokens, S)
         /\ Total(S, Cost) = SumFunctionOnSet(Costs, S)
         /\ Total(S, Tokens) \in Nat /\ Total(S, Cost) \in Nat
         /\ \A i \in S : Costs[i] \in Nat /\ AllTokens[i] \in Nat
  BY EntriesTyped, TotalIsSum
<1>9. /\ Total(E, Tokens) = Total(In, Tokens) + tokens
      /\ Total(E, Cost) = Total(In, Cost) + cost
      /\ Total(In, Tokens) \in Nat /\ Total(In, Cost) \in Nat
      /\ tokens \in Nat /\ cost \in Nat
  <2>1. \A i \in In \cup Rest : Costs[i] \in Int /\ AllTokens[i] \in Int
    BY <1>7, <1>8
  <2>2. IsFiniteSet(In) /\ IsFiniteSet(Rest)
    BY <1>7, <1>8
  <2>3. SumFunctionOnSet(AllTokens, In \cup Rest)
          = SumFunctionOnSet(AllTokens, In) + SumFunctionOnSet(AllTokens, Rest)
    BY <1>7, <2>1, <2>2, SumDisjoint
  <2>4. SumFunctionOnSet(Costs, In \cup Rest)
          = SumFunctionOnSet(Costs, In) + SumFunctionOnSet(Costs, Rest)
    BY <1>7, <2>1, <2>2, SumDisjoint
  <2>5. QED
    BY <1>7, <1>8, <2>3, <2>4
<1>10. others("tokens") = tokens /\ others("cost") = IF tokens > 0 THEN cost ELSE 0
  <2>1. rest.tokens = tokens /\ rest.cost = cost
    OBVIOUS
  <2> HIDE DEF rest, tokens, cost
  <2>2. CASE tokens > 0
    <3>1. table.others = {rest}
      BY <1>2, <2>1, <2>2
    <3>2. ASSUME NEW field, rest[field] \in Int
          PROVE  others(field) = rest[field]
      <4> DEFINE f == [r \in {rest} |-> r[field]]
      <4>1. others(field) = SumFunctionOnSet(f, {rest}) /\ f[rest] = rest[field]
        BY <3>1 DEF SumFunction
      <4> HIDE DEF f, others
      <4>2. QED
        BY <3>2, <4>1, SumOfOne
    <3>3. rest["tokens"] \in Int /\ rest["cost"] \in Int
      BY <1>9, <2>1
    <3> HIDE DEF others
    <3>4. QED
      BY <2>1, <2>2, <3>2, <3>3
  <2>3. CASE ~(tokens > 0)
    <3>1. table.others = {}
      BY <1>2, <2>1, <2>3
    <3>2. \A field : others(field) = 0
      <4>1. TAKE field
      <4> DEFINE f == [r \in {} |-> r[field]]
      <4>2. others(field) = SumFunctionOnSet(f, {})
        BY <3>1 DEF SumFunction
      <4> HIDE DEF f, others
      <4>3. QED
        BY <4>2, SumOfNone
    <3>3. tokens = 0
      BY <1>9, <2>3
    <3> HIDE DEF others
    <3>4. QED
      BY <2>3, <3>2, <3>3
  <2>4. QED
    BY <2>2, <2>3
<1>11. Total(E \ CachedOnly, Cost) <= Total(E, Cost)
  <2>1. E \ CachedOnly \in SUBSET E /\ E \in SUBSET E
    OBVIOUS
  <2> HIDE DEF CachedOnly
  <2>2. SumFunctionOnSet(Costs, E \ CachedOnly) <= SumFunctionOnSet(Costs, E)
    BY <1>8, <2>1, SumNatural
  <2>3. QED
    BY <1>8, <2>1, <2>2
<1>12. ASSUME tokens = 0 PROVE Total(E \ CachedOnly, Cost) <= Total(In, Cost)
  <2>1. ASSUME NEW i \in E, i \notin In PROVE i \in CachedOnly
    <3> DEFINE m == Kind(i).model
               G == Group(E, "model", m)
    <3>1. m \notin K
      BY <2>1 DEF In, Fibers, FieldOf
    <3>2. G \in SUBSET Rest
      BY <3>1 DEF Group, Rest
    <3> HIDE DEF G
    <3>3. SumFunctionOnSet(AllTokens, G) <= SumFunctionOnSet(AllTokens, Rest)
      BY <1>7, <1>8, <3>2, SumNatural
    <3>4. Total(G, Tokens) <= 0 /\ Total(G, Tokens) \in Nat
      BY <1>7, <1>8, <1>12, <3>2, <3>3
    <3>5. Total(G, Tokens) = 0
      BY <3>4
    <3>6. QED
      BY <3>5 DEF G
  <2>2. E \ CachedOnly \in SUBSET In
    BY <2>1
  <2> HIDE DEF CachedOnly
  <2>3. SumFunctionOnSet(Costs, E \ CachedOnly) <= SumFunctionOnSet(Costs, In)
    BY <1>7, <1>8, <2>2, SumNatural
  <2>4. QED
    BY <1>7, <1>8, <2>2, <2>3
<1> HIDE DEF tokens, cost, others, CachedOnly, rest, k, rows
<1>13. Total(E, Cost) \in Nat /\ Total(E \ CachedOnly, Cost) \in Nat
  BY <1>8
<1>14. SumOf(rows, "tokens") + others("tokens") = Total(E, Tokens)
  BY <1>6, <1>9, <1>10
<1>15. /\ SumOf(rows, "cost") + others("cost") <= Total(E, Cost)
       /\ SumOf(rows, "cost") + others("cost") >= Total(E \ CachedOnly, Cost)
  BY <1>6, <1>9, <1>10, <1>11, <1>12, <1>13
<1>16. QED
  BY <1>14, <1>15 DEF others, CachedOnly, rows

-----------------------------------------------------------------------------
(* Theorems.                                                               *)

\* Nothing is lost or counted twice on the statistics page, whichever way it
\* breaks down its requests: by status, state, upstream, model, day or bar of
\* the chart (stats.go:840-1152, 1346-1409).
THEOREM StatsStatisticsAddUp == Spec => []StatisticsAddUp
<1>1. HistoryInv => BreakdownsAddUp
  <2> SUFFICES ASSUME HistoryInv, page = Idle, NEW w \in Windows,
                      Since(Cutoff(w)) # {}
               PROVE  LET E == Since(Cutoff(w)) IN
                 /\ \A field \in {"status", "state", "upstream", "model"} :
                       Other \in Names(E, field) \/
                          \A bars \in Breakdowns(E, field) :
                             SumFunction(bars.shown) + bars.others = Cardinality(E)
                 /\ SumOf(UpstreamRows(E), "requests") = Cardinality(E)
                 /\ SumOf(UpstreamRows(E), "errors") = Errors(E)
                 /\ SumOf(UpstreamRows(E), "cost") = Total(E, Cost)
                 /\ SumOf(Buckets(E), "requests") = Cardinality(E)
                 /\ SumOf(Buckets(E), "errors") = Errors(E)
                 /\ LET rows == DailyRows(E)
                        shown == {i \in E : DayOf(i) >= Min(DOMAIN rows)}
                    IN  /\ SumOf(rows, "requests") = Cardinality(shown)
                        /\ SumOf(rows, "cost") = Total(shown, Cost)
                        /\ shown = E \/ Cardinality(DOMAIN rows) = MaxDays
    BY DEF BreakdownsAddUp
  <2> DEFINE E == Since(Cutoff(w))
  <2>1. E \in SUBSET DOMAIN history /\ E # {}
    BY DEF Since
  <2> HIDE DEF E
  <2>2. \A field : Other \in Names(E, field) \/
           \A bars \in Breakdowns(E, field) :
              SumFunction(bars.shown) + bars.others = Cardinality(E)
    BY <2>1, BreakdownAddsUp
  <2>3. /\ SumOf(UpstreamRows(E), "requests") = Cardinality(E)
        /\ SumOf(UpstreamRows(E), "errors") = Errors(E)
        /\ SumOf(UpstreamRows(E), "cost") = Total(E, Cost)
    BY <2>1, UpstreamsAddUp
  <2>4. /\ SumOf(Buckets(E), "requests") = Cardinality(E)
        /\ SumOf(Buckets(E), "errors") = Errors(E)
    BY <2>1, BucketsAddUp
  <2>5. LET rows == DailyRows(E)
            shown == {i \in E : DayOf(i) >= Min(DOMAIN rows)}
        IN  /\ SumOf(rows, "requests") = Cardinality(shown)
            /\ SumOf(rows, "cost") = Total(shown, Cost)
            /\ shown = E \/ Cardinality(DOMAIN rows) = MaxDays
    BY <2>1, DaysAddUp
  <2>6. QED
    BY <2>2, <2>3, <2>4, <2>5 DEF E
<1>2. HistoryInv => ModelTableAddsUp
  <2> SUFFICES ASSUME HistoryInv, page = Idle, NEW w \in Windows,
                      NEW table \in ModelTables(Since(Cutoff(w)))
               PROVE  LET E == Since(Cutoff(w))
                          Both(field) ==
                              SumOf(table.shown, field)
                              + SumFunction([r \in table.others |-> r[field]])
                          CachedOnly == {i \in E :
                              Total(Group(E, "model", Kind(i).model), Tokens) = 0}
                      IN  /\ Both("tokens") = Total(E, Tokens)
                          /\ Both("cost") <= Total(E, Cost)
                          /\ Both("cost") >= Total(E \ CachedOnly, Cost)
    BY DEF ModelTableAddsUp
  <2>1. Since(Cutoff(w)) \in SUBSET DOMAIN history
    BY DEF Since
  <2>2. QED
    BY <2>1, ModelsAddUp
<1>3. HistoryInv => StatisticsAddUp
  BY <1>1, <1>2 DEF StatisticsAddUp
<1>4. QED
  BY <1>3, HistoryInvariant, PTL

-----------------------------------------------------------------------------
(* The sort of the roll-ups.                                               *)

\* From v on, one step of F after the other.
Runs(V, v, a, b, F) ==
    {g \in [a .. b -> V] :
        \A j \in a .. b : g[j] = IF j = a THEN v ELSE F[<<g[j - 1], j>>]}

\* There is a function that does its steps one after the other.
LEMMA Iteration ==
    ASSUME NEW V, NEW v \in V, NEW a \in Nat, NEW b \in Nat,
           NEW F \in [V \X (a .. b) -> V]
    PROVE  Runs(V, v, a, b, F) # {}
<1> DEFINE Value(g, j) == IF j = a THEN v ELSE F[<<g[j - 1], j>>]
           Upto(g, n) == \A j \in a .. b : j <= a + n => g[j] = Value(g, j)
           N == {n \in Nat : \E g \in [a .. b -> V] : Upto(g, n)}
<1>1. 0 \in N
  <2> DEFINE g == [j \in a .. b |-> v]
  <2>1. g \in [a .. b -> V] /\ Upto(g, 0)
    OBVIOUS
  <2> HIDE DEF g, Upto
  <2>2. QED
    BY <2>1
<1>2. ASSUME NEW n \in Nat, n \in N PROVE n + 1 \in N
  <2>1. PICK g \in [a .. b -> V] : Upto(g, n)
    BY <1>2
  <2> DEFINE h == [j \in a .. b |-> Value(g, j)]
  <2>2. \A j \in a .. b : Value(g, j) \in V
    <3>1. SUFFICES ASSUME NEW j \in a .. b, j # a PROVE F[<<g[j - 1], j>>] \in V
      OBVIOUS
    <3>2. j - 1 \in a .. b
      BY <3>1
    <3>3. g[j - 1] \in V
      BY <3>2
    <3>4. QED
      BY <3>3
  <2>3. h \in [a .. b -> V]
    BY <2>2
  <2>4. ASSUME NEW j \in a .. b, j <= a + (n + 1) PROVE h[j] = Value(h, j)
    <3>1. CASE j = a
      BY <3>1
    <3>2. CASE j # a
      <4>1. j - 1 \in a .. b /\ j - 1 <= a + n
        BY <2>4, <3>2
      <4>2. g[j - 1] = h[j - 1]
        BY <2>1, <4>1
      <4>3. QED
        BY <3>2, <4>2
    <3>3. QED
      BY <3>1, <3>2
  <2>5. Upto(h, n + 1)
    BY <2>4
  <2> HIDE DEF h, Upto
  <2>6. QED
    BY <2>3, <2>5
<1>3. Nat \subseteq N
  <2> HIDE DEF N
  <2>1. QED
    BY <1>1, <1>2, SetOfNaturals
<1>4. PICK g \in [a .. b -> V] : Upto(g, b)
  BY <1>3
<1>5. \A j \in a .. b : j <= a + b
  OBVIOUS
<1>6. g \in Runs(V, v, a, b, F)
  BY <1>4, <1>5 DEF Runs
<1>7. QED
  BY <1>6

\* What holds first, and after a step if it did before, holds always.
LEMMA StepByStep ==
    ASSUME NEW a \in Nat, NEW b \in Nat, NEW T, a \in a .. b => a \in T,
           \A j \in a + 1 .. b : j - 1 \in T => j \in T
    PROVE  a .. b \subseteq T
<1> DEFINE N == {n \in Nat : a + n \in a .. b => a + n \in T}
<1>1. 0 \in N
  OBVIOUS
<1>2. ASSUME NEW n \in Nat, n \in N PROVE n + 1 \in N
  <2>1. SUFFICES ASSUME a + (n + 1) \in a .. b PROVE a + (n + 1) \in T
    OBVIOUS
  <2>2. /\ a + (n + 1) \in a + 1 .. b /\ (a + (n + 1)) - 1 = a + n
        /\ a + n \in a .. b
    BY <2>1
  <2>3. a + n \in T
    BY <1>2, <2>2
  <2>4. QED
    BY <2>2, <2>3
<1>3. Nat \subseteq N
  <2> HIDE DEF N
  <2>1. QED
    BY <1>1, <1>2, SetOfNaturals
<1>4. \A j \in a .. b : j - a \in Nat /\ a + (j - a) = j
  OBVIOUS
<1>5. QED
  BY <1>3, <1>4

\* The elements of S in some order.
Orders(N, S) ==
    {t \in [1 .. N -> S] : /\ \A m, n \in 1 .. N : t[m] = t[n] => m = n
                           /\ \A x \in S : \E n \in 1 .. N : t[n] = x}

\* A step of the sort.
Exchanged(s, i, j, behind) ==
    IF <<s[i], s[j]>> \in behind THEN [s EXCEPT ![i] = s[j], ![j] = s[i]]
    ELSE s

LEMMA LenOfOrder ==
    ASSUME NEW N \in Nat, NEW S, NEW t \in Orders(N, S)
    PROVE  Len(t) = N /\ t \in Seq(S) /\ DOMAIN t = 1 .. N
<1>1. t \in [1 .. N -> S]
  BY DEF Orders
<1>2. t \in Seq(S)
  BY <1>1, SeqDef
<1>3. Len(t) \in Nat /\ 1 .. Len(t) = 1 .. N /\ DOMAIN t = 1 .. N
  BY <1>1, <1>2, LenProperties
<1>4. Len(t) = N
  <2> DEFINE n == Len(t)
  <2> HIDE DEF n
  <2>1. n \in Nat /\ 1 .. n = 1 .. N
    BY <1>3 DEF n
  <2>2. n <= N /\ N <= n
    <3>1. n = 0 \/ n \in 1 .. N
      BY <2>1
    <3>2. N = 0 \/ N \in 1 .. n
      BY <2>1
    <3>3. QED
      BY <2>1, <3>1, <3>2
  <2>3. QED
    BY <2>1, <2>2 DEF n
<1>5. QED
  BY <1>2, <1>3, <1>4

\* An exchange leaves the elements and all other places as they were.
LEMMA ExchangedIsOrder ==
    ASSUME NEW N \in Nat, NEW S, NEW behind, NEW s \in Orders(N, S),
           NEW i \in 1 .. N, NEW j \in 1 .. N, i # j
    PROVE  LET t == Exchanged(s, i, j, behind)
           IN  /\ t \in Orders(N, S)
               /\ \A m \in 1 .. N : m # i /\ m # j => t[m] = s[m]
               /\ \/ <<s[i], s[j]>> \in behind /\ t[i] = s[j] /\ t[j] = s[i]
                  \/ <<s[i], s[j]>> \notin behind /\ t = s
<1>1. CASE <<s[i], s[j]>> \notin behind
  BY <1>1 DEF Exchanged
<1>2. CASE <<s[i], s[j]>> \in behind
  <2> DEFINE t == Exchanged(s, i, j, behind)
  <2>1. /\ s \in [1 .. N -> S]
        /\ \A m, n \in 1 .. N : s[m] = s[n] => m = n
        /\ \A x \in S : \E n \in 1 .. N : s[n] = x
    BY DEF Orders
  <2>2. /\ t \in [1 .. N -> S] /\ t[i] = s[j] /\ t[j] = s[i]
        /\ \A m \in 1 .. N : m # i /\ m # j => t[m] = s[m]
    BY <1>2, <2>1 DEF Exchanged
  <2> HIDE DEF t
  <2>3. \A m, n \in 1 .. N : t[m] = t[n] => m = n
    BY <2>1, <2>2
  <2>4. \A x \in S : \E n \in 1 .. N : t[n] = x
    BY <2>1, <2>2
  <2>5. t \in Orders(N, S)
    BY <2>2, <2>3, <2>4 DEF Orders
  <2>6. QED
    BY <1>2, <2>2, <2>5 DEF t
<1>3. QED
  BY <1>1, <1>2

\* A strict order: what has to go behind what.
IsStrict(behind, S) ==
    /\ \A x, y \in S : <<x, y>> \in behind => <<y, x>> \notin behind
    /\ \A x, y, z \in S : <<x, y>> \in behind /\ <<y, z>> \in behind
                             => <<x, z>> \in behind

\* A pass finds the element for place i and leaves the places before alone.
LEMMA PassProperties ==
    ASSUME NEW N \in Nat, NEW S, NEW behind, IsStrict(behind, S),
           NEW s \in Orders(N, S), NEW i \in 1 .. N
    PROVE  LET t == Pass(s, i, behind)
           IN  /\ t \in Orders(N, S)
               /\ \A m \in 1 .. i - 1 : t[m] = s[m]
               /\ \A n \in i + 1 .. N : <<t[i], t[n]>> \notin behind
<1> DEFINE V == Orders(N, S)
           Is(g) == g = [j \in i .. N |->
                            IF j = i THEN s ELSE Exchanged(g[j - 1], i, j, behind)]
           h == CHOOSE g : Is(g)
<1>1. Pass(s, i, behind) = h[N]
  <2>1. Len(s) = N
    BY LenOfOrder
  <2>2. QED
    BY <2>1 DEF Pass, Exchanged
<1>2. \E g : Is(g)
  <2> DEFINE F == [p \in V \X (i .. N) |->
                      IF p[2] = i THEN p[1] ELSE Exchanged(p[1], i, p[2], behind)]
  <2>1. ASSUME NEW t \in V, NEW j \in i .. N
        PROVE  F[<<t, j>>] = IF j = i THEN t ELSE Exchanged(t, i, j, behind)
    OBVIOUS
  <2>2. F \in [V \X (i .. N) -> V]
    <3>1. ASSUME NEW p \in V \X (i .. N), p[2] # i
          PROVE  Exchanged(p[1], i, p[2], behind) \in V
      <4>1. p[1] \in Orders(N, S) /\ p[2] \in 1 .. N
        OBVIOUS
      <4>2. Exchanged(p[1], i, p[2], behind) \in Orders(N, S)
        BY <3>1, <4>1, ExchangedIsOrder
      <4>3. QED
        BY <4>2
    <3> HIDE DEF V
    <3>2. QED
      BY <3>1
  <2> HIDE DEF F, V
  <2>3. s \in V /\ i \in Nat
    BY DEF V
  <2>4. PICK g \in Runs(V, s, i, N, F) : TRUE
    BY <2>2, <2>3, Iteration
  <2>5. ASSUME NEW j \in i .. N, j # i
        PROVE  g[j] = Exchanged(g[j - 1], i, j, behind)
    <3>1. j - 1 \in i .. N
      BY <2>5
    <3>2. g[j - 1] \in V
      BY <2>4, <3>1 DEF Runs
    <3>3. F[<<g[j - 1], j>>] = Exchanged(g[j - 1], i, j, behind)
      BY <2>1, <2>5, <3>2
    <3>4. QED
      BY <2>4, <2>5, <3>3 DEF Runs
  <2>6. Is(g)
    BY <2>4, <2>5 DEF Runs
  <2> HIDE DEF Is
  <2>7. QED
    BY <2>6
<1>3. Is(h)
  <2> HIDE DEF Is
  <2>1. QED
    BY <1>2
<1>4. /\ h[i] = s
      /\ \A j \in i + 1 .. N : h[j] = Exchanged(h[j - 1], i, j, behind)
  <2> HIDE DEF h
  <2>1. \A j \in i .. N :
           h[j] = IF j = i THEN s ELSE Exchanged(h[j - 1], i, j, behind)
    BY <1>3
  <2>2. i \in i .. N /\ \A j \in i + 1 .. N : j \in i .. N /\ j # i
    OBVIOUS
  <2>3. QED
    BY <2>1, <2>2
<1> HIDE DEF h, Is
<1> DEFINE Good(t, j) == /\ t \in V
                         /\ \A m \in 1 .. i - 1 : t[m] = s[m]
                         /\ \A n \in i + 1 .. j : <<t[i], t[n]>> \notin behind
           T == {j \in i .. N : Good(h[j], j)}
<1>5. i \in T
  BY <1>4
<1>6. ASSUME NEW j \in i + 1 .. N, j - 1 \in T PROVE j \in T
  <2> DEFINE t == h[j - 1]
             u == h[j]
  <2>1. /\ t \in V /\ \A m \in 1 .. i - 1 : t[m] = s[m]
        /\ \A n \in i + 1 .. j - 1 : <<t[i], t[n]>> \notin behind
    BY <1>6
  <2>2. u = Exchanged(t, i, j, behind) /\ j \in 1 .. N /\ i # j
    BY <1>4
  <2> HIDE DEF t, u
  <2>3. /\ u \in V
        /\ \A m \in 1 .. N : m # i /\ m # j => u[m] = t[m]
        /\ \/ <<t[i], t[j]>> \in behind /\ u[i] = t[j] /\ u[j] = t[i]
           \/ <<t[i], t[j]>> \notin behind /\ u = t
    <3>1. t \in Orders(N, S) /\ j \in 1 .. N /\ i # j
      BY <2>1, <2>2
    <3> DEFINE e == Exchanged(t, i, j, behind)
    <3>2. e \in Orders(N, S)
      BY <3>1, ExchangedIsOrder
    <3>3. \A m \in 1 .. N : m # i /\ m # j => e[m] = t[m]
      BY <3>1 DEF Exchanged, Orders
    <3>4. \/ <<t[i], t[j]>> \in behind /\ e[i] = t[j] /\ e[j] = t[i]
          \/ <<t[i], t[j]>> \notin behind /\ e = t
      BY <3>1, ExchangedIsOrder
    <3> HIDE DEF e
    <3>5. QED
      BY <2>2, <3>2, <3>3, <3>4 DEF e
  <2>4. \A m \in 1 .. i - 1 : u[m] = s[m]
    <3>1. \A m \in 1 .. i - 1 : m \in 1 .. N /\ m # i /\ m # j
      BY <2>2
    <3>2. QED
      BY <2>1, <2>3, <3>1
  <2>5. ASSUME NEW n \in i + 1 .. j PROVE <<u[i], u[n]>> \notin behind
    <3>1. n \in 1 .. N /\ n # i /\ (n # j => n \in i + 1 .. j - 1)
      BY <2>2
    <3>2. /\ t[i] \in S /\ t[j] \in S /\ t[n] \in S
      BY <2>1, <2>2, <3>1 DEF Orders
    <3>3. CASE <<t[i], t[j]>> \notin behind /\ u = t
      BY <2>1, <3>1, <3>3
    <3>4. CASE <<t[i], t[j]>> \in behind /\ u[i] = t[j] /\ u[j] = t[i]
      <4>1. CASE n = j
        BY <3>2, <3>4, <4>1 DEF IsStrict
      <4>2. CASE n # j
        <5>1. u[n] = t[n] /\ <<t[i], t[n]>> \notin behind
          BY <2>1, <2>3, <3>1, <4>2
        <5>2. QED
          BY <3>2, <3>4, <5>1 DEF IsStrict
      <4>3. QED
        BY <4>1, <4>2
    <3>5. QED
      BY <2>3, <3>3, <3>4
  <2>6. Good(u, j)
    BY <2>3, <2>4, <2>5
  <2>7. j \in i .. N
    OBVIOUS
  <2>8. QED
    BY <2>6, <2>7 DEF u
<1>7. N \in T
  <2>1. i .. N \subseteq T
    <3> HIDE DEF T
    <3>1. i \in Nat
      OBVIOUS
    <3>2. QED
      BY <1>5, <1>6, <3>1, StepByStep
  <2>2. QED
    BY <2>1
<1>8. QED
  BY <1>1, <1>7

\* The sort leaves no element before one that it has to go behind.
LEMMA SortProperties ==
    ASSUME NEW N \in Nat, NEW S, NEW behind, IsStrict(behind, S),
           NEW rows \in Orders(N, S)
    PROVE  LET t == ExchangeSort(rows, behind)
           IN  /\ t \in Orders(N, S)
               /\ \A m \in 1 .. N : \A n \in m + 1 .. N :
                     <<t[m], t[n]>> \notin behind
<1> DEFINE V == Orders(N, S)
           Is(g) == g = [i \in 0 .. N |->
                            IF i = 0 THEN rows ELSE Pass(g[i - 1], i, behind)]
           h == CHOOSE g : Is(g)
<1>1. ExchangeSort(rows, behind) = h[N]
  <2>1. Len(rows) = N
    BY LenOfOrder
  <2>2. QED
    BY <2>1 DEF ExchangeSort
<1>2. \E g : Is(g)
  <2> DEFINE F == [p \in V \X (0 .. N) |->
                      IF p[2] = 0 THEN p[1] ELSE Pass(p[1], p[2], behind)]
  <2>1. ASSUME NEW t \in V, NEW i \in 0 .. N
        PROVE  F[<<t, i>>] = IF i = 0 THEN t ELSE Pass(t, i, behind)
    OBVIOUS
  <2>2. F \in [V \X (0 .. N) -> V]
    <3>1. ASSUME NEW p \in V \X (0 .. N), p[2] # 0
          PROVE  Pass(p[1], p[2], behind) \in V
      <4>1. p[1] \in Orders(N, S) /\ p[2] \in 1 .. N
        BY <3>1
      <4>2. Pass(p[1], p[2], behind) \in Orders(N, S)
        BY <4>1, PassProperties
      <4>3. QED
        BY <4>2
    <3> HIDE DEF V
    <3>2. QED
      BY <3>1
  <2> HIDE DEF F, V
  <2>3. rows \in V /\ 0 \in Nat
    BY DEF V
  <2>4. PICK g \in Runs(V, rows, 0, N, F) : TRUE
    BY <2>2, <2>3, Iteration
  <2>5. ASSUME NEW i \in 0 .. N, i # 0
        PROVE  g[i] = Pass(g[i - 1], i, behind)
    <3>1. i - 1 \in 0 .. N
      BY <2>5
    <3>2. g[i - 1] \in V
      BY <2>4, <3>1 DEF Runs
    <3>3. F[<<g[i - 1], i>>] = Pass(g[i - 1], i, behind)
      BY <2>1, <2>5, <3>2
    <3>4. QED
      BY <2>4, <2>5, <3>3 DEF Runs
  <2>6. Is(g)
    BY <2>4, <2>5 DEF Runs
  <2> HIDE DEF Is
  <2>7. QED
    BY <2>6
<1>3. Is(h)
  <2> HIDE DEF Is
  <2>1. QED
    BY <1>2
<1>4. h[0] = rows /\ \A i \in 0 + 1 .. N : h[i] = Pass(h[i - 1], i, behind)
  <2> HIDE DEF h
  <2>1. \A i \in 0 .. N : h[i] = IF i = 0 THEN rows ELSE Pass(h[i - 1], i, behind)
    BY <1>3
  <2>2. 0 \in 0 .. N /\ \A i \in 0 + 1 .. N : i \in 0 .. N /\ i # 0
    OBVIOUS
  <2>3. QED
    BY <2>1, <2>2
<1> HIDE DEF h, Is
<1> DEFINE Good(t, i) == /\ t \in V
                         /\ \A m \in 1 .. i : \A n \in m + 1 .. N :
                               <<t[m], t[n]>> \notin behind
           T == {i \in 0 .. N : Good(h[i], i)}
<1>5. 0 \in T
  BY <1>4
<1>6. ASSUME NEW i \in 0 + 1 .. N, i - 1 \in T PROVE i \in T
  <2> DEFINE t == h[i - 1]
             u == h[i]
  <2>1. /\ t \in V
        /\ \A m \in 1 .. i - 1 : \A n \in m + 1 .. N : <<t[m], t[n]>> \notin behind
    BY <1>6
  <2>2. u = Pass(t, i, behind) /\ i \in 1 .. N
    BY <1>4
  <2> HIDE DEF t, u
  <2>3. /\ u \in V
        /\ \A m \in 1 .. i - 1 : u[m] = t[m]
        /\ \A n \in i + 1 .. N : <<u[i], u[n]>> \notin behind
    <3>1. t \in Orders(N, S) /\ i \in 1 .. N
      BY <2>1, <2>2
    <3> DEFINE e == Pass(t, i, behind)
    <3>2. /\ e \in Orders(N, S)
          /\ \A m \in 1 .. i - 1 : e[m] = t[m]
          /\ \A n \in i + 1 .. N : <<e[i], e[n]>> \notin behind
      BY <3>1, PassProperties
    <3> HIDE DEF e
    <3>3. QED
      BY <2>2, <3>2 DEF e
  <2>4. ASSUME NEW m \in 1 .. i, NEW n \in m + 1 .. N
        PROVE  <<u[m], u[n]>> \notin behind
    <3>1. CASE m = i
      BY <2>3, <3>1
    <3>2. CASE m # i
      <4>1. m \in 1 .. i - 1 /\ n \in 1 .. N
        BY <3>2
      <4>2. PICK p \in 1 .. N : t[p] = u[n]
        BY <2>1, <2>3, <4>1 DEF Orders
      <4>3. p \in m + 1 .. N
        <5>1. SUFFICES ASSUME p <= m PROVE FALSE
          OBVIOUS
        <5>2. p \in 1 .. i - 1 /\ p # n
          BY <3>2, <5>1
        <5>3. u[p] = u[n]
          BY <2>3, <4>2, <5>2
        <5>4. QED
          BY <2>3, <4>1, <5>2, <5>3 DEF Orders
      <4>4. QED
        BY <2>1, <2>3, <4>1, <4>2, <4>3
    <3>3. QED
      BY <3>1, <3>2
  <2>5. Good(u, i) /\ i \in 0 .. N
    BY <2>3, <2>4
  <2>6. QED
    BY <2>5 DEF u
<1>7. N \in T
  <2>1. 0 .. N \subseteq T
    <3> HIDE DEF T
    <3>1. 0 \in Nat
      OBVIOUS
    <3>2. QED
      BY <1>5, <1>6, <3>1, StepByStep
  <2>2. QED
    BY <2>1
<1>8. QED
  BY <1>1, <1>7

-----------------------------------------------------------------------------
(* Orders.                                                                 *)

\* The library's orders of a finite set, of which there is one.
LEMMA OrdersOfSet ==
    ASSUME NEW S, IsFiniteSet(S)
    PROVE  /\ Cardinality(S) \in Nat
           /\ SetToSeqs(S) = Orders(Cardinality(S), S)
           /\ SetToSeqs(S) # {}
<1> DEFINE N == Cardinality(S)
<1>1. N \in Nat /\ ExistsBijection(1 .. N, S)
  BY FS_CardinalityType
<1>2. IsFiniteSet(1 .. N) /\ Cardinality(1 .. N) = N
  <2>1. N \in Int /\ 1 \in Int /\ (1 <= N \/ N = 0)
    BY <1>1
  <2> HIDE DEF N
  <2>2. QED
    BY <2>1, FS_Interval
<1>3. SetToSeqs(S) = {f \in [1 .. N -> S] :
                         \A i, j \in 1 .. N : i # j => f[i] # f[j]}
  BY DEF SetToSeqs
<1> HIDE DEF N
<1>4. ASSUME NEW f \in SetToSeqs(S) PROVE f \in Orders(N, S)
  <2>1. f \in Injection(1 .. N, S)
    BY <1>3 DEF Injection, IsInjective
  <2>2. f \in Surjection(1 .. N, S)
    BY <1>2, <2>1, FS_Injection DEF N
  <2>3. QED
    BY <1>3, <2>2 DEF Surjection, Orders
<1>5. Orders(N, S) \subseteq SetToSeqs(S)
  BY <1>3 DEF Orders
<1>6. PICK f \in Bijection(1 .. N, S) : TRUE
  BY <1>1 DEF ExistsBijection
<1>7. f \in SetToSeqs(S)
  BY <1>3, <1>6 DEF Bijection, Injection, IsInjective
<1>8. QED
  BY <1>1, <1>4, <1>5, <1>7 DEF N

\* A finite set can be sorted: the sort of the roll-ups does it.
LEMMA SortedOrder ==
    ASSUME NEW S, IsFiniteSet(S), NEW k, \A x \in S : k[x] \in Int
    PROVE  \E s \in SetToSeqs(S) :
              \A m, n \in DOMAIN s : m < n => k[s[m]] <= k[s[n]]
<1> DEFINE N == Cardinality(S)
           behind == {p \in S \X S : k[p[1]] > k[p[2]]}
<1>1. N \in Nat /\ SetToSeqs(S) = Orders(N, S) /\ SetToSeqs(S) # {}
  BY OrdersOfSet
<1>2. \A x, y \in S : <<x, y>> \in behind <=> k[x] > k[y]
  OBVIOUS
<1> HIDE DEF N, behind
<1>3. IsStrict(behind, S)
  BY <1>2 DEF IsStrict
<1>4. PICK rows \in Orders(N, S) : TRUE
  BY <1>1
<1> DEFINE t == ExchangeSort(rows, behind)
<1>5. /\ t \in Orders(N, S)
      /\ \A m \in 1 .. N : \A n \in m + 1 .. N : <<t[m], t[n]>> \notin behind
  BY <1>1, <1>3, <1>4, SortProperties
<1> HIDE DEF t
<1>6. DOMAIN t = 1 .. N /\ \A n \in 1 .. N : t[n] \in S
  BY <1>5 DEF Orders
<1>7. ASSUME NEW m \in DOMAIN t, NEW n \in DOMAIN t, m < n
      PROVE  k[t[m]] <= k[t[n]]
  <2>1. m \in 1 .. N /\ n \in m + 1 .. N /\ t[m] \in S /\ t[n] \in S
    BY <1>1, <1>6, <1>7
  <2>2. ~(k[t[m]] > k[t[n]])
    BY <1>2, <1>5, <2>1
  <2>3. QED
    BY <2>1, <2>2
<1>8. QED
  BY <1>1, <1>5, <1>7

\* At least 95 of 100 are not above the p95 of a sorted list.
LEMMA PercentileCovers ==
    ASSUME NEW took \in Seq(Nat), took # <<>>,
           \A m, n \in DOMAIN took : m < n => took[m] <= took[n]
    PROVE  100 * Cardinality({n \in DOMAIN took :
                                 took[n] <= Percentile(took, 95)})
              >= 95 * Len(took)
<1> DEFINE N == Len(took)
           rank == (95 * N + 99) \div 100
           low == {n \in DOMAIN took : took[n] <= Percentile(took, 95)}
<1>1. N \in Nat \ {0} /\ DOMAIN took = 1 .. N /\ \A n \in 1 .. N : took[n] \in Nat
  BY LenProperties, EmptySeq
<1> HIDE DEF N
<1>2. rank \in 1 .. N /\ 100 * rank >= 95 * N
  BY <1>1
<1>3. Percentile(took, 95) = took[rank]
  BY <1>2 DEF Percentile, N
<1> HIDE DEF rank
<1>4. 1 .. rank \subseteq low
  <2>1. SUFFICES ASSUME NEW n \in 1 .. rank PROVE took[n] <= took[rank]
    BY <1>1, <1>2, <1>3
  <2>2. n \in 1 .. N /\ rank \in 1 .. N /\ (n = rank \/ n < rank)
    BY <1>1, <1>2
  <2>3. CASE n = rank
    <3>1. took[rank] \in Nat
      BY <1>1, <2>2
    <3>2. QED
      BY <2>3, <3>1
  <2>4. CASE n < rank
    <3>1. n \in DOMAIN took /\ rank \in DOMAIN took
      BY <1>1, <2>2
    <3>2. QED
      BY <2>4, <3>1
  <2>5. QED
    BY <2>2, <2>3, <2>4
<1>5. IsFiniteSet(low) /\ Cardinality(low) \in Nat
  <2>1. IsFiniteSet(1 .. N)
    BY <1>1, FS_Interval
  <2>2. low \subseteq 1 .. N
    BY <1>1
  <2>3. QED
    BY <2>1, <2>2, FS_Subset, FS_CardinalityType
<1>6. Cardinality(1 .. rank) = rank
  BY <1>1, <1>2, FS_Interval
<1>7. rank <= Cardinality(low)
  <2>1. Cardinality(1 .. rank) <= Cardinality(low)
    <3> HIDE DEF low
    <3>1. QED
      BY <1>4, <1>5, FS_Subset
  <2>2. QED
    BY <1>6, <2>1
<1> HIDE DEF low
<1>8. rank \in Nat /\ 100 * Cardinality(low) >= 100 * rank
  BY <1>1, <1>2, <1>5, <1>7
<1>9. 100 * Cardinality(low) >= 95 * N
  BY <1>1, <1>2, <1>5, <1>8
<1>10. QED
  BY <1>9 DEF low, N

\* The durations of the statistics are sorted.
LEMMA DurationsSorted ==
    ASSUME HistoryInv, NEW E \in SUBSET DOMAIN history
    PROVE  /\ Durations(E) \in Seq(Nat)
           /\ \A m, n \in DOMAIN Durations(E) :
                 m < n => Durations(E)[m] <= Durations(E)[n]
<1> DEFINE timed == {i \in E : Kind(i).took > 0}
           took == [i \in timed |-> Kind(i).took]
           Sorted(s) == \A m, n \in DOMAIN s :
                           m < n => Kind(s[m]).took <= Kind(s[n]).took
           order == CHOOSE s \in SetToSeqs(timed) : Sorted(s)
           N == Cardinality(timed)
<1>1. timed \in SUBSET DOMAIN history
  OBVIOUS
<1>2. IsFiniteSet(timed) /\ \A i \in timed : Kind(i) \in Kinds
  <2> HIDE DEF timed
  <2>1. QED
    BY <1>1, EntriesTyped
<1>3. \A i \in timed : took[i] = Kind(i).took /\ took[i] \in Nat
  <2> HIDE DEF timed
  <2>1. QED
    BY <1>2, StatsAssumption
<1>4. N \in Nat /\ SetToSeqs(timed) = Orders(N, timed)
  <2> HIDE DEF timed
  <2>1. QED
    BY <1>2, OrdersOfSet
<1>5. \E s \in SetToSeqs(timed) : Sorted(s)
  <2> HIDE DEF timed, took
  <2>1. PICK s \in SetToSeqs(timed) :
           \A m, n \in DOMAIN s : m < n => took[s[m]] <= took[s[n]]
    BY <1>2, <1>3, SortedOrder
  <2>2. \A m \in DOMAIN s : s[m] \in timed
    BY <1>4 DEF Orders
  <2>3. Sorted(s)
    BY <1>3, <2>1, <2>2
  <2>4. QED
    BY <2>3
<1>6. order \in Orders(N, timed) /\ Sorted(order)
  <2> HIDE DEF timed, Sorted
  <2>1. QED
    BY <1>4, <1>5
<1>7. Durations(E) = [n \in DOMAIN order |-> Kind(order[n]).took]
  BY DEF Durations
<1> HIDE DEF order, timed, N
<1>8. DOMAIN order = 1 .. N /\ \A n \in 1 .. N : Kind(order[n]).took \in Nat
  BY <1>3, <1>6 DEF Orders
<1>9. Durations(E) \in [1 .. N -> Nat]
  BY <1>7, <1>8
<1>10. Durations(E) \in Seq(Nat)
  BY <1>4, <1>9, SeqDef
<1>11. QED
  BY <1>6, <1>7, <1>8, <1>10

\* The chart never has more bars than fit, draws each request in the bar of
\* the time it started at, and at least 95 of 100 requests took no longer than
\* the p95 (stats.go:1154-1409, chart.go).
THEOREM StatsChartFits == Spec => []ChartFits
<1>1. ASSUME HistoryInv, page = Idle, NEW w \in Windows, Since(Cutoff(w)) # {}
      PROVE  LET E == Since(Cutoff(w))
                 bars == Buckets(E)
                 width == PickWidth(Span(E))
                 took == Durations(E)
             IN  /\ Cardinality(DOMAIN bars) <= MaxBars
                 /\ \A b \in DOMAIN bars : \A i \in bars[b].members :
                       /\ bars[b].from <= history[i].started
                       /\ history[i].started < bars[b].from + width
                 /\ took # <<>> =>
                       100 * Cardinality({n \in DOMAIN took :
                                             took[n] <= Percentile(took, 95)})
                          >= 95 * Len(took)
  <2> DEFINE E == Since(Cutoff(w))
             width == PickWidth(Span(E))
             bars == Buckets(E)
             num == NumBars(Span(E), width)
             took == Durations(E)
  <2>1. E \in SUBSET DOMAIN history /\ E # {}
    BY <1>1 DEF Since
  <2> HIDE DEF E
  <2>2. /\ width \in Nat \ {0} /\ num \in 1 .. MaxBars
        /\ DOMAIN bars = 0 .. num - 1
        /\ \A i \in E :
              /\ Bar(E)[i] \in DOMAIN bars
              /\ First(E) + Bar(E)[i] * width <= history[i].started
              /\ history[i].started < First(E) + Bar(E)[i] * width + width
    BY <1>1, <2>1, BarOfEntry
  <2>3. Cardinality(DOMAIN bars) <= MaxBars
    <3> HIDE DEF bars, num
    <3>1. num \in Int /\ 0 <= num - 1 /\ num - 1 \in Int /\ num <= MaxBars
      BY <2>2, ChartAssumption
    <3>2. Cardinality(0 .. num - 1) = ((num - 1) - 0) + 1
      BY <3>1, FS_Interval
    <3>3. QED
      BY <2>2, <3>1, <3>2
  <2>4. ASSUME NEW b \in DOMAIN bars, NEW i \in bars[b].members
        PROVE  /\ bars[b].from <= history[i].started
               /\ history[i].started < bars[b].from + width
    <3>1. /\ bars[b].from = First(E) + b * width
          /\ bars[b].members = {j \in E : Bar(E)[j] = b}
      BY <2>2 DEF Buckets, Bar
    <3> HIDE DEF bars, width
    <3>2. QED
      BY <2>2, <2>4, <3>1
  <2>5. took # <<>> =>
           100 * Cardinality({n \in DOMAIN took : took[n] <= Percentile(took, 95)})
              >= 95 * Len(took)
    <3>1. /\ took \in Seq(Nat)
          /\ \A m, n \in DOMAIN took : m < n => took[m] <= took[n]
      BY <1>1, <2>1, DurationsSorted
    <3> HIDE DEF took
    <3>2. QED
      BY <3>1, PercentileCovers
  <2>6. QED
    BY <2>3, <2>4, <2>5 DEF E
<1>2. HistoryInv => ChartFits
  BY <1>1 DEF ChartFits
<1>3. QED
  BY <1>2, HistoryInvariant, PTL

-----------------------------------------------------------------------------
(* The roll-ups: what holds while a page is loaded.                        *)

KeyTotals == [key : Keys, active : BOOLEAN, requests : Nat, errors : Nat]

UserTotals == [user : Users, balance : Int, last : Nat, requests : Nat,
               errors : Nat]

OwnerOf(i) == Owner[Kind(i).key]

Keyed(C) == {i \in C : Kind(i).key # NoKey}

Owned(C, u) == {i \in C : OwnerOf(i) = u}

\* The keys that requests were counted with are known.
KeysInv ==
    /\ issued \in SUBSET Keys /\ IsFiniteSet(issued)
    /\ \A i \in DOMAIN history : Kind(i).key \in issued \cup {NoKey}

\* The keys that were copied will be listed.
CopiedInv ==
    page.at = "copied" =>
       /\ page.copy \in SUBSET DOMAIN history
       /\ \A i \in Keyed(page.copy) : Kind(i).key \in Listed(page.owner)

\* Whoever had a request when the users were listed is either still to be
\* counted or has a row, with as many requests as it had then.
ListedInv ==
    page.at = "listed" =>
       /\ page = [at |-> "listed", cutoff |-> page.cutoff, todo |-> page.todo,
                  balance |-> page.balance, rows |-> page.rows,
                  due |-> page.due]
       /\ page.todo \in SUBSET Users
       /\ \A u \in page.todo : page.balance[u] \in Int
       /\ page.rows \in Seq(UserTotals)
       /\ \A m, n \in DOMAIN page.rows :
             page.rows[m].user = page.rows[n].user => m = n
       /\ \A n \in DOMAIN page.rows : page.rows[n].user \notin page.todo
       /\ page.due \in SUBSET Keyed(Since(page.cutoff))
       /\ \A i \in page.due :
             \/ OwnerOf(i) \in page.todo
             \/ \E n \in DOMAIN page.rows : page.rows[n].user = OwnerOf(i)
       /\ \A n \in DOMAIN page.rows :
             Cardinality(Owned(page.due, page.rows[n].user))
                <= page.rows[n].requests

\* What was copied stays in the history.
KeysPageInv == page.at = "keys" => page.copy \in SUBSET DOMAIN history

RollupInv ==
    KeysInv /\ CopiedInv /\ ListedInv /\ KeysPageInv /\ RollupsAddUp

-----------------------------------------------------------------------------
(* The rows of a roll-up.                                                  *)

\* Row n counts the requests of E that c takes to names[n], and no other row
\* does.
Counted(N, E, c, names, w) ==
    /\ \A m, n \in 1 .. N : names[m] = names[n] => m = n
    /\ \A i \in E : \E n \in 1 .. N : names[n] = c[i]
    /\ \A n \in 1 .. N : w[n] = Cardinality(Fiber(E, c, names[n]))

LEMMA RowsFinite == ASSUME NEW N \in Nat PROVE IsFiniteSet(1 .. N)
  BY FS_Interval

\* Where each request has one row, the counts of the rows add up.
LEMMA RowsCount ==
    ASSUME NEW N \in Nat, NEW E, IsFiniteSet(E), NEW c, NEW names, NEW w,
           Counted(N, E, c, names, w)
    PROVE  SumFunctionOnSet(w, 1 .. N) = Cardinality(E)
<1> DEFINE k == [i \in E |-> CHOOSE n \in 1 .. N : names[n] = c[i]]
<1>1. \A i \in E : k[i] \in 1 .. N /\ names[k[i]] = c[i]
  BY DEF Counted
<1> HIDE DEF k
<1>2. Fibers(E, k, 1 .. N) = E
  BY <1>1 DEF Fibers
<1>3. \A n \in 1 .. N : Fiber(E, k, n) = Fiber(E, c, names[n])
  BY <1>1 DEF Fiber, Counted
<1>4. \A n \in 1 .. N : w[n] = Cardinality(Fiber(E, k, n))
  BY <1>3 DEF Counted
<1>5. IsFiniteSet(1 .. N)
  BY RowsFinite
<1>6. SumFunctionOnSet(w, 1 .. N) = Cardinality(Fibers(E, k, 1 .. N))
  BY <1>4, <1>5, CountOfFibers
<1>7. QED
  BY <1>2, <1>6

\* The order of the page of the keys, and that of the users.
KeyBefore(r, s) ==
    /\ s.active => r.active
    /\ r.active = s.active => r.requests >= s.requests
    /\ r.active = s.active /\ r.requests = s.requests => r.key < s.key

UserBefore(r, s) ==
    /\ r.last >= s.last
    /\ r.last = s.last => r.balance >= s.balance
    /\ r.last = s.last /\ r.balance = s.balance => r.user < s.user

\* The rows are sorted by a strict order.
LEMMA KeysOrder ==
    /\ \A r, s \in KeyTotals :
          /\ KeysSwap(r, s) => ~KeysSwap(s, r)
          /\ ~KeysSwap(r, s) /\ r.key # s.key => KeyBefore(r, s)
    /\ \A r, s, z \in KeyTotals :
          KeysSwap(r, s) /\ KeysSwap(s, z) => KeysSwap(r, z)
<1>1. ASSUME NEW r \in KeyTotals
      PROVE  /\ r.active = TRUE \/ r.active = FALSE
             /\ r.requests \in Nat /\ r.key \in Nat
  BY StatsAssumption DEF KeyTotals
<1>2. \A r, s \in KeyTotals :
          /\ KeysSwap(r, s) => ~KeysSwap(s, r)
          /\ ~KeysSwap(r, s) /\ r.key # s.key => KeyBefore(r, s)
  <2> SUFFICES ASSUME NEW r \in KeyTotals, NEW s \in KeyTotals
               PROVE  /\ KeysSwap(r, s) => ~KeysSwap(s, r)
                      /\ ~KeysSwap(r, s) /\ r.key # s.key => KeyBefore(r, s)
    OBVIOUS
  <2>0. /\ r.requests \in Nat /\ r.key \in Nat
        /\ s.requests \in Nat /\ s.key \in Nat
    BY <1>1
  <2>1. CASE r.active = TRUE /\ s.active = TRUE
    BY <2>0, <2>1 DEF KeysSwap, KeyBefore
  <2>2. CASE r.active = TRUE /\ s.active = FALSE
    BY <2>0, <2>2 DEF KeysSwap, KeyBefore
  <2>3. CASE r.active = FALSE /\ s.active = TRUE
    BY <2>0, <2>3 DEF KeysSwap, KeyBefore
  <2>4. CASE r.active = FALSE /\ s.active = FALSE
    <3>1. r.active = s.active /\ ~r.active /\ ~s.active
      BY <2>4
    <3>2. /\ KeysSwap(r, s) <=> IF r.requests # s.requests
                                THEN r.requests < s.requests ELSE r.key > s.key
          /\ KeysSwap(s, r) <=> IF s.requests # r.requests
                                THEN s.requests < r.requests ELSE s.key > r.key
      BY <3>1, Zenon DEF KeysSwap
    <3>3. KeyBefore(r, s) <=>
             /\ r.requests >= s.requests
             /\ r.requests = s.requests => r.key < s.key
      BY <3>1, Zenon DEF KeyBefore
    <3>4. QED
      BY <2>0, <3>2, <3>3
  <2>5. QED
    BY <1>1, <2>1, <2>2, <2>3, <2>4
<1>3. \A r, s, z \in KeyTotals :
          KeysSwap(r, s) /\ KeysSwap(s, z) => KeysSwap(r, z)
  <2> SUFFICES ASSUME NEW r \in KeyTotals, NEW s \in KeyTotals,
                      NEW z \in KeyTotals, KeysSwap(r, s), KeysSwap(s, z)
               PROVE  KeysSwap(r, z)
    OBVIOUS
  <2>0. /\ r.requests \in Nat /\ r.key \in Nat
        /\ s.requests \in Nat /\ s.key \in Nat
        /\ z.requests \in Nat /\ z.key \in Nat
    BY <1>1
  <2>1. s.active = TRUE \/ s.active = FALSE
    BY <1>1
  <2>2. CASE r.active = TRUE /\ s.active = TRUE
    <3>1. CASE z.active = TRUE
      BY <2>0, <2>2, <3>1 DEF KeysSwap
    <3>2. CASE z.active = FALSE
      BY <2>0, <2>2, <3>2 DEF KeysSwap
    <3>3. QED
      BY <1>1, <3>1, <3>2
  <2>3. CASE r.active = TRUE /\ s.active = FALSE
    BY <2>3 DEF KeysSwap
  <2>4. CASE r.active = FALSE /\ s.active = TRUE
    <3>1. CASE z.active = TRUE
      BY <2>4, <3>1 DEF KeysSwap
    <3>2. CASE z.active = FALSE
      BY <2>4, <3>2 DEF KeysSwap
    <3>3. QED
      BY <1>1, <3>1, <3>2
  <2>5. CASE r.active = FALSE /\ s.active = FALSE
    <3>1. CASE z.active = TRUE
      BY <2>5, <3>1 DEF KeysSwap
    <3>2. CASE z.active = FALSE
      <4>1. /\ r.active = s.active /\ s.active = z.active
            /\ r.active = z.active
        BY <2>5, <3>2
      <4>2. /\ KeysSwap(r, s) <=> IF r.requests # s.requests
                                  THEN r.requests < s.requests
                                  ELSE r.key > s.key
            /\ KeysSwap(s, z) <=> IF s.requests # z.requests
                                  THEN s.requests < z.requests
                                  ELSE s.key > z.key
            /\ KeysSwap(r, z) <=> IF r.requests # z.requests
                                  THEN r.requests < z.requests
                                  ELSE r.key > z.key
        BY <4>1, Zenon DEF KeysSwap
      <4>3. QED
        BY <2>0, <4>2
    <3>3. QED
      BY <1>1, <3>1, <3>2
  <2>6. QED
    BY <1>1, <2>1, <2>2, <2>3, <2>4, <2>5
<1>4. QED
  BY <1>2, <1>3

LEMMA UsersOrder ==
    /\ \A r, s \in UserTotals :
          /\ UsersSwap(r, s) => ~UsersSwap(s, r)
          /\ ~UsersSwap(r, s) /\ r.user # s.user => UserBefore(r, s)
    /\ \A r, s, z \in UserTotals :
          UsersSwap(r, s) /\ UsersSwap(s, z) => UsersSwap(r, z)
<1>1. \A r \in UserTotals :
         r.last \in Int /\ r.balance \in Int /\ r.user \in Int
  <2>1. Users \subseteq Int
    BY StatsAssumption
  <2> SUFFICES ASSUME NEW r \in UserTotals
               PROVE  r.last \in Int /\ r.balance \in Int /\ r.user \in Int
    OBVIOUS
  <2>2. r.last \in Nat /\ r.balance \in Int /\ r.user \in Users
    BY DEF UserTotals
  <2>3. r.last \in Int
    BY <2>2
  <2>4. r.user \in Int
    BY <2>1, <2>2
  <2>5. QED
    BY <2>2, <2>3, <2>4
<1>2. QED
  BY <1>1 DEF UsersSwap, UserBefore

\* Both sorts are.
LEMMA BehindIsStrict ==
    ASSUME NEW N \in Nat, NEW S, NEW rows \in Orders(N, S)
    PROVE  /\ S \subseteq KeyTotals =>
                 /\ IsStrict(KeysBehind(rows), S)
                 /\ \A r, s \in S : <<r, s>> \in KeysBehind(rows)
                                       <=> KeysSwap(r, s)
           /\ S \subseteq UserTotals =>
                 /\ IsStrict(UsersBehind(rows), S)
                 /\ \A r, s \in S : <<r, s>> \in UsersBehind(rows)
                                       <=> UsersSwap(r, s)
<1>1. ToSet(rows) = S
  BY DEF Orders, ToSet
<1>2. ASSUME S \subseteq KeyTotals
      PROVE  /\ IsStrict(KeysBehind(rows), S)
             /\ \A r, s \in S : <<r, s>> \in KeysBehind(rows)
                                   <=> KeysSwap(r, s)
  <2> DEFINE behind == KeysBehind(rows)
  <2>1. \A r, s \in S : <<r, s>> \in behind <=> KeysSwap(r, s)
    BY <1>1 DEF KeysBehind
  <2> HIDE DEF behind
  <2>2. IsStrict(behind, S)
    BY <1>2, <2>1, KeysOrder DEF IsStrict
  <2>3. QED
    BY <2>1, <2>2 DEF behind
<1>3. ASSUME S \subseteq UserTotals
      PROVE  /\ IsStrict(UsersBehind(rows), S)
             /\ \A r, s \in S : <<r, s>> \in UsersBehind(rows)
                                   <=> UsersSwap(r, s)
  <2> DEFINE behind == UsersBehind(rows)
  <2>1. \A r, s \in S : <<r, s>> \in behind <=> UsersSwap(r, s)
    BY <1>1 DEF UsersBehind
  <2> HIDE DEF behind
  <2>2. IsStrict(behind, S)
    BY <1>3, <2>1, UsersOrder DEF IsStrict
  <2>3. QED
    BY <2>1, <2>2 DEF behind
<1>4. QED
  BY <1>2, <1>3

\* The rows of the keys, when they are sorted.
LEMMA KeysSorted ==
    ASSUME NEW N \in Nat, NEW S \in SUBSET KeyTotals, NEW rows \in Orders(N, S),
           \A r, s \in S : r.key = s.key => r = s
    PROVE  LET t == ExchangeSort(rows, KeysBehind(rows))
           IN  /\ t \in Orders(N, S)
               /\ \A m, n \in 1 .. N : m < n => KeyBefore(t[m], t[n])
<1> DEFINE behind == KeysBehind(rows)
           t == ExchangeSort(rows, behind)
<1>1. /\ IsStrict(behind, S)
      /\ \A r, s \in S : <<r, s>> \in behind <=> KeysSwap(r, s)
  BY BehindIsStrict
<1> HIDE DEF behind
<1>2. /\ t \in Orders(N, S)
      /\ \A m \in 1 .. N : \A n \in m + 1 .. N : <<t[m], t[n]>> \notin behind
  BY <1>1, SortProperties
<1> HIDE DEF t
<1>3. ASSUME NEW m \in 1 .. N, NEW n \in 1 .. N, m < n
      PROVE  KeyBefore(t[m], t[n])
  <2>1. n \in m + 1 .. N /\ m # n
    BY <1>3
  <2>2. t[m] \in S /\ t[n] \in S /\ t[m] # t[n]
    BY <1>2, <2>1 DEF Orders
  <2>3. ~KeysSwap(t[m], t[n]) /\ t[m].key # t[n].key
    BY <1>1, <1>2, <2>1, <2>2
  <2>4. QED
    BY <2>2, <2>3, KeysOrder
<1>4. QED
  BY <1>2, <1>3 DEF t, behind

LEMMA UsersSorted ==
    ASSUME NEW N \in Nat, NEW S \in SUBSET UserTotals, NEW rows \in Orders(N, S),
           \A r, s \in S : r.user = s.user => r = s
    PROVE  LET t == ExchangeSort(rows, UsersBehind(rows))
           IN  /\ t \in Orders(N, S)
               /\ \A m, n \in 1 .. N : m < n => UserBefore(t[m], t[n])
<1> DEFINE behind == UsersBehind(rows)
           t == ExchangeSort(rows, behind)
<1>1. /\ IsStrict(behind, S)
      /\ \A r, s \in S : <<r, s>> \in behind <=> UsersSwap(r, s)
  BY BehindIsStrict
<1> HIDE DEF behind
<1>2. /\ t \in Orders(N, S)
      /\ \A m \in 1 .. N : \A n \in m + 1 .. N : <<t[m], t[n]>> \notin behind
  BY <1>1, SortProperties
<1> HIDE DEF t
<1>3. ASSUME NEW m \in 1 .. N, NEW n \in 1 .. N, m < n
      PROVE  UserBefore(t[m], t[n])
  <2>1. n \in m + 1 .. N /\ m # n
    BY <1>3
  <2>2. t[m] \in S /\ t[n] \in S /\ t[m] # t[n]
    BY <1>2, <2>1 DEF Orders
  <2>3. ~UsersSwap(t[m], t[n]) /\ t[m].user # t[n].user
    BY <1>1, <1>2, <2>1, <2>2
  <2>4. QED
    BY <2>2, <2>3, UsersOrder
<1>4. QED
  BY <1>2, <1>3 DEF t, behind

\* The column of the requests of the rows t.
LEMMA RequestsColumn ==
    ASSUME NEW N \in Nat, NEW S, NEW t \in Orders(N, S)
    PROVE  LET w == [n \in 1 .. N |-> t[n].requests]
           IN  /\ SumOf(t, "requests") = SumFunctionOnSet(w, 1 .. N)
               /\ \A n \in 1 .. N : w[n] = t[n].requests
<1>1. DOMAIN t = 1 .. N
  BY DEF Orders
<1> DEFINE w == [n \in DOMAIN t |-> t[n]["requests"]]
<1>2. /\ SumOf(t, "requests") = SumFunctionOnSet(w, DOMAIN t)
      /\ \A x \in DOMAIN t : w[x] = t[x]["requests"]
  BY ColumnIsSum
<1>3. QED
  BY <1>1, <1>2

\* The page of the keys: every request of the copy is in the row of its key.
LEMMA KeysPage ==
    ASSUME HistoryInv, KeysInv, NEW owner, NEW C \in SUBSET DOMAIN history,
           \A i \in Keyed(C) : Kind(i).key \in Listed(owner),
           NEW order \in SetToSeqs(Listed(owner))
    PROVE  LET rows == [n \in DOMAIN order |-> KeyRow(order[n], C)]
               t == ExchangeSort(rows, KeysBehind(rows))
           IN  /\ SumOf(t, "requests") = Cardinality(Keyed(C))
               /\ \A m, n \in DOMAIN t : m < n => KeyBefore(t[m], t[n])
<1> DEFINE L == Listed(owner)
           N == Cardinality(L)
           S == {KeyRow(k, C) : k \in L}
           rows == [n \in DOMAIN order |-> KeyRow(order[n], C)]
           t == ExchangeSort(rows, KeysBehind(rows))
<1>1. IsFiniteSet(L) /\ L \subseteq Keys /\ NoKey \notin L
  <2>1. L \subseteq issued /\ IsFiniteSet(issued) /\ issued \subseteq Keys
    BY DEF Listed, KeysInv
  <2> HIDE DEF L
  <2>2. QED
    BY <2>1, FS_Subset, StatsAssumption
<1>2. N \in Nat /\ order \in Orders(N, L)
  <2> HIDE DEF L
  <2>1. QED
    BY <1>1, OrdersOfSet DEF L
<1>3. /\ DOMAIN order = 1 .. N /\ \A n \in 1 .. N : order[n] \in L
      /\ \A m, n \in 1 .. N : order[m] = order[n] => m = n
      /\ \A k \in L : \E n \in 1 .. N : order[n] = k
  BY <1>2 DEF Orders
<1> HIDE DEF L, N
<1>4. ASSUME NEW k \in L
      PROVE  /\ KeyRow(k, C) \in KeyTotals /\ KeyRow(k, C).key = k
             /\ KeyRow(k, C).requests = Cardinality(Group(C, "key", k))
  <2> DEFINE G == Group(C, "key", k)
  <2>1. G \in SUBSET DOMAIN history
    BY DEF Group
  <2>2. {i \in G : IsError(Kind(i))} \in SUBSET DOMAIN history
    BY <2>1
  <2> HIDE DEF G
  <2>3. Cardinality(G) \in Nat /\ Errors(G) \in Nat
    BY <2>1, <2>2, EntriesTyped DEF Errors
  <2>4. k \in Keys /\ (k \in active) \in BOOLEAN
    BY <1>1
  <2>5. KeyRow(k, C) = [key |-> k, active |-> k \in active,
                        requests |-> Cardinality(G), errors |-> Errors(G)]
    BY DEF KeyRow, G
  <2>6. QED
    BY <2>3, <2>4, <2>5 DEF KeyTotals, G
<1>5. S \in SUBSET KeyTotals /\ \A r, s \in S : r.key = s.key => r = s
  BY <1>4
<1>6. rows \in Orders(N, S)
  <2>1. DOMAIN rows = 1 .. N /\ \A n \in 1 .. N : rows[n] = KeyRow(order[n], C)
    BY <1>3
  <2>2. rows \in [1 .. N -> S]
    BY <1>3
  <2> HIDE DEF rows
  <2>3. \A m, n \in 1 .. N : rows[m] = rows[n] => m = n
    <3>1. \A n \in 1 .. N : rows[n].key = order[n]
      BY <1>3, <1>4, <2>1
    <3>2. QED
      BY <1>3, <3>1
  <2>4. \A r \in S : \E n \in 1 .. N : rows[n] = r
    BY <1>3, <2>1
  <2> HIDE DEF S
  <2>5. QED
    BY <2>2, <2>3, <2>4 DEF Orders
<1> HIDE DEF S, rows
<1>7. /\ t \in Orders(N, S)
      /\ \A m, n \in 1 .. N : m < n => KeyBefore(t[m], t[n])
  BY <1>2, <1>5, <1>6, KeysSorted
<1> HIDE DEF t
<1>8. /\ DOMAIN t = 1 .. N /\ \A n \in 1 .. N : t[n] \in S
      /\ \A m, n \in 1 .. N : t[m] = t[n] => m = n
      /\ \A r \in S : \E n \in 1 .. N : t[n] = r
  BY <1>7 DEF Orders
<1> DEFINE E == Keyed(C)
           c == [i \in E |-> Kind(i).key]
           names == [n \in 1 .. N |-> t[n].key]
           w == [n \in 1 .. N |-> t[n].requests]
<1>9. \A n \in 1 .. N : names[n] \in L /\ t[n] = KeyRow(names[n], C)
  BY <1>4, <1>8 DEF S
<1>10. \A m, n \in 1 .. N : names[m] = names[n] => m = n
  <2> HIDE DEF names
  <2>1. QED
    BY <1>8, <1>9
<1>11. ASSUME NEW i \in E PROVE \E n \in 1 .. N : names[n] = c[i]
  <2>1. c[i] \in L /\ KeyRow(c[i], C) \in S
    BY DEF L, S
  <2>2. PICK n \in 1 .. N : t[n] = KeyRow(c[i], C)
    BY <1>8, <2>1
  <2>3. names[n] = c[i]
    <3>1. KeyRow(c[i], C).key = c[i]
      BY <1>4, <2>1
    <3>2. names[n] = t[n].key
      OBVIOUS
    <3>3. QED
      BY <2>2, <3>1, <3>2
  <2>4. QED
    BY <2>3
<1>12. ASSUME NEW n \in 1 .. N PROVE w[n] = Cardinality(Fiber(E, c, names[n]))
  <2> DEFINE k == names[n]
  <2>1. k \in L /\ k # NoKey /\ t[n] = KeyRow(k, C)
    BY <1>1, <1>9
  <2> HIDE DEF names
  <2>2. w[n] = Cardinality(Group(C, "key", k))
    BY <1>4, <2>1
  <2>3. Group(C, "key", k) = Fiber(E, c, k)
    BY <2>1 DEF Group, Fiber, Keyed
  <2>4. QED
    BY <2>2, <2>3
<1>13. IsFiniteSet(E)
  <2>1. E \in SUBSET DOMAIN history
    BY DEF Keyed
  <2> HIDE DEF E
  <2>2. QED
    BY <2>1, EntriesTyped
<1>14. SumOf(t, "requests") = SumFunctionOnSet(w, 1 .. N)
  BY <1>2, <1>7, RequestsColumn
<1>15. SumFunctionOnSet(w, 1 .. N) = Cardinality(E)
  <2> HIDE DEF w, c, names, E
  <2>1. Counted(N, E, c, names, w)
    BY <1>10, <1>11, <1>12 DEF Counted
  <2>2. QED
    BY <1>2, <1>13, <2>1, RowsCount
<1>16. QED
  BY <1>7, <1>8, <1>14, <1>15 DEF t, rows

\* The page of the users, of rows that cover what is due.
LEMMA UsersPage ==
    ASSUME HistoryInv, NEW rows \in Seq(UserTotals),
           \A m, n \in DOMAIN rows : rows[m].user = rows[n].user => m = n,
           NEW due \in SUBSET DOMAIN history,
           \A i \in due : \E n \in DOMAIN rows : rows[n].user = OwnerOf(i),
           \A n \in DOMAIN rows :
              Cardinality(Owned(due, rows[n].user)) <= rows[n].requests
    PROVE  LET t == ExchangeSort(rows, UsersBehind(rows))
           IN  /\ SumOf(t, "requests") >= Cardinality(due)
               /\ \A m, n \in DOMAIN t : m < n => UserBefore(t[m], t[n])
<1> DEFINE N == Len(rows)
           S == {rows[n] : n \in 1 .. N}
           t == ExchangeSort(rows, UsersBehind(rows))
<1>1. N \in Nat /\ DOMAIN rows = 1 .. N /\ \A n \in 1 .. N : rows[n] \in UserTotals
  BY LenProperties
<1>2. rows \in Orders(N, S)
  <2>1. rows \in [1 .. N -> S]
    <3>1. rows \in [1 .. N -> UserTotals]
      BY LenProperties
    <3>2. QED
      BY <3>1
  <2> HIDE DEF N
  <2>2. \A m, n \in 1 .. N : rows[m] = rows[n] => m = n
    BY <1>1
  <2>3. \A r \in S : \E n \in 1 .. N : rows[n] = r
    OBVIOUS
  <2> HIDE DEF S
  <2>4. QED
    BY <2>1, <2>2, <2>3 DEF Orders
<1> HIDE DEF N
<1>3. S \in SUBSET UserTotals /\ \A r, s \in S : r.user = s.user => r = s
  BY <1>1
<1>4. \A i \in due : \E r \in S : r.user = OwnerOf(i)
  BY <1>1
<1>5. \A r \in S : Cardinality(Owned(due, r.user)) <= r.requests
  BY <1>1
<1> HIDE DEF S
<1>6. /\ t \in Orders(N, S)
      /\ \A m, n \in 1 .. N : m < n => UserBefore(t[m], t[n])
  BY <1>1, <1>2, <1>3, UsersSorted
<1> HIDE DEF t
<1>7. /\ DOMAIN t = 1 .. N /\ \A n \in 1 .. N : t[n] \in S
      /\ \A m, n \in 1 .. N : t[m] = t[n] => m = n
      /\ \A r \in S : \E n \in 1 .. N : t[n] = r
  BY <1>6 DEF Orders
<1> DEFINE c == [i \in due |-> OwnerOf(i)]
           names == [n \in 1 .. N |-> t[n].user]
           w == [n \in 1 .. N |-> t[n].requests]
           v == [n \in 1 .. N |-> Cardinality(Fiber(due, c, names[n]))]
<1>8. \A m, n \in 1 .. N : names[m] = names[n] => m = n
  BY <1>3, <1>7
<1>9. \A i \in due : \E n \in 1 .. N : names[n] = c[i]
  <2> SUFFICES ASSUME NEW i \in due PROVE \E n \in 1 .. N : names[n] = c[i]
    OBVIOUS
  <2>1. PICK r \in S : r.user = OwnerOf(i)
    BY <1>4
  <2>2. PICK n \in 1 .. N : t[n] = r
    BY <1>7
  <2>3. QED
    BY <2>1, <2>2
<1>10. \A n \in 1 .. N : v[n] = Cardinality(Fiber(due, c, names[n]))
  OBVIOUS
<1>11. IsFiniteSet(due)
  BY EntriesTyped
<1>12. SumFunctionOnSet(v, 1 .. N) = Cardinality(due)
  <2> HIDE DEF v, c, names
  <2>1. Counted(N, due, c, names, v)
    BY <1>8, <1>9, <1>10 DEF Counted
  <2>2. N \in Nat
    BY <1>1
  <2>3. QED
    BY <1>11, <2>1, <2>2, RowsCount
<1>13. ASSUME NEW n \in 1 .. N
       PROVE  v[n] \in Int /\ w[n] \in Int /\ v[n] <= w[n]
  <2>1. t[n] \in S /\ t[n] \in UserTotals
    BY <1>3, <1>7
  <2>2. Owned(due, t[n].user) = Fiber(due, c, names[n])
    BY DEF Owned, Fiber
  <2>3. Cardinality(Owned(due, t[n].user)) \in Nat
    <3> DEFINE G == Owned(due, t[n].user)
    <3>1. G \in SUBSET DOMAIN history
      BY DEF Owned
    <3> HIDE DEF G
    <3>2. QED
      BY <3>1, EntriesTyped DEF G
  <2>4. w[n] = t[n].requests /\ t[n].requests \in Nat
    BY <2>1 DEF UserTotals
  <2>5. v[n] = Cardinality(Owned(due, t[n].user))
    BY <2>2
  <2> HIDE DEF v, w
  <2>6. QED
    BY <1>5, <2>1, <2>3, <2>4, <2>5
<1>14. SumFunctionOnSet(v, 1 .. N) <= SumFunctionOnSet(w, 1 .. N)
  <2> HIDE DEF v, w
  <2>1. IsFiniteSet(1 .. N)
    BY <1>1, RowsFinite
  <2>2. QED
    BY <1>13, <2>1, SumMonotone
<1>15. SumOf(t, "requests") = SumFunctionOnSet(w, 1 .. N)
  BY <1>1, <1>6, RequestsColumn
<1>16. SumOf(t, "requests") >= Cardinality(due)
  <2>1. Cardinality(due) \in Int /\ SumFunctionOnSet(w, 1 .. N) \in Int
    <3> HIDE DEF w, v
    <3>1. IsFiniteSet(1 .. N)
      BY <1>1, RowsFinite
    <3>2. SumFunctionOnSet(w, 1 .. N) \in Int
      BY <1>13, <3>1, SumTyped
    <3>3. Cardinality(due) \in Nat
      BY EntriesTyped
    <3>4. QED
      BY <3>2, <3>3
  <2> HIDE DEF w, v
  <2>2. QED
    BY <1>12, <1>14, <1>15, <2>1
<1>17. QED
  BY <1>6, <1>7, <1>16 DEF t

\* Some element of a finite set is the greatest by k.
LEMMA Greatest ==
    ASSUME NEW S, IsFiniteSet(S), S # {}, NEW k, \A x \in S : k[x] \in Int
    PROVE  \E x \in S : \A y \in S : k[y] <= k[x]
<1> DEFINE N == Cardinality(S)
<1>1. N \in Nat /\ SetToSeqs(S) = Orders(N, S)
  BY OrdersOfSet
<1> HIDE DEF N
<1>2. PICK s \in SetToSeqs(S) :
         \A m, n \in DOMAIN s : m < n => k[s[m]] <= k[s[n]]
  BY SortedOrder
<1>3. /\ DOMAIN s = 1 .. N /\ \A n \in 1 .. N : s[n] \in S
      /\ \A x \in S : \E n \in 1 .. N : s[n] = x
  BY <1>1, <1>2 DEF Orders
<1>4. N \in 1 .. N /\ s[N] \in S
  BY <1>1, <1>3
<1>5. ASSUME NEW y \in S PROVE k[y] <= k[s[N]]
  <2>1. PICK n \in 1 .. N : s[n] = y
    BY <1>3
  <2>2. CASE n = N
    BY <1>4, <2>1, <2>2
  <2>3. CASE n # N
    <3>1. n < N /\ n \in DOMAIN s /\ N \in DOMAIN s
      BY <1>1, <1>3, <1>4, <2>3
    <3>2. QED
      BY <1>2, <2>1, <3>1
  <2>4. QED
    BY <2>2, <2>3
<1>6. QED
  BY <1>4, <1>5

LEMMA LastUsedTyped ==
    ASSUME HistoryInv, NEW G \in SUBSET DOMAIN history
    PROVE  LastUsed(G) \in Nat
<1>1. CASE G = {}
  BY <1>1 DEF LastUsed
<1>2. CASE G # {}
  <2> DEFINE k == [i \in G |-> history[i].started + Kind(i).took]
             S == {history[i].started + Kind(i).took : i \in G}
  <2>1. IsFiniteSet(G)
    BY EntriesTyped
  <2>2. ASSUME NEW i \in G PROVE k[i] \in Nat
    <3>1. Kind(i) \in Kinds /\ history[i].started \in 0 .. now /\ now \in Nat
      BY EntriesTyped DEF HistoryInv
    <3>2. history[i].started \in Nat /\ Kind(i).took \in Nat
      BY <3>1, StatsAssumption
    <3>3. QED
      BY <3>2
  <2>3. S = {k[i] : i \in G}
    OBVIOUS
  <2> HIDE DEF k
  <2>4. PICK x \in G : \A y \in G : k[y] <= k[x]
    BY <1>2, <2>1, <2>2, Greatest
  <2>5. k[x] \in Nat /\ S \in SUBSET (0 .. k[x]) /\ S # {}
    BY <1>2, <2>2, <2>3, <2>4
  <2>6. LastUsed(G) = Max(S)
    BY <1>2 DEF LastUsed
  <2> HIDE DEF S
  <2>7. Max(S) \in S
    BY <2>5, MaxOfNaturals
  <2>8. Max(S) \in Nat
    <3>1. S \subseteq Nat
      BY <2>5
    <3>2. QED
      BY <2>7, <3>1
  <2>9. QED
    BY <2>6, <2>8
<1>3. QED
  BY <1>1, <1>2

LEMMA UserRowTyped ==
    ASSUME HistoryInv, NEW u \in Users, NEW balance \in Int, NEW cutoff
    PROVE  /\ UserRow(u, balance, cutoff) \in UserTotals
           /\ UserRow(u, balance, cutoff).user = u
           /\ UserRow(u, balance, cutoff).requests
                 = Cardinality(UserEntries(u, cutoff))
<1> DEFINE G == UserEntries(u, cutoff)
<1>1. G \in SUBSET DOMAIN history
  BY DEF UserEntries, Since
<1> HIDE DEF G
<1>2. {i \in G : IsError(Kind(i))} \in SUBSET DOMAIN history
  BY <1>1
<1>3. Cardinality(G) \in Nat /\ Errors(G) \in Nat /\ LastUsed(G) \in Nat
  BY <1>1, <1>2, EntriesTyped, LastUsedTyped DEF Errors
<1>4. UserRow(u, balance, cutoff) =
         [user |-> u, balance |-> balance, last |-> LastUsed(G),
          requests |-> Cardinality(G), errors |-> Errors(G)]
  BY DEF UserRow, G
<1>5. QED
  BY <1>3, <1>4 DEF UserTotals, G

-----------------------------------------------------------------------------
(* The pages, step by step.                                                *)

\* A request that ends, a key that is issued or revoked and the time change
\* nothing of a page that is being loaded.
LEMMA PageKept ==
    ASSUME HistoryInv, RollupInv, page' = page,
           issued' \in SUBSET Keys, IsFiniteSet(issued'), issued \subseteq issued',
           DOMAIN history \subseteq DOMAIN history',
           \A i \in DOMAIN history : history'[i] = history[i],
           \A i \in DOMAIN history' :
              i \in DOMAIN history
                 \/ history'[i].kind.key \in issued \cup {NoKey}
    PROVE  RollupInv'
<1>1. \A i \in DOMAIN history : Kind(i)' = Kind(i) /\ OwnerOf(i)' = OwnerOf(i)
  BY DEF Kind, OwnerOf
<1>2. \A i \in DOMAIN history : Kind(i) = history[i].kind
  BY DEF Kind
<1>3. \A C \in SUBSET DOMAIN history :
         Keyed(C)' = Keyed(C) /\ \A u : Owned(C, u)' = Owned(C, u)
  BY <1>1 DEF Keyed, Owned
<1>4. KeysInv'
  <2>1. ASSUME NEW i \in DOMAIN history'
        PROVE  history'[i].kind.key \in issued' \cup {NoKey}
    <3>1. CASE i \in DOMAIN history
      <4>1. history[i].kind.key \in issued \cup {NoKey}
        BY <1>2, <3>1 DEF RollupInv, KeysInv
      <4>2. QED
        BY <3>1, <4>1
    <3>2. CASE i \notin DOMAIN history
      BY <2>1, <3>2
    <3>3. QED
      BY <3>1, <3>2
  <2>2. QED
    BY <2>1 DEF KeysInv, Kind
<1>5. CopiedInv'
  <2> SUFFICES ASSUME page.at = "copied"
               PROVE  /\ page.copy \in SUBSET DOMAIN history'
                      /\ \A i \in Keyed(page.copy)' :
                            Kind(i)'.key \in Listed(page.owner)'
    BY DEF CopiedInv
  <2>1. /\ page.copy \in SUBSET DOMAIN history
        /\ \A i \in Keyed(page.copy) : Kind(i).key \in Listed(page.owner)
    BY DEF RollupInv, CopiedInv
  <2>2. Listed(page.owner) \subseteq Listed(page.owner)'
    BY DEF Listed
  <2>3. Keyed(page.copy)' = Keyed(page.copy)
        /\ \A i \in Keyed(page.copy) : Kind(i)' = Kind(i)
    BY <1>1, <1>3, <2>1 DEF Keyed
  <2>4. QED
    BY <2>1, <2>2, <2>3
<1>6. ListedInv'
  <2> SUFFICES ASSUME page.at = "listed" PROVE ListedInv'
    BY DEF ListedInv
  <2>1. page.due \in SUBSET DOMAIN history /\ ListedInv
    BY DEF RollupInv, ListedInv, Keyed, Since
  <2>2. Keyed(Since(page.cutoff)) \subseteq Keyed(Since(page.cutoff))'
    <3>1. ASSUME NEW i \in Keyed(Since(page.cutoff))
          PROVE  /\ i \in DOMAIN history'
                 /\ history'[i].started >= page.cutoff
                 /\ Kind(i)'.key # NoKey
      BY <1>1 DEF Keyed, Since
    <3>2. QED
      BY <3>1 DEF Keyed, Since
  <2>3. \A u : Owned(page.due, u)' = Owned(page.due, u)
    BY <1>3, <2>1
  <2>4. \A i \in page.due : OwnerOf(i)' = OwnerOf(i)
    BY <1>1, <2>1
  <2>5. QED
    BY <2>1, <2>2, <2>3, <2>4 DEF ListedInv
<1>7. KeysPageInv'
  BY DEF RollupInv, KeysPageInv
<1>8. RollupsAddUp'
  <2>1. RowsAreRanked'
    BY DEF RollupInv, RollupsAddUp, RowsAreRanked
  <2>2. CASE page.at = "keys"
    <3>1. page.copy \in SUBSET DOMAIN history
          /\ SumOf(page.rows, "requests") = Cardinality(Keyed(page.copy))
      BY <2>2 DEF RollupInv, KeysPageInv, RollupsAddUp, RollupsCoverHistory,
                  Keyed
    <3>2. Keyed(page.copy)' = Keyed(page.copy)
      BY <1>3, <3>1
    <3>3. SumOf(page.rows, "requests")' = Cardinality(Keyed(page.copy)')
      BY <3>1, <3>2
    <3>4. QED
      BY <2>1, <2>2, <3>3 DEF RollupsAddUp, RollupsCoverHistory, Keyed
  <2>3. CASE page.at # "keys"
    BY <2>1, <2>3 DEF RollupInv, RollupsAddUp, RollupsCoverHistory
  <2>4. QED
    BY <2>2, <2>3
<1>9. QED
  BY <1>4, <1>5, <1>6, <1>7, <1>8 DEF RollupInv

\* A page of the users counts one user after the other.
LEMMA CountUserKeeps ==
    ASSUME HistoryInv, RollupInv, CountUser
    PROVE  ListedInv'
<1>1. PICK u \in page.todo :
         page' = [page EXCEPT !.todo = @ \ {u},
                              !.rows = Append(@, UserRow(u, page.balance[u],
                                                         page.cutoff))]
  BY DEF CountUser
<1> DEFINE row == UserRow(u, page.balance[u], page.cutoff)
           rows == Append(page.rows, row)
           N == Len(page.rows)
<1>2. page.at = "listed" /\ UNCHANGED history
  BY DEF CountUser
<1>3. ListedInv
  BY DEF RollupInv
<1>4. page = [at |-> "listed", cutoff |-> page.cutoff, todo |-> page.todo,
              balance |-> page.balance, rows |-> page.rows, due |-> page.due]
  BY <1>2, <1>3 DEF ListedInv
<1>5. page' = [at |-> "listed", cutoff |-> page.cutoff,
               todo |-> page.todo \ {u}, balance |-> page.balance,
               rows |-> rows, due |-> page.due]
  <2> DEFINE cutoff == page.cutoff
             todo == page.todo
             balance == page.balance
             before == page.rows
             due == page.due
  <2>1. page' = [page EXCEPT !.todo = page.todo \ {u}, !.rows = rows]
    BY <1>1
  <2>2. page = [at |-> "listed", cutoff |-> cutoff, todo |-> todo,
                balance |-> balance, rows |-> before, due |-> due]
    BY <1>4
  <2> HIDE DEF rows, cutoff, balance, before, due
  <2>3. page' = [page EXCEPT !.todo = todo \ {u}, !.rows = rows]
    BY <2>1
  <2> HIDE DEF todo
  <2>4. page' = [at |-> "listed", cutoff |-> cutoff, todo |-> todo \ {u},
                 balance |-> balance, rows |-> rows, due |-> due]
    BY <2>2, <2>3
  <2>5. QED
    BY <2>4 DEF cutoff, todo, balance, due
<1>6. /\ u \in Users /\ page.balance[u] \in Int
      /\ page.todo \in SUBSET Users
      /\ \A v \in page.todo : page.balance[v] \in Int
      /\ page.rows \in Seq(UserTotals)
  BY <1>1, <1>2, <1>3 DEF ListedInv
<1>7. /\ row \in UserTotals /\ row.user = u
      /\ row.requests = Cardinality(UserEntries(u, page.cutoff))
  BY <1>6, UserRowTyped
<1> HIDE DEF row
<1>8. /\ rows \in Seq(UserTotals) /\ N \in Nat /\ DOMAIN page.rows = 1 .. N
      /\ DOMAIN rows = 1 .. N + 1 /\ rows[N + 1] = row
      /\ \A n \in 1 .. N : rows[n] = page.rows[n]
  BY <1>6, <1>7, AppendProperties, LenProperties
<1>9. /\ page'.at = "listed" /\ page'.cutoff = page.cutoff
      /\ page'.todo = page.todo \ {u} /\ page'.balance = page.balance
      /\ page'.rows = rows /\ page'.due = page.due
  BY <1>5
<1> HIDE DEF rows, N
<1>10. /\ \A m, n \in 1 .. N :
             page.rows[m].user = page.rows[n].user => m = n
       /\ \A n \in 1 .. N : page.rows[n].user \notin page.todo
       /\ page.due \in SUBSET Keyed(Since(page.cutoff))
       /\ \A i \in page.due :
             \/ OwnerOf(i) \in page.todo
             \/ \E n \in 1 .. N : page.rows[n].user = OwnerOf(i)
       /\ \A n \in 1 .. N :
             Cardinality(Owned(page.due, page.rows[n].user))
                <= page.rows[n].requests
  BY <1>2, <1>3, <1>8 DEF ListedInv
<1>11. \A n \in 1 .. N + 1 : n \in 1 .. N \/ n = N + 1
  BY <1>8
<1>12. \A n \in 1 .. N : n \in 1 .. N + 1 /\ n # N + 1
  BY <1>8
<1>13. N + 1 \in 1 .. N + 1
  BY <1>8
<1>14. \A m, n \in 1 .. N + 1 : rows[m].user = rows[n].user => m = n
  <2> SUFFICES ASSUME NEW m \in 1 .. N + 1, NEW n \in 1 .. N + 1,
                      rows[m].user = rows[n].user
               PROVE  m = n
    OBVIOUS
  <2>1. \A k \in 1 .. N : rows[k].user # u
    BY <1>1, <1>8, <1>10
  <2>2. rows[N + 1].user = u
    BY <1>7, <1>8
  <2>3. CASE m \in 1 .. N /\ n \in 1 .. N
    BY <1>8, <1>10, <2>3
  <2>4. QED
    BY <1>11, <2>1, <2>2, <2>3
<1>15. \A n \in 1 .. N + 1 : rows[n].user \notin page.todo \ {u}
  BY <1>7, <1>8, <1>10, <1>11
<1>16. \A i \in page.due :
          \/ OwnerOf(i) \in page.todo \ {u}
          \/ \E n \in 1 .. N + 1 : rows[n].user = OwnerOf(i)
  <2> SUFFICES ASSUME NEW i \in page.due,
                      OwnerOf(i) \notin page.todo \ {u}
               PROVE  \E n \in 1 .. N + 1 : rows[n].user = OwnerOf(i)
    OBVIOUS
  <2>1. CASE OwnerOf(i) = u
    BY <1>7, <1>8, <1>13, <2>1
  <2>2. CASE OwnerOf(i) # u
    <3>1. PICK n \in 1 .. N : page.rows[n].user = OwnerOf(i)
      BY <1>10, <2>2
    <3>2. n \in 1 .. N + 1 /\ rows[n].user = OwnerOf(i)
      BY <1>8, <1>12, <3>1
    <3>3. QED
      BY <3>2
  <2>3. QED
    BY <2>1, <2>2
<1>17. \A n \in 1 .. N + 1 :
          Cardinality(Owned(page.due, rows[n].user)) <= rows[n].requests
  <2>1. Cardinality(Owned(page.due, u)) <= row.requests
    <3> DEFINE G == UserEntries(u, page.cutoff)
               D == Owned(page.due, u)
    <3>1. D \subseteq G /\ G \in SUBSET DOMAIN history
      BY <1>10 DEF Owned, OwnerOf, Keyed, Since, UserEntries
    <3> HIDE DEF D, G
    <3>2. IsFiniteSet(G)
      BY <3>1, EntriesTyped
    <3>3. Cardinality(D) <= Cardinality(G)
      BY <3>1, <3>2, FS_Subset
    <3>4. QED
      BY <1>7, <3>3 DEF D, G
  <2> SUFFICES ASSUME NEW n \in 1 .. N + 1
               PROVE  Cardinality(Owned(page.due, rows[n].user))
                         <= rows[n].requests
    OBVIOUS
  <2>2. CASE n = N + 1
    <3>1. rows[n] = row /\ rows[n].user = u
      BY <1>7, <1>8, <2>2
    <3>2. QED
      BY <2>1, <3>1
  <2>3. CASE n \in 1 .. N
    <3>1. rows[n] = page.rows[n]
      BY <1>8, <2>3
    <3>2. Cardinality(Owned(page.due, page.rows[n].user))
             <= page.rows[n].requests
      BY <1>10, <2>3
    <3>3. QED
      BY <3>1, <3>2
  <2>4. QED
    BY <1>11, <2>2, <2>3
<1>18. /\ \A i : OwnerOf(i)' = OwnerOf(i)
       /\ Keyed(Since(page.cutoff))' = {i \in DOMAIN history :
             history[i].started >= page'.cutoff /\ Kind(i).key # NoKey}
  BY <1>2 DEF OwnerOf, Kind, Keyed, Since
<1>19. Keyed(Since(page.cutoff))' = Keyed(Since(page.cutoff))
  BY <1>9, <1>18 DEF Keyed, Since
<1>20. \A v : Owned(page.due, v)' = Owned(page.due, v)
  BY <1>9, <1>18 DEF Owned
<1>21. /\ page' = [at |-> "listed", cutoff |-> page'.cutoff,
                   todo |-> page'.todo, balance |-> page'.balance,
                   rows |-> page'.rows, due |-> page'.due]
       /\ page'.todo \in SUBSET Users
       /\ \A v \in page'.todo : page'.balance[v] \in Int
       /\ page'.rows \in Seq(UserTotals)
  BY <1>5, <1>6, <1>8, <1>9
<1>22. /\ \A m, n \in DOMAIN page'.rows :
             page'.rows[m].user = page'.rows[n].user => m = n
       /\ \A n \in DOMAIN page'.rows : page'.rows[n].user \notin page'.todo
       /\ page'.due \in SUBSET (Keyed(Since(page.cutoff))')
       /\ \A i \in page'.due :
             \/ OwnerOf(i)' \in page'.todo
             \/ \E n \in DOMAIN page'.rows : page'.rows[n].user = OwnerOf(i)'
  BY <1>8, <1>9, <1>10, <1>14, <1>15, <1>16, <1>18, <1>19
<1>23. \A n \in DOMAIN page'.rows :
          Cardinality(Owned(page.due, page.rows[n].user)')
             <= page'.rows[n].requests
  BY <1>8, <1>9, <1>17, <1>20
<1>24. QED
  BY <1>21, <1>22, <1>23 DEF ListedInv

\* The keys are listed, and the users sorted.
LEMMA ListKeysRight ==
    ASSUME HistoryInv, RollupInv, ListKeys
    PROVE  KeysPageInv' /\ RollupsAddUp'
<1>1. PICK order \in SetToSeqs(Listed(page.owner)) :
         LET rows == [n \in DOMAIN order |-> KeyRow(order[n], page.copy)]
         IN  page' = [at |-> "keys", owner |-> page.owner, copy |-> page.copy,
                      rows |-> ExchangeSort(rows, KeysBehind(rows))]
  BY DEF ListKeys
<1> DEFINE rows == [n \in DOMAIN order |-> KeyRow(order[n], page.copy)]
           t == ExchangeSort(rows, KeysBehind(rows))
<1>2. page.at = "copied" /\ UNCHANGED history
  BY DEF ListKeys
<1>3. /\ page.copy \in SUBSET DOMAIN history
      /\ \A i \in Keyed(page.copy) : Kind(i).key \in Listed(page.owner)
  BY <1>2 DEF RollupInv, CopiedInv
<1>4. /\ SumOf(t, "requests") = Cardinality(Keyed(page.copy))
      /\ \A m, n \in DOMAIN t : m < n => KeyBefore(t[m], t[n])
  BY <1>1, <1>3, KeysPage DEF RollupInv
<1> HIDE DEF t
<1>5. page'.at = "keys" /\ page'.copy = page.copy /\ page'.rows = t
  BY <1>1 DEF t
<1>6. KeysPageInv'
  BY <1>2, <1>3, <1>5 DEF KeysPageInv
<1>7. RowsAreRanked'
  BY <1>4, <1>5 DEF RowsAreRanked, KeyBefore
<1>8. Keyed(page.copy) = {i \in page'.copy : Kind(i)'.key # NoKey}
  BY <1>2, <1>5 DEF Keyed, Kind
<1>9. RollupsCoverHistory'
  BY <1>4, <1>5, <1>8 DEF RollupsCoverHistory
<1>10. QED
  BY <1>6, <1>7, <1>9 DEF RollupsAddUp

LEMMA SortUsersRight ==
    ASSUME HistoryInv, RollupInv, SortUsers
    PROVE  RollupsAddUp'
<1> DEFINE t == ExchangeSort(page.rows, UsersBehind(page.rows))
<1>1. page.at = "listed" /\ page.todo = {}
  BY DEF SortUsers
<1>2. page' = [at |-> "users", due |-> page.due, rows |-> t]
  BY DEF SortUsers
<1>3. /\ page.rows \in Seq(UserTotals)
      /\ \A m, n \in DOMAIN page.rows :
            page.rows[m].user = page.rows[n].user => m = n
      /\ page.due \in SUBSET DOMAIN history
      /\ \A i \in page.due :
            \E n \in DOMAIN page.rows : page.rows[n].user = OwnerOf(i)
      /\ \A n \in DOMAIN page.rows :
            Cardinality(Owned(page.due, page.rows[n].user))
               <= page.rows[n].requests
  BY <1>1 DEF RollupInv, ListedInv, Keyed, Since
<1>4. /\ SumOf(t, "requests") >= Cardinality(page.due)
      /\ \A m, n \in DOMAIN t : m < n => UserBefore(t[m], t[n])
  BY <1>3, UsersPage
<1> HIDE DEF t
<1>5. page'.at = "users" /\ page'.due = page.due /\ page'.rows = t
  BY <1>2
<1>6. RowsAreRanked'
  BY <1>4, <1>5 DEF RowsAreRanked, UserBefore
<1>7. RollupsCoverHistory'
  BY <1>4, <1>5 DEF RollupsCoverHistory
<1>8. QED
  BY <1>6, <1>7 DEF RollupsAddUp

\* The pages of the keys and of the users miss no request that was counted in
\* time, although keys are issued and requests end while a page is loaded, and
\* show their rows in their order (payments.go:136-232, 334-450).
THEOREM StatsRollupsAddUp == Spec => []RollupsAddUp
<1>1. Init => RollupInv
  <2> SUFFICES ASSUME Init PROVE RollupInv
    OBVIOUS
  <2>1. history = <<>> /\ issued = Early /\ page.at = "idle"
    BY DEF Init, Idle
  <2>2. KeysInv
    <3>1. DOMAIN history = {}
      BY <2>1
    <3>2. issued \in SUBSET Keys /\ IsFiniteSet(issued)
      BY <2>1, StatsAssumption
    <3>3. QED
      BY <3>1, <3>2 DEF KeysInv
  <2>3. QED
    BY <2>1, <2>2 DEF RollupInv, CopiedInv, ListedInv, KeysPageInv,
                      RollupsAddUp, RollupsCoverHistory, RowsAreRanked
<1>2. HistoryInv /\ RollupInv /\ [Next]_vars => RollupInv'
  <2> SUFFICES ASSUME HistoryInv, RollupInv, [Next]_vars PROVE RollupInv'
    OBVIOUS
  <2> USE DEF RollupInv
  <2>1. /\ issued \in SUBSET Keys /\ IsFiniteSet(issued)
        /\ \A i \in DOMAIN history : Kind(i).key \in issued \cup {NoKey}
    BY DEF KeysInv
  <2>2. UNCHANGED <<history, issued>> => KeysInv'
    BY DEF KeysInv, Kind
  <2>3. CASE Tick \/ UNCHANGED vars
    <3>1. UNCHANGED <<history, issued, page>>
      BY <2>3 DEF Tick, vars
    <3>2. QED
      BY <2>1, <3>1, PageKept
  <2>4. ASSUME NEW kind \in Kinds, NEW t \in Times, Count(kind, t)
        PROVE  RollupInv'
    <3>1. /\ kind.key \in issued \cup {NoKey} /\ UNCHANGED <<issued, page>>
          /\ history' = Append(history, [kind |-> kind, started |-> t])
      BY <2>4 DEF Count
    <3>2. history \in Seq(Entries) /\ [kind |-> kind, started |-> t] \in Entries
      BY StatsAssumption DEF HistoryInv, Entries
    <3>3. /\ DOMAIN history = 1 .. Len(history) /\ Len(history) \in Nat
          /\ DOMAIN history' = 1 .. Len(history) + 1
          /\ \A i \in 1 .. Len(history) : history'[i] = history[i]
          /\ history'[Len(history) + 1] = [kind |-> kind, started |-> t]
      BY <3>1, <3>2, AppendProperties, LenProperties
    <3>4. /\ DOMAIN history \subseteq DOMAIN history'
          /\ \A i \in DOMAIN history : history'[i] = history[i]
      BY <3>3
    <3>5. \A i \in DOMAIN history' :
             i \in DOMAIN history
                \/ history'[i].kind.key \in issued \cup {NoKey}
      <4>1. \A i \in DOMAIN history' :
               i \in DOMAIN history \/ i = Len(history) + 1
        BY <3>3
      <4>2. history'[Len(history) + 1].kind = kind
        BY <3>3
      <4>3. QED
        BY <3>1, <4>1, <4>2
    <3>6. QED
      BY <2>1, <3>1, <3>4, <3>5, PageKept
  <2>5. ASSUME NEW k \in Keys, IssueKey(k) PROVE RollupInv'
    <3>1. UNCHANGED <<history, page>> /\ issued' = issued \cup {k}
      BY <2>5 DEF IssueKey
    <3>2. issued' \in SUBSET Keys /\ issued \subseteq issued'
      BY <2>1, <3>1
    <3>3. IsFiniteSet(issued')
      BY <2>1, <3>1, FS_AddElement
    <3>4. QED
      BY <3>1, <3>2, <3>3, PageKept
  <2>6. ASSUME NEW k \in Keys, RevokeKey(k) PROVE RollupInv'
    <3>1. UNCHANGED <<history, issued, page>>
      BY <2>6 DEF RevokeKey
    <3>2. QED
      BY <2>1, <3>1, PageKept
  <2>7. ASSUME NEW w \in Windows, ListUsers(w) PROVE RollupInv'
    <3>1. UNCHANGED <<now, history, issued>>
      BY <2>7 DEF ListUsers
    <3>2. PICK balance \in [Registered -> Balances] :
             page' = [at |-> "listed", cutoff |-> Cutoff(w),
                      todo |-> Registered, balance |-> balance, rows |-> <<>>,
                      due |-> {i \in Since(Cutoff(w)) : Kind(i).key # NoKey}]
      BY <2>7 DEF ListUsers
    <3> DEFINE due == {i \in Since(Cutoff(w)) : Kind(i).key # NoKey}
               cutoff == Cutoff(w)
    <3>3. /\ page'.at = "listed" /\ page'.cutoff = cutoff
          /\ page'.todo = Registered /\ page'.balance = balance
          /\ page'.rows = <<>> /\ page'.due = due
          /\ page' = [at |-> "listed", cutoff |-> page'.cutoff,
                      todo |-> page'.todo, balance |-> page'.balance,
                      rows |-> page'.rows, due |-> page'.due]
      BY <3>2
    <3> HIDE DEF cutoff
    <3>4. /\ Registered \subseteq Users
          /\ \A u \in Registered : balance[u] \in Int
      BY <2>1, StatsAssumption DEF Registered
    <3>5. \A i \in due : OwnerOf(i)' \in Registered
      BY <2>1, <3>1 DEF OwnerOf, Kind, Since, Registered, cutoff
    <3>6. Keyed(Since(page.cutoff))' = due
      BY <3>1, <3>3 DEF Keyed, Since, Kind, cutoff
    <3>7. page'.rows \in Seq(UserTotals) /\ DOMAIN page'.rows = {}
      BY <3>3, EmptySeq
    <3>8. ListedInv'
      BY <3>3, <3>4, <3>5, <3>6, <3>7 DEF ListedInv
    <3>9. QED
      BY <2>2, <3>1, <3>3, <3>8 DEF CopiedInv, KeysPageInv, RollupsAddUp,
                                    RollupsCoverHistory, RowsAreRanked
  <2>8. ASSUME NEW w \in Windows, NEW owner \in Users \cup {Anyone},
               CopyHistory(w, owner)
        PROVE  RollupInv'
    <3> DEFINE copy == {i \in Since(Cutoff(w)) :
                           owner = Anyone
                           \/ /\ Kind(i).key # NoKey
                              /\ Owner[Kind(i).key] = owner}
    <3>1. UNCHANGED <<now, history, issued>>
      BY <2>8 DEF CopyHistory
    <3>2. page'.at = "copied" /\ page'.owner = owner /\ page'.copy = copy
      BY <2>8 DEF CopyHistory
    <3>3. copy \in SUBSET DOMAIN history
      BY DEF Since
    <3>4. ASSUME NEW i \in copy, Kind(i).key # NoKey
          PROVE  Kind(i).key \in Listed(owner)
      <4>1. Kind(i).key \in issued
        BY <2>1, <3>3, <3>4
      <4>2. owner \in Users => Owner[Kind(i).key] = owner
        BY <3>4, StatsAssumption
      <4>3. QED
        BY <4>1, <4>2 DEF Listed
    <3> HIDE DEF copy
    <3>5. \A i \in Keyed(page.copy)' : i \in copy /\ Kind(i).key # NoKey
      BY <3>1, <3>2 DEF Keyed, Kind
    <3>6. Listed(page.owner)' = Listed(owner)
      BY <3>1, <3>2 DEF Listed
    <3>7. \A i : Kind(i)' = Kind(i)
      BY <3>1 DEF Kind
    <3>8. CopiedInv'
      BY <3>1, <3>2, <3>3, <3>4, <3>5, <3>6, <3>7 DEF CopiedInv
    <3>9. QED
      BY <2>2, <3>1, <3>2, <3>8 DEF ListedInv, KeysPageInv, RollupsAddUp,
                                    RollupsCoverHistory, RowsAreRanked
  <2>9. CASE ListKeys
    <3>1. UNCHANGED <<history, issued>> /\ page'.at = "keys"
      BY <2>9 DEF ListKeys
    <3>2. KeysPageInv' /\ RollupsAddUp'
      BY <2>9, ListKeysRight
    <3>3. QED
      BY <2>2, <3>1, <3>2 DEF CopiedInv, ListedInv
  <2>10. CASE CountUser
    <3>1. UNCHANGED <<history, issued>> /\ page.at = "listed"
      BY <2>10 DEF CountUser
    <3>2. ListedInv'
      BY <2>10, CountUserKeeps
    <3>3. page'.at = "listed"
      <4>1. page = [at |-> "listed", cutoff |-> page.cutoff,
                    todo |-> page.todo, balance |-> page.balance,
                    rows |-> page.rows, due |-> page.due]
        BY <3>1 DEF ListedInv
      <4>2. "at" \in DOMAIN page
        BY <4>1
      <4>3. PICK u \in page.todo :
               page' = [page EXCEPT !.todo = @ \ {u},
                                    !.rows = Append(@, UserRow(u, page.balance[u],
                                                               page.cutoff))]
        BY <2>10 DEF CountUser
      <4>4. page'.at = page.at
        BY <4>2, <4>3
      <4>5. QED
        BY <3>1, <4>4
    <3>4. QED
      BY <2>2, <3>1, <3>2, <3>3 DEF CopiedInv, KeysPageInv, RollupsAddUp,
                                    RollupsCoverHistory, RowsAreRanked
  <2>11. CASE SortUsers
    <3>1. UNCHANGED <<history, issued>> /\ page'.at = "users"
      BY <2>11 DEF SortUsers
    <3>2. RollupsAddUp'
      BY <2>11, SortUsersRight
    <3>3. QED
      BY <2>2, <3>1, <3>2 DEF CopiedInv, ListedInv, KeysPageInv
  <2>12. CASE Answered
    <3>1. UNCHANGED <<history, issued>> /\ page'.at = "idle"
      BY <2>12 DEF Answered, Idle
    <3>2. QED
      BY <2>2, <3>1 DEF CopiedInv, ListedInv, KeysPageInv, RollupsAddUp,
                        RollupsCoverHistory, RowsAreRanked
  <2>13. QED
    BY <2>3, <2>4, <2>5, <2>6, <2>7, <2>8, <2>9, <2>10, <2>11, <2>12 DEF Next
<1>3. RollupInv => RollupsAddUp
  BY DEF RollupInv
<1>4. QED
  BY <1>1, <1>2, <1>3, HistoryInvariant, PTL DEF Spec
=============================================================================
