----------------------------- MODULE UsageProofs -----------------------------
(***************************************************************************)
(* What holds of Usage for every answer, however long and however it is    *)
(* cut into chunks, every buffer that is larger than an object and a       *)
(* chunk, and every price table.                                           *)
(*                                                                         *)
(* None of it is inductive as it stands: what the scanner will count next  *)
(* depends on the bytes it kept and on the place in the answer it goes on  *)
(* from.  The invariant has two parts.                                     *)
(*                                                                         *)
(*  - BufInv: the buffer holds the last bytes that arrived, and is full if *)
(*    any were dropped.                                                    *)
(*  - ScanInv: the scanner rests behind the last byte, just before it, or  *)
(*    at the key of a piece that has not ended.  What it counted is the    *)
(*    most that some set of ended pieces reports; unless a key was split,  *)
(*    every piece with a key before the place is in that set.              *)
(*                                                                         *)
(* That a chunk keeps it is shown in three parts: where the pieces of an   *)
(* answer begin and which bytes of them are kept; what findUsageKey,       *)
(* valueAfterKey and balancedObject return for a piece that was kept from  *)
(* its key on, and for one that has lost its beginning; and what a scan    *)
(* leaves behind (ScanOutcome), by induction over the bytes that are left. *)
(***************************************************************************)
EXTENDS Usage, FiniteSetTheorems, SequenceTheorems, WellFoundedInduction, TLAPS

-----------------------------------------------------------------------------
(* Induction, and the ends of a set of numbers.                            *)

\* Induction on numbers, about a set of them.
LEMMA SetOfNaturals ==
    ASSUME NEW T, 0 \in T, \A n \in Nat : n \in T => n + 1 \in T
    PROVE  Nat \subseteq T
<1> DEFINE Rest == Nat \ T
<1>1. SUFFICES ASSUME Rest # {} PROVE FALSE
  OBVIOUS
<1>2. PICK n \in Rest : \A m \in Rest : ~(<<m, n>> \in OpToRel(<, Nat))
  <2>1. Rest \subseteq Nat
    OBVIOUS
  <2> HIDE DEF Rest
  <2>2. QED
    BY <1>1, <2>1, NatLessThanWellFounded, WFMin
<1>3. n \in Nat /\ n # 0 /\ n - 1 \in Nat /\ n - 1 < n
  OBVIOUS
<1>4. n - 1 \notin Rest
  BY <1>2, <1>3 DEF OpToRel
<1>5. (n - 1) + 1 \in T
  BY <1>3, <1>4
<1>6. QED
  BY <1>3, <1>5

LEMMA MinOfNaturals ==
    ASSUME NEW S \in SUBSET Nat, S # {}
    PROVE  Min(S) \in S /\ \A y \in S : Min(S) <= y
<1>1. \E x \in S : \A y \in S : x <= y
  <2>1. PICK x \in S : \A y \in S : ~(<<y, x>> \in OpToRel(<, Nat))
    BY NatLessThanWellFounded, WFMin
  <2>2. \A y \in S : ~(y < x)
    BY <2>1 DEF OpToRel
  <2>3. QED
    BY <2>2
<1>2. QED
  BY <1>1 DEF Min

\* The least number of a set, once it is known.
LEMMA MinIs ==
    ASSUME NEW S \in SUBSET Int, NEW m \in S, \A y \in S : m <= y
    PROVE  Min(S) = m
<1>1. \A x \in S : (\A y \in S : x <= y) => x = m
  OBVIOUS
<1>2. QED
  BY <1>1 DEF Min

LEMMA MaxIs ==
    ASSUME NEW S \in SUBSET Int, NEW m \in S, \A y \in S : y <= m
    PROVE  Max(S) = m
<1>1. \A x \in S : (\A y \in S : x >= y) => x = m
  OBVIOUS
<1>2. (\A y \in S : m >= y) /\ m \in S
  OBVIOUS
<1>3. QED
  BY <1>1, <1>2 DEF Max

\* The largest number of a set that has a bound.
LEMMA MaxOfNaturals ==
    ASSUME NEW b \in Nat, NEW S \in SUBSET (0 .. b), S # {}
    PROVE  Max(S) \in S /\ \A y \in S : y <= Max(S)
<1> DEFINE R == {n \in Nat : b - n \in S}
<1>1. PICK z \in S : TRUE
  OBVIOUS
<1>2. b - z \in Nat /\ b - (b - z) = z
  OBVIOUS
<1>3. R # {} /\ R \in SUBSET Nat
  BY <1>1, <1>2
<1>4. PICK n \in R : \A m \in R : n <= m
  <2> HIDE DEF R
  <2>1. QED
    BY <1>3, MinOfNaturals
<1>5. b - n \in S
  OBVIOUS
<1>6. ASSUME NEW y \in S PROVE b - n >= y
  <2>1. b - y \in Nat /\ b - (b - y) = y
    OBVIOUS
  <2>2. n <= b - y /\ n \in Nat
    BY <1>4, <2>1
  <2>3. QED
    BY <2>1, <2>2
<1>7. \E x \in S : \A y \in S : x >= y
  BY <1>5, <1>6
<1>8. QED
  BY <1>7 DEF Max

-----------------------------------------------------------------------------
(* Where the pieces of an answer are in it.                                *)

\* FlattenSeq, as the function that it takes the last value of.
ChainTo(ps, n, f) ==
    f = [i \in 1 .. n |-> IF i = 1 THEN ps[i] ELSE f[i - 1] \o ps[i]]

Chain(ps, f) == ChainTo(ps, Len(ps), f)

LEMMA ChainAt ==
    ASSUME NEW ps, NEW n, NEW f, ChainTo(ps, n, f), NEW i \in 1 .. n
    PROVE  f[i] = IF i = 1 THEN ps[i] ELSE f[i - 1] \o ps[i]
<1>1. \A j \in 1 .. n :
          f[j] = IF j = 1 THEN ps[j] ELSE f[j - 1] \o ps[j]
  BY DEF ChainTo
<1>2. QED
  BY <1>1

LEMMA ChainNext ==
    ASSUME NEW ps, NEW n \in Nat, NEW f, ChainTo(ps, n, f)
    PROVE  \E g : ChainTo(ps, n + 1, g)
<1> DEFINE last == IF n = 0 THEN ps[1] ELSE f[n] \o ps[n + 1]
           g == [i \in 1 .. n + 1 |-> IF i = n + 1 THEN last ELSE f[i]]
<1>1. \A i \in 1 .. n :
          f[i] = IF i = 1 THEN ps[i] ELSE f[i - 1] \o ps[i]
  BY DEF ChainTo
<1>2. \A i \in 1 .. n : g[i] = f[i] /\ (i # 1 => g[i - 1] = f[i - 1])
  OBVIOUS
<1>3. n # 0 => g[n] = f[n]
  OBVIOUS
<1>4. g[n + 1] = last
  OBVIOUS
<1>5. \A i \in 1 .. n + 1 :
          g[i] = IF i = 1 THEN ps[i] ELSE g[i - 1] \o ps[i]
  <2> SUFFICES ASSUME NEW i \in 1 .. n + 1
               PROVE  g[i] = IF i = 1 THEN ps[i] ELSE g[i - 1] \o ps[i]
    OBVIOUS
  <2> HIDE DEF g
  <2>1. CASE i = n + 1
    <3>1. i - 1 = n /\ (n = 0 <=> i = 1)
      BY <2>1
    <3>2. QED
      BY <1>3, <1>4, <2>1, <3>1
  <2>2. CASE i # n + 1
    <3>1. i \in 1 .. n
      BY <2>2
    <3>2. QED
      BY <1>1, <1>2, <3>1
  <2>3. QED
    BY <2>1, <2>2
<1>6. g = [i \in 1 .. n + 1 |-> g[i]]
  OBVIOUS
<1> HIDE DEF g
<1>7. ChainTo(ps, n + 1, g)
  BY <1>5, <1>6 DEF ChainTo
<1>8. QED
  BY <1>7

LEMMA ChainExists ==
    ASSUME NEW S, NEW ps \in Seq(Seq(S))
    PROVE  \E f : Chain(ps, f)
<1> DEFINE T == {n \in Nat : \E f : ChainTo(ps, n, f)}
<1>1. 0 \in T
  <2>1. ChainTo(ps, 0, [i \in 1 .. 0 |-> ps[i]])
    BY DEF ChainTo
  <2>2. QED
    BY <2>1
<1>2. \A n \in Nat : n \in T => n + 1 \in T
  BY ChainNext
<1>3. Nat \subseteq T
  <2> HIDE DEF T
  <2>1. QED
    BY <1>1, <1>2, SetOfNaturals
<1>4. Len(ps) \in T
  BY <1>3, LenProperties
<1>5. QED
  BY <1>4 DEF Chain

SameTo(ps, qs, n) == \A i \in 1 .. n : ps[i] = qs[i]

LEMMA ChainUnique ==
    ASSUME NEW ps, NEW n \in Nat, NEW f, ChainTo(ps, n, f),
           NEW qs, NEW m \in 0 .. n, NEW g, ChainTo(qs, m, g),
           SameTo(qs, ps, m), NEW i \in 1 .. m
    PROVE  g[i] = f[i]
<1> DEFINE T == {l \in Nat : \A j \in 1 .. m : j <= l => g[j] = f[j]}
<1>1. 0 \in T
  OBVIOUS
<1>2. ASSUME NEW l \in Nat, l \in T PROVE l + 1 \in T
  <2>1. \A j \in 1 .. m : j <= l => g[j] = f[j]
    BY <1>2
  <2> SUFFICES ASSUME NEW j \in 1 .. m, j <= l + 1 PROVE g[j] = f[j]
    OBVIOUS
  <2>2. j # 1 => g[j - 1] = f[j - 1]
    BY <2>1
  <2>3. f[j] = IF j = 1 THEN ps[j] ELSE f[j - 1] \o ps[j]
    <3>1. j \in 1 .. n
      OBVIOUS
    <3>2. QED
      BY <3>1, ChainAt
  <2>4. g[j] = IF j = 1 THEN qs[j] ELSE g[j - 1] \o qs[j]
    BY ChainAt
  <2>5. QED
    BY <2>2, <2>3, <2>4 DEF SameTo
<1>3. Nat \subseteq T
  <2>1. \A l \in Nat : l \in T => l + 1 \in T
    BY <1>2
  <2> HIDE DEF T
  <2>2. QED
    BY <1>1, <2>1, SetOfNaturals
<1>4. i \in Nat /\ i <= i
  OBVIOUS
<1>5. QED
  BY <1>3, <1>4

LEMMA FlattenIsChain ==
    ASSUME NEW S, NEW ps \in Seq(Seq(S)), ps # <<>>
    PROVE  \E f : Chain(ps, f) /\ FlattenSeq(ps) = f[Len(ps)]
<1>1. \E f : f = [i \in 1 .. Len(ps) |->
                     IF i = 1 THEN ps[i] ELSE f[i - 1] \o ps[i]]
  BY ChainExists DEF Chain, ChainTo
<1>2. Len(ps) # 0
  OBVIOUS
<1> DEFINE f == CHOOSE f : f = [i \in 1 .. Len(ps) |->
                                   IF i = 1 THEN ps[i] ELSE f[i - 1] \o ps[i]]
<1>3. Chain(ps, f)
  BY <1>1 DEF Chain, ChainTo
<1>4. FlattenSeq(ps) = f[Len(ps)]
  BY <1>2 DEF FlattenSeq
<1>5. QED
  BY <1>3, <1>4

\* The first n pieces are the first n - 1, and another.
LEMMA FlattenStep ==
    ASSUME NEW S, NEW ps \in Seq(Seq(S)), NEW n \in 1 .. Len(ps)
    PROVE  FlattenSeq(SubSeq(ps, 1, n))
               = FlattenSeq(SubSeq(ps, 1, n - 1)) \o ps[n]
<1> DEFINE qs == SubSeq(ps, 1, n)
           rs == SubSeq(ps, 1, n - 1)
<1>1. /\ qs \in Seq(Seq(S)) /\ Len(qs) = n /\ qs # <<>>
      /\ \A i \in 1 .. n : qs[i] = ps[i]
      /\ rs \in Seq(Seq(S)) /\ Len(rs) = n - 1
      /\ rs = SubSeq(qs, 1, n - 1)
  OBVIOUS
<1> HIDE DEF qs, rs
<1>2. PICK f : Chain(qs, f) /\ FlattenSeq(qs) = f[n]
  BY <1>1, FlattenIsChain
<1>3. f[n] = IF n = 1 THEN ps[n] ELSE f[n - 1] \o ps[n]
  <2>1. ChainTo(qs, n, f) /\ n \in 1 .. n
    BY <1>1, <1>2 DEF Chain
  <2>2. f[n] = IF n = 1 THEN qs[n] ELSE f[n - 1] \o qs[n]
    BY <2>1, ChainAt
  <2>3. qs[n] = ps[n]
    BY <1>1, <2>1
  <2>4. QED
    BY <2>2, <2>3
<1>4. CASE n = 1
  <2>1. rs = <<>>
    BY <1>1, <1>4
  <2>2. FlattenSeq(rs) = <<>>
    BY <2>1 DEF FlattenSeq
  <2>3. ps[1] \in Seq(S)
    BY <1>4
  <2>4. <<>> \o ps[1] = ps[1]
    BY <2>3
  <2>5. QED
    BY <1>2, <1>3, <1>4, <2>2, <2>4 DEF qs, rs
<1>5. CASE n # 1
  <2>1. rs # <<>>
    <3>1. Len(rs) # 0
      BY <1>1, <1>5
    <3>2. QED
      BY <3>1, EmptySeq
  <2>2. PICK g : Chain(rs, g) /\ FlattenSeq(rs) = g[n - 1]
    BY <1>1, <2>1, FlattenIsChain
  <2>3. g[n - 1] = f[n - 1]
    <3> DEFINE k == n - 1
    <3>1. n \in Nat /\ k \in 0 .. n /\ k \in 1 .. k
      BY <1>1, <1>5
    <3>2. ChainTo(rs, k, g) /\ ChainTo(qs, n, f)
      BY <1>1, <1>2, <2>2 DEF Chain
    <3>3. SameTo(rs, qs, k)
      BY <1>1 DEF SameTo
    <3> HIDE DEF k
    <3>4. g[k] = f[k]
      BY <3>1, <3>2, <3>3, ChainUnique
    <3>5. QED
      BY <3>4 DEF k
  <2>4. QED
    BY <1>2, <1>3, <1>5, <2>2, <2>3 DEF qs, rs
<1>6. QED
  BY <1>4, <1>5

\* The symbols that stand for bytes.
Bytes == {"text", "quote", "usage", "usageM", "etadata", ":", "open", "close",
          "\\",
          "bad", "in1", "in2", "out1", "out2", "hit1", "read2", "made1"}

\* Where a piece begins, and the place behind the last one.
Begins(ps) ==
    [n \in 1 .. Len(ps) + 1 |-> Len(FlattenSeq(SubSeq(ps, 1, n - 1))) + 1]

\* The pieces are in the answer, one behind the other.
Laid(ps, A, B) ==
    /\ A \in Seq(Bytes) /\ ps \in Seq(Seq(Bytes))
    /\ B \in [1 .. Len(ps) + 1 -> Nat \ {0}]
    /\ B[1] = 1 /\ Len(A) = B[Len(ps) + 1] - 1
    /\ \A n \in 1 .. Len(ps) : B[n + 1] = B[n] + Len(ps[n])
    /\ \A n \in 1 .. Len(ps) : \A j \in 1 .. Len(ps[n]) :
          A[B[n] + j - 1] = ps[n][j]

LEMMA Concatenated ==
    ASSUME NEW s \in Seq(Bytes), NEW t \in Seq(Bytes)
    PROVE  /\ Len(s) \in Nat /\ Len(t) \in Nat
           /\ s \o t \in Seq(Bytes) /\ Len(s \o t) = Len(s) + Len(t)
           /\ \A i \in 1 .. Len(s) : (s \o t)[i] = s[i]
           /\ \A i \in 1 .. Len(t) : (s \o t)[Len(s) + i] = t[i]
OBVIOUS

LEMMA AnswerIsLaid ==
    ASSUME NEW ps \in Seq(Seq(Bytes))
    PROVE  Laid(ps, FlattenSeq(ps), Begins(ps))
<1> DEFINE N == Len(ps)
           F == [n \in 0 .. N |-> FlattenSeq(SubSeq(ps, 1, n))]
           B == Begins(ps)
<1>1. N \in Nat /\ \A n \in 1 .. N : ps[n] \in Seq(Bytes)
  OBVIOUS
<1>2. F[0] = <<>>
  <2>1. SubSeq(ps, 1, 0) = <<>>
    OBVIOUS
  <2>2. 0 \in 0 .. N
    OBVIOUS
  <2>3. QED
    BY <2>1, <2>2 DEF FlattenSeq
<1>3. \A n \in 1 .. N : F[n] = F[n - 1] \o ps[n]
  <2> SUFFICES ASSUME NEW n \in 1 .. N PROVE F[n] = F[n - 1] \o ps[n]
    OBVIOUS
  <2>1. n \in 0 .. N /\ n - 1 \in 0 .. N
    OBVIOUS
  <2>2. FlattenSeq(SubSeq(ps, 1, n)) = FlattenSeq(SubSeq(ps, 1, n - 1)) \o ps[n]
    BY FlattenStep
  <2>3. QED
    BY <2>1, <2>2
<1>4. F[N] = FlattenSeq(ps)
  <2>1. SubSeq(ps, 1, N) = ps
    OBVIOUS
  <2>2. N \in 0 .. N
    OBVIOUS
  <2>3. QED
    BY <2>1, <2>2
<1>5. \A n \in 1 .. N + 1 : B[n] = Len(F[n - 1]) + 1
  <2>1. \A n \in 1 .. N + 1 : n - 1 \in 0 .. N
    OBVIOUS
  <2>2. QED
    BY <2>1 DEF Begins
<1>6. DOMAIN B = 1 .. N + 1 /\ B = [n \in 1 .. N + 1 |-> B[n]]
  BY DEF Begins
<1> HIDE DEF F, B, N
<1> DEFINE Upto(n) ==
              /\ F[n] \in Seq(Bytes)
              /\ \A m \in 1 .. n :
                    B[m] \in Nat \ {0} /\ B[m] + Len(ps[m]) <= Len(F[n]) + 1
              /\ \A m \in 1 .. n : \A j \in 1 .. Len(ps[m]) :
                    F[n][B[m] + j - 1] = ps[m][j]
           T == {n \in Nat : n <= N => Upto(n)}
<1>7. 0 \in T
  <2>1. 1 .. 0 = {} /\ F[0] \in Seq(Bytes)
    BY <1>2
  <2>2. Upto(0)
    BY <2>1
  <2>3. QED
    BY <2>2
<1>8. ASSUME NEW n \in Nat, n \in T PROVE n + 1 \in T
  <2> SUFFICES ASSUME n + 1 <= N PROVE Upto(n + 1)
    OBVIOUS
  <2>1. Upto(n)
    BY <1>1, <1>8
  <2> DEFINE s == F[n]
             t == ps[n + 1]
             k == n + 1
  <2>2. /\ F[k] = s \o t /\ s \in Seq(Bytes) /\ t \in Seq(Bytes)
        /\ B[k] = Len(s) + 1
    <3>1. k \in 1 .. N /\ k \in 1 .. N + 1 /\ k - 1 = n
      BY <1>1
    <3>2. QED
      BY <1>1, <1>3, <1>5, <2>1, <3>1
  <2>3. /\ Len(s) \in Nat /\ Len(t) \in Nat
        /\ s \o t \in Seq(Bytes) /\ Len(s \o t) = Len(s) + Len(t)
        /\ \A i \in 1 .. Len(s) : (s \o t)[i] = s[i]
        /\ \A i \in 1 .. Len(t) : (s \o t)[Len(s) + i] = t[i]
    <3> HIDE DEF s, t
    <3>1. QED
      BY <2>2, Concatenated
  <2>4. ASSUME NEW m \in 1 .. k
        PROVE  /\ B[m] \in Nat \ {0} /\ B[m] + Len(ps[m]) <= Len(F[k]) + 1
               /\ \A j \in 1 .. Len(ps[m]) : F[k][B[m] + j - 1] = ps[m][j]
    <3>1. CASE m = k
      <4>1. \A j \in 1 .. Len(t) : B[k] + j - 1 = Len(s) + j
        BY <2>2, <2>3
      <4>2. t = ps[k]
        OBVIOUS
      <4> HIDE DEF s, t, k
      <4>3. \A j \in 1 .. Len(t) : F[k][B[k] + j - 1] = t[j]
        BY <2>2, <2>3, <4>1
      <4>4. B[k] \in Nat \ {0} /\ B[k] + Len(t) <= Len(F[k]) + 1
        BY <2>2, <2>3
      <4>5. QED
        BY <3>1, <4>2, <4>3, <4>4
    <3>2. CASE m # k
      <4>1. m \in 1 .. n /\ m \in 1 .. N
        BY <1>1, <3>2
      <4>2. B[m] \in Nat \ {0} /\ B[m] + Len(ps[m]) <= Len(s) + 1
        BY <2>1, <4>1
      <4>3. ps[m] \in Seq(Bytes) /\ Len(ps[m]) \in Nat
        BY <1>1, <4>1
      <4>4. ASSUME NEW j \in 1 .. Len(ps[m])
            PROVE  F[k][B[m] + j - 1] = ps[m][j]
        <5>1. B[m] + j - 1 \in 1 .. Len(s)
          <6> DEFINE l == Len(ps[m])
                     q == Len(s)
                     a == B[m]
          <6>1. a \in Nat \ {0} /\ l \in Nat /\ q \in Nat /\ a + l <= q + 1
                /\ j \in 1 .. l
            BY <2>3, <4>2, <4>3
          <6> HIDE DEF l, q, a
          <6>2. a + j - 1 \in 1 .. q
            BY <6>1
          <6>3. QED
            BY <6>2 DEF a, q
        <5>2. s[B[m] + j - 1] = ps[m][j]
          BY <2>1, <4>1
        <5> HIDE DEF s, t
        <5>3. QED
          BY <2>2, <2>3, <5>1, <5>2
      <4> HIDE DEF s, t, k
      <4>5. B[m] + Len(ps[m]) <= Len(F[k]) + 1
        BY <2>2, <2>3, <4>2, <4>3
      <4>6. QED
        BY <4>2, <4>4, <4>5
    <3>3. QED
      BY <3>1, <3>2
  <2>5. F[k] \in Seq(Bytes)
    BY <2>2, <2>3
  <2>6. QED
    BY <2>4, <2>5
<1>9. Nat \subseteq T
  <2>1. \A n \in Nat : n \in T => n + 1 \in T
    BY <1>8
  <2> HIDE DEF T
  <2>2. QED
    BY <1>7, <2>1, SetOfNaturals
<1>10. \A n \in 0 .. N : Upto(n)
  BY <1>1, <1>9
<1>11. \A n \in 0 .. N : F[n] \in Seq(Bytes) /\ Len(F[n]) \in Nat
  BY <1>10
<1>12. \A n \in 1 .. N + 1 : B[n] \in Nat \ {0}
  <2>1. \A n \in 1 .. N + 1 : n - 1 \in 0 .. N
    BY <1>1
  <2>2. QED
    <3> SUFFICES ASSUME NEW n \in 1 .. N + 1 PROVE B[n] \in Nat \ {0}
      OBVIOUS
    <3>1. B[n] = Len(F[n - 1]) + 1 /\ Len(F[n - 1]) \in Nat
      BY <1>5, <1>11, <2>1
    <3>2. QED
      BY <3>1
<1>13. B[1] = 1 /\ Len(F[N]) = B[N + 1] - 1
  <2>1. /\ 1 \in 1 .. N + 1 /\ N + 1 \in 1 .. N + 1 /\ N \in 0 .. N
        /\ 1 - 1 = 0 /\ (N + 1) - 1 = N
    BY <1>1
  <2>2. B[1] = Len(F[0]) + 1 /\ B[N + 1] = Len(F[N]) + 1
    BY <1>5, <2>1
  <2>3. QED
    BY <1>2, <1>11, <2>1, <2>2
<1>14. \A n \in 1 .. N : B[n + 1] = B[n] + Len(ps[n])
  <2> SUFFICES ASSUME NEW n \in 1 .. N PROVE B[n + 1] = B[n] + Len(ps[n])
    OBVIOUS
  <2>1. /\ n + 1 \in 1 .. N + 1 /\ (n + 1) - 1 = n /\ n \in 1 .. N + 1
        /\ n - 1 \in 0 .. N /\ n \in 0 .. N
    BY <1>1
  <2>2. B[n + 1] = Len(F[n]) + 1 /\ B[n] = Len(F[n - 1]) + 1
    BY <1>5, <2>1
  <2>3. F[n] = F[n - 1] \o ps[n] /\ F[n - 1] \in Seq(Bytes)
        /\ ps[n] \in Seq(Bytes)
    BY <1>1, <1>3, <1>11, <2>1
  <2>4. Len(F[n]) = Len(F[n - 1]) + Len(ps[n]) /\ Len(F[n - 1]) \in Nat
        /\ Len(ps[n]) \in Nat
    BY <2>3
  <2> DEFINE a == Len(F[n - 1])
             b == Len(ps[n])
             c == Len(F[n])
  <2>5. B[n + 1] = c + 1 /\ B[n] = a + 1 /\ c = a + b /\ a \in Nat /\ b \in Nat
    BY <2>2, <2>4
  <2> HIDE DEF a, b, c
  <2>6. B[n + 1] = B[n] + b
    BY <2>5
  <2>7. QED
    BY <2>6 DEF b
<1>15. \A n \in 1 .. N : \A j \in 1 .. Len(ps[n]) :
           F[N][B[n] + j - 1] = ps[n][j]
  BY <1>1, <1>10
<1>16. B \in [1 .. N + 1 -> Nat \ {0}]
  BY <1>6, <1>12
<1>17. F[N] \in Seq(Bytes)
  BY <1>1, <1>11
<1>18. QED
  BY <1>4, <1>13, <1>14, <1>15, <1>16, <1>17 DEF Laid, N, B

LEMMA BeginsGrow ==
    ASSUME NEW ps, NEW A, NEW B, Laid(ps, A, B),
           NEW m \in 1 .. Len(ps) + 1, NEW n \in 1 .. Len(ps) + 1, m <= n
    PROVE  B[m] <= B[n]
<1> DEFINE N == Len(ps)
           T == {k \in Nat : m + k <= N + 1 => B[m] <= B[m + k]}
<1>1. N \in Nat /\ \A i \in 1 .. N : Len(ps[i]) \in Nat
  BY DEF Laid
<1>2. /\ \A i \in 1 .. N + 1 : B[i] \in Nat
      /\ \A i \in 1 .. N : B[i + 1] = B[i] + Len(ps[i])
  BY <1>1 DEF Laid
<1> HIDE DEF N
<1>3. 0 \in T
  BY <1>2 DEF N
<1>4. ASSUME NEW k \in Nat, k \in T PROVE k + 1 \in T
  <2> SUFFICES ASSUME m + (k + 1) <= N + 1 PROVE B[m] <= B[m + (k + 1)]
    OBVIOUS
  <2> DEFINE i == m + k
  <2>1. i \in 1 .. N /\ i \in 1 .. N + 1 /\ i + 1 = m + (k + 1)
        /\ i + 1 \in 1 .. N + 1
    BY <1>1
  <2>2. B[m] <= B[i]
    BY <1>1, <1>4, <2>1
  <2> HIDE DEF i
  <2>3. B[i + 1] = B[i] + Len(ps[i]) /\ Len(ps[i]) \in Nat /\ B[i] \in Nat
        /\ B[m] \in Nat
    BY <1>1, <1>2, <2>1 DEF N
  <2>4. B[m] <= B[i + 1]
    BY <2>2, <2>3
  <2>5. QED
    BY <2>1, <2>4
<1>5. Nat \subseteq T
  <2>1. \A k \in Nat : k \in T => k + 1 \in T
    BY <1>4
  <2> HIDE DEF T
  <2>2. QED
    BY <1>3, <2>1, SetOfNaturals
<1>6. n - m \in Nat /\ m + (n - m) = n /\ n <= N + 1
  BY <1>1 DEF N
<1>7. n - m \in T
  BY <1>5, <1>6
<1>8. QED
  BY <1>6, <1>7

\* Every byte of an answer is in a piece.
LEMMA PieceAt ==
    ASSUME NEW ps, NEW A, NEW B, Laid(ps, A, B), NEW i \in 1 .. Len(A)
    PROVE  \E n \in 1 .. Len(ps) :
              /\ B[n] <= i /\ i < B[n + 1]
              /\ i - B[n] + 1 \in 1 .. Len(ps[n])
              /\ A[i] = ps[n][i - B[n] + 1]
<1> DEFINE N == Len(ps)
           T == {k \in Nat : k <= N /\ i < B[k + 1] =>
                    \E n \in 1 .. N : B[n] <= i /\ i < B[n + 1]}
<1>1. N \in Nat /\ \A j \in 1 .. N : Len(ps[j]) \in Nat
  BY DEF Laid
<1>2. /\ \A j \in 1 .. N + 1 : B[j] \in Nat
      /\ B[1] = 1 /\ Len(A) = B[N + 1] - 1 /\ i \in Nat \ {0}
  <2>1. \A j \in 1 .. N + 1 : B[j] \in Nat
    BY <1>1 DEF Laid
  <2>2. B[1] = 1 /\ Len(A) = B[N + 1] - 1 /\ Len(A) \in Nat
    BY DEF Laid
  <2>3. i \in Nat \ {0}
    BY <2>2
  <2>4. QED
    BY <2>1, <2>2, <2>3
<1>3. 0 \in T
  <2>1. 0 + 1 = 1
    OBVIOUS
  <2>2. QED
    BY <1>2, <2>1
<1>4. ASSUME NEW k \in Nat, k \in T PROVE k + 1 \in T
  <2> SUFFICES ASSUME k + 1 <= N, i < B[(k + 1) + 1]
               PROVE  \E n \in 1 .. N : B[n] <= i /\ i < B[n + 1]
    OBVIOUS
  <2>1. k + 1 \in 1 .. N /\ k <= N /\ k + 1 \in 1 .. N + 1
    BY <1>1
  <2>2. CASE i < B[k + 1]
    BY <1>4, <2>1, <2>2
  <2>3. CASE ~(i < B[k + 1])
    <3>1. B[k + 1] <= i
      BY <1>2, <2>1, <2>3
    <3>2. QED
      BY <2>1, <3>1
  <2>4. QED
    BY <2>2, <2>3
<1>5. Nat \subseteq T
  <2>1. \A k \in Nat : k \in T => k + 1 \in T
    BY <1>4
  <2> HIDE DEF T
  <2>2. QED
    BY <1>3, <2>1, SetOfNaturals
<1>6. i < B[N + 1]
  <2>1. N + 1 \in 1 .. N + 1
    BY <1>1
  <2>2. B[N + 1] \in Nat /\ i <= B[N + 1] - 1
    BY <1>2, <2>1
  <2>3. QED
    BY <1>2, <2>2
<1>7. PICK n \in 1 .. N : B[n] <= i /\ i < B[n + 1]
  BY <1>1, <1>5, <1>6
<1> DEFINE j == i - B[n] + 1
<1>8. /\ B[n + 1] = B[n] + Len(ps[n]) /\ Len(ps[n]) \in Nat /\ B[n] \in Nat
      /\ \A l \in 1 .. Len(ps[n]) : A[B[n] + l - 1] = ps[n][l]
  <2>1. n \in 1 .. N + 1
    BY <1>1
  <2>2. QED
    BY <1>1, <1>2, <1>7, <2>1 DEF Laid
<1>9. j \in 1 .. Len(ps[n]) /\ B[n] + j - 1 = i
  <2> DEFINE b == B[n]
             l == Len(ps[n])
  <2>1. b \in Nat /\ l \in Nat /\ b <= i /\ i < b + l /\ i \in Nat
    BY <1>2, <1>7, <1>8
  <2> HIDE DEF b, l
  <2>2. i - b + 1 \in 1 .. l /\ b + (i - b + 1) - 1 = i
    BY <2>1
  <2>3. QED
    BY <2>2 DEF b, l
<1>10. A[i] = ps[n][j]
  BY <1>8, <1>9
<1>11. QED
  BY <1>7, <1>9, <1>10

-----------------------------------------------------------------------------
(* What the pieces look like.                                              *)

Pieces == Others \cup UNION {Reports[p] : p \in DOMAIN Reports}

\* The length of the key a piece begins with, and where its value begins.
KeyLen(p) == IF p[2] = "usage" THEN 2 ELSE 3
Value(p) == KeyLen(p) + 2

Keyed(p) == p[1] = "quote"

Braces(bytes, s, e, brace) == {i \in s .. e : bytes[i] = brace}

Balanced(bytes, s, e) ==
    Cardinality(Braces(bytes, s, e, "open"))
        = Cardinality(Braces(bytes, s, e, "close"))

\* The braces of an object are balanced at its end and nowhere before it.
Closed(p) ==
    \A e \in Value(p) .. Len(p) : Balanced(p, Value(p), e) <=> e = Len(p)

\* A key that a piece begins with has a colon and a value behind it.
KeyShape(p) ==
    /\ p[2] = "usage" \/ (p[2] = "usageM" /\ p[3] = "etadata")
    /\ Value(p) <= Len(p)
    /\ p[KeyLen(p) + 1] = ":" /\ \A j \in 1 .. KeyLen(p) : p[j] # ":"
    /\ p[Value(p)] # "open" => Len(p) = Value(p)
    /\ p[Value(p)] = "open" => Closed(p)

\* A quote that is not escaped begins a piece, and no piece ends with an
\* escape.
Shape(p) ==
    /\ p \in Seq(Bytes) /\ Len(p) \in 1 .. 10
    /\ p[Len(p)] # "\\"
    /\ \A j \in 1 .. Len(p) :
          p[j] = "quote" => j = 1 \/ (j \in 2 .. Len(p) /\ p[j - 1] = "\\")
    /\ Keyed(p) => KeyShape(p)

\* One byte more is at most one brace more.
LEMMA BracesNext ==
    ASSUME NEW bytes, NEW s \in Nat, NEW e \in Nat, s <= e + 1, NEW brace
    PROVE  /\ Cardinality(Braces(bytes, s, e, brace)) \in Nat
           /\ Cardinality(Braces(bytes, s, e + 1, brace))
                = Cardinality(Braces(bytes, s, e, brace))
                  + IF bytes[e + 1] = brace THEN 1 ELSE 0
<1> DEFINE X == Braces(bytes, s, e, brace)
           Y == Braces(bytes, s, e + 1, brace)
<1>1. IsFiniteSet(X) /\ Cardinality(X) \in Nat
  <2>1. IsFiniteSet(s .. e)
    BY FS_Interval
  <2>2. X \subseteq s .. e
    BY DEF Braces
  <2>3. QED
    BY <2>1, <2>2, FS_Subset, FS_CardinalityType
<1>2. e + 1 \notin X
  BY DEF Braces
<1>3. Y = IF bytes[e + 1] = brace THEN X \cup {e + 1} ELSE X
  BY DEF Braces
<1>4. Cardinality(X \cup {e + 1}) = Cardinality(X) + 1
  <2> HIDE DEF X
  <2>1. QED
    BY <1>1, <1>2, FS_AddElement
<1>5. QED
  BY <1>1, <1>3, <1>4

LEMMA BracesFirst ==
    ASSUME NEW bytes, NEW s \in Nat, NEW brace
    PROVE  Cardinality(Braces(bytes, s, s, brace))
               = IF bytes[s] = brace THEN 1 ELSE 0
<1>1. s .. s = {s}
  OBVIOUS
<1>2. Braces(bytes, s, s, brace) = IF bytes[s] = brace THEN {s} ELSE {}
  BY <1>1 DEF Braces
<1>3. QED
  BY <1>2, FS_EmptySet, FS_Singleton


\* The pieces, one by one.
Nested == <<"quote", "usage", ":",
            "open", "in2", "open", "hit1", "close", "out1", "close">>
Listed(p) ==
    \/ p = Nested
    \/ p = <<"quote", "usage", ":", "open", "in1", "close">>
    \/ p = <<"quote", "usage", ":", "open", "in1", "read2", "made1", "close">>
    \/ p = <<"quote", "usage", ":", "open", "out2", "close">>
    \/ p = <<"quote", "usageM", "etadata", ":", "open", "in1", "out2", "close">>
    \/ p = <<"text">> \/ p = <<"open">> \/ p = <<"close">>
    \/ p = <<"quote", "usage", ":", "text">>
    \/ p = <<"quote", "usageM", "etadata", ":", "open", "bad", "in2", "close">>
    \/ p = <<"\\", "quote", "usage", ":", "open", "out2", "close">>

LEMMA PieceList == ASSUME NEW p \in Pieces PROVE Listed(p)
<1>1. \A r \in DOMAIN Reports : r = "openai" \/ r = "anthropic" \/ r = "gemini"
  BY DEF Reports
<1>2. \/ p \in Others \/ p \in Reports["openai"] \/ p \in Reports["anthropic"]
      \/ p \in Reports["gemini"]
  BY <1>1 DEF Pieces
<1>3. QED
  BY <1>2 DEF Reports, Others, Listed, Nested

\* The bytes of a piece.
Spelled(p) ==
    \/ /\ Len(p) = 10 /\ p[1] = "quote" /\ p[2] = "usage" /\ p[3] = ":"
       /\ p[4] = "open" /\ p[5] = "in2" /\ p[6] = "open" /\ p[7] = "hit1"
       /\ p[8] = "close" /\ p[9] = "out1" /\ p[10] = "close"
    \/ /\ Len(p) = 6 /\ p[1] = "quote" /\ p[2] = "usage" /\ p[3] = ":"
       /\ p[4] = "open" /\ p[5] = "in1" /\ p[6] = "close"
    \/ /\ Len(p) = 8 /\ p[1] = "quote" /\ p[2] = "usage" /\ p[3] = ":"
       /\ p[4] = "open" /\ p[5] = "in1" /\ p[6] = "read2" /\ p[7] = "made1"
       /\ p[8] = "close"
    \/ /\ Len(p) = 6 /\ p[1] = "quote" /\ p[2] = "usage" /\ p[3] = ":"
       /\ p[4] = "open" /\ p[5] = "out2" /\ p[6] = "close"
    \/ /\ Len(p) = 8 /\ p[1] = "quote" /\ p[2] = "usageM"
       /\ p[3] = "etadata" /\ p[4] = ":" /\ p[5] = "open" /\ p[6] = "in1"
       /\ p[7] = "out2" /\ p[8] = "close"
    \/ /\ Len(p) = 1 /\ p[1] = "text"
    \/ /\ Len(p) = 1 /\ p[1] = "open"
    \/ /\ Len(p) = 1 /\ p[1] = "close"
    \/ /\ Len(p) = 4 /\ p[1] = "quote" /\ p[2] = "usage" /\ p[3] = ":"
       /\ p[4] = "text"
    \/ /\ Len(p) = 8 /\ p[1] = "quote" /\ p[2] = "usageM"
       /\ p[3] = "etadata" /\ p[4] = ":" /\ p[5] = "open" /\ p[6] = "bad"
       /\ p[7] = "in2" /\ p[8] = "close"
    \/ /\ Len(p) = 7 /\ p[1] = "\\" /\ p[2] = "quote" /\ p[3] = "usage"
       /\ p[4] = ":" /\ p[5] = "open" /\ p[6] = "out2" /\ p[7] = "close"

LEMMA PieceSpelled ==
    ASSUME NEW p \in Pieces
    PROVE  Spelled(p) /\ p \in Seq(Bytes)
<1>1. Listed(p)
  BY PieceList
<1>2. Spelled(p)
  BY <1>1 DEF Listed, Nested, Spelled
<1>3. p \in Seq(Bytes)
  <2>1. CASE p = Nested
    BY <2>1 DEF Nested, Bytes
  <2>2. CASE p = <<"quote", "usage", ":", "open", "in1", "close">>
    BY <2>2 DEF Bytes
  <2>3. CASE p = <<"quote", "usage", ":", "open", "in1", "read2",
                   "made1", "close">>
    BY <2>3 DEF Bytes
  <2>4. CASE p = <<"quote", "usage", ":", "open", "out2", "close">>
    BY <2>4 DEF Bytes
  <2>5. CASE p = <<"quote", "usageM", "etadata", ":", "open", "in1",
                   "out2", "close">>
    BY <2>5 DEF Bytes
  <2>6. CASE p = <<"text">>
    BY <2>6 DEF Bytes
  <2>7. CASE p = <<"open">>
    BY <2>7 DEF Bytes
  <2>8. CASE p = <<"close">>
    BY <2>8 DEF Bytes
  <2>9. CASE p = <<"quote", "usage", ":", "text">>
    BY <2>9 DEF Bytes
  <2>10. CASE p = <<"quote", "usageM", "etadata", ":", "open", "bad",
                    "in2", "close">>
    BY <2>10 DEF Bytes
  <2>11. CASE p = <<"\\", "quote", "usage", ":", "open", "out2", "close">>
    BY <2>11 DEF Bytes
  <2>12. QED
    BY <1>1, <2>1, <2>2, <2>3, <2>4, <2>5, <2>6, <2>7, <2>8, <2>9, <2>10,
       <2>11 DEF Listed
<1>4. QED
  BY <1>2, <1>3

\* An object without another one in it.
LEMMA FlatCloses ==
    ASSUME NEW p, NEW v \in Nat, NEW l \in Nat, v < l,
           p[v] = "open", p[l] = "close",
           \A j \in v + 1 .. l - 1 : p[j] # "open" /\ p[j] # "close",
           NEW e \in v .. l
    PROVE  Balanced(p, v, e) <=> e = l
<1> DEFINE Opened(n) == Cardinality(Braces(p, v, n, "open"))
           Shut(n) == Cardinality(Braces(p, v, n, "close"))
           T == {k \in Nat : v + k < l => Opened(v + k) = 1 /\ Shut(v + k) = 0}
<1>1. 0 \in T
  BY BracesFirst
<1>2. ASSUME NEW n \in Nat, v <= n
      PROVE  /\ Opened(n + 1) = Opened(n) + IF p[n + 1] = "open" THEN 1 ELSE 0
             /\ Shut(n + 1) = Shut(n) + IF p[n + 1] = "close" THEN 1 ELSE 0
  BY <1>2, BracesNext
<1> HIDE DEF Opened, Shut
<1>3. ASSUME NEW k \in Nat, k \in T PROVE k + 1 \in T
  <2> SUFFICES ASSUME v + (k + 1) < l
               PROVE  Opened(v + (k + 1)) = 1 /\ Shut(v + (k + 1)) = 0
    OBVIOUS
  <2> DEFINE n == v + k
  <2>1. n \in Nat /\ v <= n /\ n < l /\ n + 1 \in v + 1 .. l - 1
        /\ n + 1 = v + (k + 1)
    OBVIOUS
  <2>2. Opened(n) = 1 /\ Shut(n) = 0
    BY <1>3, <2>1
  <2> HIDE DEF n
  <2>3. Opened(n + 1) = 1 /\ Shut(n + 1) = 0
    BY <1>2, <2>1, <2>2
  <2>4. QED
    BY <2>1, <2>3
<1>4. Nat \subseteq T
  <2>1. \A k \in Nat : k \in T => k + 1 \in T
    BY <1>3
  <2> HIDE DEF T
  <2>2. QED
    BY <1>1, <2>1, SetOfNaturals
<1>5. \A n \in v .. l - 1 : Opened(n) = 1 /\ Shut(n) = 0
  <2> SUFFICES ASSUME NEW n \in v .. l - 1 PROVE Opened(n) = 1 /\ Shut(n) = 0
    OBVIOUS
  <2>1. n - v \in Nat /\ v + (n - v) = n /\ n < l
    OBVIOUS
  <2>2. QED
    BY <1>4, <2>1
<1>6. Opened(l) = 1 /\ Shut(l) = 1
  <2> DEFINE n == l - 1
  <2>1. n \in Nat /\ v <= n /\ n \in v .. l - 1 /\ n + 1 = l
    OBVIOUS
  <2> HIDE DEF n
  <2>2. Opened(n) = 1 /\ Shut(n) = 0
    BY <1>5, <2>1
  <2>3. QED
    BY <1>2, <2>1, <2>2
<1>7. Balanced(p, v, e) <=> Opened(e) = Shut(e)
  BY DEF Balanced, Opened, Shut
<1>8. QED
  BY <1>5, <1>6, <1>7

LEMMA NestedCloses ==
    ASSUME NEW p,
           p = Nested,
           NEW e \in 4 .. 10
    PROVE  Balanced(p, 4, e) <=> e = 10
<1> DEFINE Opened(n) == Cardinality(Braces(p, 4, n, "open"))
           Shut(n) == Cardinality(Braces(p, 4, n, "close"))
<1>1. Opened(4) = 1 /\ Shut(4) = 0
  BY BracesFirst DEF Nested
<1>2. ASSUME NEW n \in Nat, 4 <= n
      PROVE  /\ Opened(n + 1) = Opened(n) + IF p[n + 1] = "open" THEN 1 ELSE 0
             /\ Shut(n + 1) = Shut(n) + IF p[n + 1] = "close" THEN 1 ELSE 0
  BY <1>2, BracesNext
<1> HIDE DEF Opened, Shut
<1>3. Opened(5) = 1 /\ Shut(5) = 0
  <2>1. 4 \in Nat /\ 4 + 1 = 5
    OBVIOUS
  <2>2. QED
    BY <1>1, <1>2, <2>1 DEF Nested
<1>4. Opened(6) = 2 /\ Shut(6) = 0
  <2>1. 5 \in Nat /\ 5 + 1 = 6
    OBVIOUS
  <2>2. QED
    BY <1>2, <1>3, <2>1 DEF Nested
<1>5. Opened(7) = 2 /\ Shut(7) = 0
  <2>1. 6 \in Nat /\ 6 + 1 = 7
    OBVIOUS
  <2>2. QED
    BY <1>2, <1>4, <2>1 DEF Nested
<1>6. Opened(8) = 2 /\ Shut(8) = 1
  <2>1. 7 \in Nat /\ 7 + 1 = 8
    OBVIOUS
  <2>2. QED
    BY <1>2, <1>5, <2>1 DEF Nested
<1>7. Opened(9) = 2 /\ Shut(9) = 1
  <2>1. 8 \in Nat /\ 8 + 1 = 9
    OBVIOUS
  <2>2. QED
    BY <1>2, <1>6, <2>1 DEF Nested
<1>8. Opened(10) = 2 /\ Shut(10) = 2
  <2>1. 9 \in Nat /\ 9 + 1 = 10
    OBVIOUS
  <2>2. QED
    BY <1>2, <1>7, <2>1 DEF Nested
<1>9. Balanced(p, 4, e) <=> Opened(e) = Shut(e)
  BY DEF Balanced, Opened, Shut
<1>10. e = 4 \/ e = 5 \/ e = 6 \/ e = 7 \/ e = 8 \/ e = 9 \/ e = 10
  OBVIOUS
<1>11. QED
  BY <1>1, <1>3, <1>4, <1>5, <1>6, <1>7, <1>8, <1>9, <1>10

LEMMA PieceShape ==
    ASSUME NEW p \in Pieces
    PROVE  Shape(p)
<1>1. Spelled(p) /\ p \in Seq(Bytes)
  BY PieceSpelled
<1>2. Len(p) \in 1 .. 10
  BY <1>1 DEF Spelled
<1>3. \A j \in 1 .. Len(p) : \/ j = 1 \/ j = 2 \/ j = 3 \/ j = 4 \/ j = 5
                              \/ j = 6 \/ j = 7 \/ j = 8 \/ j = 9 \/ j = 10
  <2> DEFINE l == Len(p)
  <2>1. l \in 1 .. 10
    BY <1>2
  <2> HIDE DEF l
  <2>2. \A j \in 1 .. l : \/ j = 1 \/ j = 2 \/ j = 3 \/ j = 4 \/ j = 5
                          \/ j = 6 \/ j = 7 \/ j = 8 \/ j = 9 \/ j = 10
    BY <2>1
  <2>3. QED
    BY <2>2 DEF l
<1>4. p[Len(p)] # "\\"
  BY <1>1 DEF Spelled
<1>5. \A j \in 1 .. Len(p) :
          p[j] = "quote" => j = 1 \/ (j \in 2 .. Len(p) /\ p[j - 1] = "\\")
  <2> SUFFICES ASSUME NEW j \in 1 .. Len(p), p[j] = "quote", j # 1
               PROVE  j \in 2 .. Len(p) /\ p[j - 1] = "\\"
    OBVIOUS
  <2>1. \/ j = 2 \/ j = 3 \/ j = 4 \/ j = 5
        \/ j = 6 \/ j = 7 \/ j = 8 \/ j = 9 \/ j = 10
    BY <1>3
  <2> DEFINE l == Len(p)
  <2>2. /\ l >= 2 /\ p[2] = "quote" => p[1] = "\\"
        /\ l >= 3 => p[3] # "quote"
        /\ l >= 4 => p[4] # "quote"
        /\ l >= 5 => p[5] # "quote"
        /\ l >= 6 => p[6] # "quote"
        /\ l >= 7 => p[7] # "quote"
        /\ l >= 8 => p[8] # "quote"
        /\ l >= 9 => p[9] # "quote"
        /\ l >= 10 => p[10] # "quote"
    BY <1>1 DEF Spelled
  <2>3. l \in 1 .. 10 /\ j \in 1 .. l /\ p[j] = "quote" /\ j # 1
    BY <1>2
  <2> HIDE DEF l
  <2>4. l >= j
    BY <2>3
  <2>5. j = 2 /\ p[1] = "\\"
    BY <2>1, <2>2, <2>3, <2>4
  <2>6. QED
    BY <2>3, <2>4, <2>5 DEF l
<1>6. ASSUME Keyed(p)
      PROVE  /\ p[2] = "usage" \/ (p[2] = "usageM" /\ p[3] = "etadata")
             /\ Value(p) <= Len(p)
             /\ p[KeyLen(p) + 1] = ":"
             /\ p[Value(p)] # "open" => Len(p) = Value(p)
  BY <1>1, <1>6 DEF Keyed, Value, KeyLen, Spelled
<1>7. ASSUME Keyed(p), NEW j \in 1 .. KeyLen(p)
      PROVE  p[j] # ":"
  <2>1. j = 1 \/ j = 2 \/ j = 3
    BY DEF KeyLen
  <2>2. p[1] # ":" /\ p[2] # ":"
    BY <1>1, <1>7 DEF Keyed, Spelled
  <2>3. ASSUME j = 3 PROVE p[3] # ":"
    <3>1. p[2] # "usage"
      BY <2>3 DEF KeyLen
    <3>2. QED
      BY <1>1, <1>7, <3>1 DEF Keyed, Spelled
  <2>4. QED
    BY <2>1, <2>2, <2>3
<1>8. ASSUME Keyed(p), p[Value(p)] = "open"
      PROVE  Closed(p)
  <2>1. CASE p = Nested
    <3>1. Value(p) = 4 /\ Len(p) = 10
      BY <2>1 DEF Value, KeyLen, Nested
    <3>2. QED
      BY <2>1, <3>1, NestedCloses DEF Closed
  <2>2. CASE p # Nested
    <3>1. Len(p) # 10
      <4>1. Listed(p)
        BY PieceList
      <4>2. QED
        BY <2>2, <4>1 DEF Listed
    <3> DEFINE v == Value(p)
               l == Len(p)
    <3>2. p[v] = "open"
      BY <1>8
    <3>3. (p[2] = "usage" /\ v = 4) \/ (p[2] # "usage" /\ v = 5)
      BY DEF Value, KeyLen
    <3> HIDE DEF v
    <3>4. (l = 6 \/ l = 8) /\ p[l] = "close" /\ (v = 4 \/ v = 5)
      BY <1>1, <1>8, <3>1, <3>2, <3>3 DEF Keyed, Spelled
    <3>5. /\ v < 5 /\ 5 < l => p[5] # "open" /\ p[5] # "close"
          /\ v < 6 /\ 6 < l => p[6] # "open" /\ p[6] # "close"
          /\ v < 7 /\ 7 < l => p[7] # "open" /\ p[7] # "close"
      <4>1. 5 < l /\ v = 4 => p[5] # "open" /\ p[5] # "close"
        BY <1>1, <1>8, <3>1, <3>2, <3>3 DEF Keyed, Spelled
      <4>2. l = 8 => p[6] # "open" /\ p[6] # "close"
        BY <1>1, <1>8 DEF Keyed, Spelled
      <4>3. 7 < l => p[7] # "open" /\ p[7] # "close"
        BY <1>1, <1>8, <3>1 DEF Keyed, Spelled
      <4> HIDE DEF l
      <4>4. QED
        BY <3>3, <3>4, <4>1, <4>2, <4>3
    <3> HIDE DEF l
    <3>6. (v = 4 \/ v = 5) /\ v < l /\ l <= 8 /\ p[l] = "close" /\ l \in Nat
      BY <3>4
    <3>7. \A j \in v + 1 .. l - 1 : p[j] # "open" /\ p[j] # "close"
      <4>1. \A j \in v + 1 .. l - 1 : (j = 5 \/ j = 6 \/ j = 7) /\ v < j
            /\ j < l
        <5> HIDE DEF v, l
        <5>1. QED
          BY <3>6
      <4>2. QED
        BY <3>5, <4>1
    <3>8. \A e \in v .. l : Balanced(p, v, e) <=> e = l
      <4> HIDE DEF v, l
      <4>1. v \in Nat
        BY <3>6
      <4>2. QED
        BY <3>6, <3>2, <3>7, <4>1, FlatCloses
    <3>9. QED
      BY <3>8 DEF Closed, v, l
  <2>3. QED
    BY <2>1, <2>2
<1>9. Keyed(p) => KeyShape(p)
  BY <1>6, <1>7, <1>8 DEF KeyShape
<1>10. QED
  BY <1>1, <1>2, <1>4, <1>5, <1>9 DEF Shape

-----------------------------------------------------------------------------
(* Keys.                                                                   *)

\* A prefix, byte by byte.
LEMMA PrefixAt ==
    ASSUME NEW s \in Seq(Bytes), NEW i \in Nat, i >= 1, i <= Len(s),
           NEW key \in Seq(Bytes)
    PROVE  IsPrefix(key, SubSeq(s, i, Len(s))) <=>
              /\ i + Len(key) - 1 <= Len(s)
              /\ \A j \in 1 .. Len(key) : s[i + j - 1] = key[j]
<1> DEFINE t == SubSeq(s, i, Len(s))
           k == Len(key)
           n == Len(s)
<1>1. n \in Nat /\ k \in Nat /\ i \in 1 .. n
  OBVIOUS
<1>2. t \in Seq(Bytes) /\ Len(t) = n - i + 1
  OBVIOUS
<1>3. \A j \in 1 .. n - i + 1 : t[j] = s[i + j - 1]
  OBVIOUS
<1>4. SubSeq(key, 1, k) = key
  OBVIOUS
<1>5. ASSUME i + k - 1 <= n
      PROVE  SubSeq(t, 1, k) = key <=> \A j \in 1 .. k : s[i + j - 1] = key[j]
  <2>1. \A j \in 1 .. k : j \in 1 .. n - i + 1 /\ j \in 1 .. Len(t)
    <3> HIDE DEF n, k, t
    <3>1. QED
      BY <1>1, <1>2, <1>5
  <2>2. /\ SubSeq(t, 1, k) \in Seq(Bytes) /\ Len(SubSeq(t, 1, k)) = k
        /\ \A j \in 1 .. k : SubSeq(t, 1, k)[j] = t[j]
    <3>1. k <= Len(t)
      <4> HIDE DEF n, k, t
      <4>1. QED
        BY <1>1, <1>2, <1>5
    <3> HIDE DEF t, k
    <3>2. QED
      BY <1>1, <1>2, <3>1
  <2>3. \A j \in 1 .. k : SubSeq(t, 1, k)[j] = s[i + j - 1]
    <3> HIDE DEF n, k, t
    <3>1. QED
      BY <1>3, <2>1, <2>2
  <2>4. ASSUME \A j \in 1 .. k : s[i + j - 1] = key[j]
        PROVE  SubSeq(t, 1, k) = key
    <3> DEFINE q == SubSeq(t, 1, k)
    <3>1. q \in Seq(Bytes) /\ Len(q) = Len(key)
          /\ \A j \in 1 .. Len(q) : q[j] = key[j]
      BY <2>2, <2>3, <2>4
    <3> HIDE DEF q
    <3>2. q = key
      BY <3>1
    <3>3. QED
      BY <3>2 DEF q
  <2>5. QED
    BY <2>3, <2>4
<1>6. k <= Len(t) <=> i + k - 1 <= n
  <2> HIDE DEF n, k, t
  <2>1. QED
    BY <1>1, <1>2
<1>7. IsPrefix(key, t) <=> k <= Len(t) /\ SubSeq(t, 1, k) = key
  <2> HIDE DEF t
  <2>1. QED
    BY <1>4 DEF IsPrefix
<1> HIDE DEF n, k, t
<1>8. IsPrefix(key, t) <=> /\ i + k - 1 <= n
                           /\ \A j \in 1 .. k : s[i + j - 1] = key[j]
  BY <1>5, <1>6, <1>7
<1>9. QED
  BY <1>8 DEF n, k, t

\* One of the keys is at a place of some bytes.
KeyBytes(s, i) ==
    \/ i + 1 <= Len(s) /\ s[i] = "quote" /\ s[i + 1] = "usage"
    \/ /\ i + 2 <= Len(s) /\ s[i] = "quote" /\ s[i + 1] = "usageM"
       /\ s[i + 2] = "etadata"

LEMMA KeyPrefixes ==
    ASSUME NEW s \in Seq(Bytes), NEW i \in Nat, i >= 1, i <= Len(s)
    PROVE  /\ IsPrefix(UsageKey, SubSeq(s, i, Len(s))) <=>
                 i + 1 <= Len(s) /\ s[i] = "quote" /\ s[i + 1] = "usage"
           /\ IsPrefix(MetadataKey, SubSeq(s, i, Len(s))) <=>
                 /\ i + 2 <= Len(s) /\ s[i] = "quote" /\ s[i + 1] = "usageM"
                 /\ s[i + 2] = "etadata"
           /\ (\E key \in UsageKeys : IsPrefix(key, SubSeq(s, i, Len(s)))) <=>
                 KeyBytes(s, i)
<1>1. /\ UsageKey \in Seq(Bytes) /\ Len(UsageKey) = 2
      /\ UsageKey[1] = "quote" /\ UsageKey[2] = "usage"
  BY DEF UsageKey, Bytes
<1>2. /\ MetadataKey \in Seq(Bytes) /\ Len(MetadataKey) = 3
      /\ MetadataKey[1] = "quote" /\ MetadataKey[2] = "usageM"
      /\ MetadataKey[3] = "etadata"
  BY DEF MetadataKey, Bytes
<1>3. i + 1 - 1 = i /\ i + 2 - 1 = i + 1 /\ i + 3 - 1 = i + 2
  OBVIOUS
<1>4. /\ \A j \in 1 .. 2 : j = 1 \/ j = 2
      /\ \A j \in 1 .. 3 : j = 1 \/ j = 2 \/ j = 3
      /\ 1 \in 1 .. 2 /\ 2 \in 1 .. 2
      /\ 1 \in 1 .. 3 /\ 2 \in 1 .. 3 /\ 3 \in 1 .. 3
  OBVIOUS
<1>5. IsPrefix(UsageKey, SubSeq(s, i, Len(s))) <=>
         i + 1 <= Len(s) /\ s[i] = "quote" /\ s[i + 1] = "usage"
  <2>1. IsPrefix(UsageKey, SubSeq(s, i, Len(s))) <=>
            /\ i + 2 - 1 <= Len(s)
            /\ \A j \in 1 .. 2 : s[i + j - 1] = UsageKey[j]
    <3> DEFINE key == UsageKey
    <3>1. IsPrefix(key, SubSeq(s, i, Len(s))) <=>
              /\ i + Len(key) - 1 <= Len(s)
              /\ \A j \in 1 .. Len(key) : s[i + j - 1] = key[j]
      <4> HIDE DEF key
      <4>1. key \in Seq(Bytes)
        BY <1>1 DEF key
      <4>2. QED
        BY <4>1, PrefixAt
    <3>2. QED
      BY <1>1, <3>1
  <2>2. (\A j \in 1 .. 2 : s[i + j - 1] = UsageKey[j]) <=>
            s[i] = "quote" /\ s[i + 1] = "usage"
    BY <1>1, <1>3, <1>4
  <2>3. QED
    BY <1>3, <2>1, <2>2
<1>6. IsPrefix(MetadataKey, SubSeq(s, i, Len(s))) <=>
         /\ i + 2 <= Len(s) /\ s[i] = "quote" /\ s[i + 1] = "usageM"
         /\ s[i + 2] = "etadata"
  <2>1. IsPrefix(MetadataKey, SubSeq(s, i, Len(s))) <=>
            /\ i + 3 - 1 <= Len(s)
            /\ \A j \in 1 .. 3 : s[i + j - 1] = MetadataKey[j]
    <3> DEFINE key == MetadataKey
    <3>1. IsPrefix(key, SubSeq(s, i, Len(s))) <=>
              /\ i + Len(key) - 1 <= Len(s)
              /\ \A j \in 1 .. Len(key) : s[i + j - 1] = key[j]
      <4> HIDE DEF key
      <4>1. key \in Seq(Bytes)
        BY <1>2 DEF key
      <4>2. QED
        BY <4>1, PrefixAt
    <3>2. QED
      BY <1>2, <3>1
  <2>2. (\A j \in 1 .. 3 : s[i + j - 1] = MetadataKey[j]) <=>
            /\ s[i] = "quote" /\ s[i + 1] = "usageM" /\ s[i + 2] = "etadata"
    BY <1>2, <1>3, <1>4
  <2>3. QED
    BY <1>3, <2>1, <2>2
<1>7. QED
  BY <1>5, <1>6 DEF UsageKeys, KeyBytes

\* A part of an answer made of pieces: what of its first F bytes is kept.
Kept(ps, A, B, K, off, F) ==
    /\ Laid(ps, A, B) /\ \A n \in 1 .. Len(ps) : ps[n] \in Pieces
    /\ off \in Nat /\ F \in Nat /\ off <= F /\ F <= Len(A)
    /\ K \in Seq(Bytes) /\ Len(K) = F - off
    /\ \A i \in 1 .. F - off : K[i] = A[off + i]

\* A piece whose key has arrived, and one that has arrived.
Seen(ps, B, F, n) ==
    n \in 1 .. Len(ps) /\ Keyed(ps[n]) /\ B[n] + KeyLen(ps[n]) - 1 <= F
Ended(ps, B, F, n) == n \in 1 .. Len(ps) /\ B[n + 1] - 1 <= F

\* What the pieces of an answer are, said of one of them.
LEMMA PieceFacts ==
    ASSUME NEW ps, NEW A, NEW B, Laid(ps, A, B),
           \A n \in 1 .. Len(ps) : ps[n] \in Pieces,
           NEW n \in 1 .. Len(ps)
    PROVE  /\ Shape(ps[n]) /\ Len(ps[n]) \in 1 .. 10
           /\ B[n] \in Nat \ {0} /\ B[n + 1] \in Nat
           /\ B[n + 1] = B[n] + Len(ps[n]) /\ B[n + 1] - 1 <= Len(A)
           /\ Len(A) \in Nat /\ Len(ps) \in Nat
           /\ \A j \in 1 .. Len(ps[n]) : A[B[n] + j - 1] = ps[n][j]
<1>1. Len(ps) \in Nat /\ Len(A) \in Nat
  BY DEF Laid
<1>2. n \in 1 .. Len(ps) + 1 /\ n + 1 \in 1 .. Len(ps) + 1
      /\ Len(ps) + 1 \in 1 .. Len(ps) + 1
  BY <1>1
<1>3. B[n] \in Nat \ {0} /\ B[n + 1] \in Nat /\ B[Len(ps) + 1] \in Nat
  BY <1>2 DEF Laid
<1>4. B[n + 1] <= B[Len(ps) + 1]
  <2>1. n + 1 <= Len(ps) + 1
    BY <1>1
  <2>2. QED
    BY <1>2, <2>1, BeginsGrow
<1>5. Len(A) = B[Len(ps) + 1] - 1
  BY DEF Laid
<1>6. Shape(ps[n])
  BY PieceShape
<1>7. Len(ps[n]) \in 1 .. 10
  BY <1>6 DEF Shape
<1>8. B[n + 1] = B[n] + Len(ps[n])
      /\ \A j \in 1 .. Len(ps[n]) : A[B[n] + j - 1] = ps[n][j]
  BY DEF Laid
<1>9. B[n + 1] - 1 <= Len(A)
  BY <1>1, <1>3, <1>4, <1>5
<1>10. QED
  BY <1>1, <1>3, <1>6, <1>7, <1>8, <1>9

\* What is before a piece is not an escape.
LEMMA NoEscapeBefore ==
    ASSUME NEW ps, NEW A, NEW B, Laid(ps, A, B),
           \A n \in 1 .. Len(ps) : ps[n] \in Pieces,
           NEW n \in 1 .. Len(ps), B[n] > 1
    PROVE  A[B[n] - 1] # "\\"
<1> DEFINE b == B[n]
           i == b - 1
<1>1. /\ b \in Nat /\ b > 1 /\ b <= Len(A) /\ Len(A) \in Nat /\ Len(ps) \in Nat
  <2>1. /\ Len(ps[n]) \in 1 .. 10 /\ B[n] \in Nat \ {0} /\ B[n + 1] \in Nat
        /\ B[n + 1] = B[n] + Len(ps[n]) /\ B[n + 1] - 1 <= Len(A)
        /\ Len(A) \in Nat /\ Len(ps) \in Nat
    BY PieceFacts
  <2> DEFINE l == Len(ps[n])
             a == Len(A)
  <2>2. l \in 1 .. 10 /\ b \in Nat /\ b + l - 1 <= a /\ a \in Nat
    BY <2>1
  <2> HIDE DEF l, b, a
  <2>3. b <= a
    BY <2>2
  <2>4. QED
    BY <2>1, <2>3 DEF b, a
<1>2. i \in 1 .. Len(A)
  <2> HIDE DEF b
  <2>1. QED
    BY <1>1
<1>3. PICK m \in 1 .. Len(ps) :
          /\ B[m] <= i /\ i < B[m + 1]
          /\ i - B[m] + 1 \in 1 .. Len(ps[m])
          /\ A[i] = ps[m][i - B[m] + 1]
  <2> HIDE DEF i
  <2>1. QED
    BY <1>2, PieceAt
<1>4. /\ Shape(ps[m]) /\ Len(ps[m]) \in 1 .. 10 /\ B[m] \in Nat
      /\ B[m + 1] = B[m] + Len(ps[m])
  BY PieceFacts
<1>5. m + 1 <= n
  <2>1. CASE n <= m
    <3>1. n \in 1 .. Len(ps) + 1 /\ m \in 1 .. Len(ps) + 1
      BY <1>1
    <3>2. B[n] <= B[m]
      BY <2>1, <3>1, BeginsGrow
    <3>3. QED
      BY <1>1, <1>3, <1>4, <3>2
  <2>2. QED
    BY <2>1
<1>6. B[m + 1] <= b
  <2> DEFINE k == m + 1
  <2>1. k \in 1 .. Len(ps) + 1 /\ n \in 1 .. Len(ps) + 1 /\ k <= n
    BY <1>1, <1>5
  <2> HIDE DEF k
  <2>2. B[k] <= B[n]
    BY <2>1, BeginsGrow
  <2>3. QED
    BY <2>2 DEF k
<1>7. i - B[m] + 1 = Len(ps[m])
  <2> DEFINE a == B[m]
             l == Len(ps[m])
             c == B[m + 1]
  <2>1. a \in Nat /\ l \in Nat /\ c = a + l /\ c <= b /\ b - 1 < c /\ b \in Nat
    BY <1>1, <1>3, <1>4, <1>6
  <2> HIDE DEF a, l, c, b
  <2>2. b - 1 - a + 1 = l
    BY <2>1
  <2>3. QED
    BY <2>2 DEF a, l
<1>8. QED
  BY <1>3, <1>4, <1>7 DEF Shape

\* The key of a piece is a key of what is kept once it has arrived.
LEMMA KeyBytesOfPiece ==
    ASSUME NEW ps, NEW A, NEW B, NEW K, NEW off, NEW F,
           Kept(ps, A, B, K, off, F),
           NEW n \in 1 .. Len(ps), Keyed(ps[n]),
           NEW i \in 1 .. F - off, off + i = B[n]
    PROVE  KeyBytes(K, i) <=> Seen(ps, B, F, n)
<1> DEFINE p == ps[n]
           b == B[n]
           l == F - off
<1>1. /\ Shape(p) /\ Len(p) \in 1 .. 10 /\ b \in Nat
      /\ \A j \in 1 .. Len(p) : A[b + j - 1] = p[j]
  BY PieceFacts DEF Kept
<1>2. /\ off \in Nat /\ F \in Nat /\ l \in Nat /\ Len(K) = l
      /\ \A j \in 1 .. l : K[j] = A[off + j]
  BY DEF Kept
<1>3. KeyShape(p) /\ p[1] = "quote" /\ Value(p) <= Len(p)
  BY <1>1 DEF Shape, Keyed, KeyShape
<1>4. \/ p[2] = "usage" /\ KeyLen(p) = 2 /\ 4 <= Len(p)
      \/ /\ p[2] = "usageM" /\ p[3] = "etadata" /\ KeyLen(p) = 3 /\ 5 <= Len(p)
         /\ p[2] # "usage"
  BY <1>3 DEF KeyShape, KeyLen, Value
<1>5. Seen(ps, B, F, n) <=> b + KeyLen(p) - 1 <= F
  BY DEF Seen
<1>6. off + i = b /\ i \in 1 .. l
  OBVIOUS
<1>7. l = F - off
  OBVIOUS
<1>8. ASSUME NEW j \in 1 .. 3, j <= Len(p), i + j - 1 <= l
      PROVE  K[i + j - 1] = p[j]
  <2> HIDE DEF p, b, l
  <2>1. i + j - 1 \in 1 .. l /\ off + (i + j - 1) = b + j - 1
        /\ j \in 1 .. Len(p)
    BY <1>1, <1>2, <1>6, <1>8
  <2>2. QED
    BY <1>1, <1>2, <2>1
<1> DEFINE L == Len(p)
           KL == KeyLen(p)
<1>9. L \in 1 .. 10
  BY <1>1
<1>10. /\ i <= l => K[i] = p[1]
       /\ i + 1 <= l => K[i + 1] = p[2]
       /\ L >= 3 /\ i + 2 <= l => K[i + 2] = p[3]
  <2> HIDE DEF p, b, l
  <2>1. i + 1 - 1 = i /\ i + 2 - 1 = i + 1 /\ i + 3 - 1 = i + 2
    OBVIOUS
  <2>2. 1 <= L /\ 2 <= L
    BY <1>4, <1>9
  <2>3. 1 \in 1 .. 3 /\ 2 \in 1 .. 3 /\ 3 \in 1 .. 3
    OBVIOUS
  <2>4. i <= l => K[i] = p[1]
    BY <1>8, <2>1, <2>2, <2>3
  <2>5. i + 1 <= l => K[i + 1] = p[2]
    BY <1>8, <2>1, <2>2, <2>3
  <2>6. L >= 3 /\ i + 2 <= l => K[i + 2] = p[3]
    BY <1>8, <1>9, <2>1, <2>3
  <2>7. QED
    BY <2>4, <2>5, <2>6
<1>11. KeyBytes(K, i) <=>
          \/ i + 1 <= l /\ K[i] = "quote" /\ K[i + 1] = "usage"
          \/ /\ i + 2 <= l /\ K[i] = "quote" /\ K[i + 1] = "usageM"
             /\ K[i + 2] = "etadata"
  BY <1>2 DEF KeyBytes
<1> HIDE DEF p, b, l, L, KL
<1>12. CASE p[2] = "usage" /\ KeyLen(p) = 2
  <2>1. Seen(ps, B, F, n) <=> i + 1 <= l
    BY <1>2, <1>5, <1>6, <1>12 DEF l
  <2>2. i + 2 <= l => i + 1 <= l
    BY <1>2, <1>6
  <2>3. i <= l
    BY <1>2, <1>6
  <2>4. QED
    BY <1>3, <1>10, <1>11, <1>12, <2>1, <2>2, <2>3
<1>13. CASE /\ p[2] = "usageM" /\ p[3] = "etadata" /\ KeyLen(p) = 3
            /\ p[2] # "usage" /\ L >= 3
  <2>1. Seen(ps, B, F, n) <=> i + 2 <= l
    BY <1>2, <1>5, <1>6, <1>13 DEF l
  <2>2. i + 2 <= l => i + 1 <= l
    BY <1>2, <1>6
  <2>3. i <= l
    BY <1>2, <1>6
  <2>4. QED
    BY <1>3, <1>10, <1>11, <1>13, <2>1, <2>2, <2>3
<1>14. QED
  BY <1>1, <1>4, <1>12, <1>13 DEF L

\* Where it is looked at from, an escape is not just out of sight.
Clean(A, off, from) == from > 1 \/ off = 0 \/ A[off] # "\\"

\* A quote that is not escaped begins a piece.
LEMMA QuoteBegins ==
    ASSUME NEW ps, NEW A, NEW B, NEW K, NEW off, NEW F,
           Kept(ps, A, B, K, off, F),
           NEW i \in 1 .. F - off, K[i] = "quote", Clean(A, off, i),
           ~ (i > 1 /\ K[i - 1] = "\\")
    PROVE  \E n \in 1 .. Len(ps) : Keyed(ps[n]) /\ off + i = B[n]
<1>1. /\ off \in Nat /\ F \in Nat /\ off <= F /\ F <= Len(A) /\ Len(A) \in Nat
      /\ i \in Nat /\ i >= 1 /\ off + i <= F
  BY DEF Kept, Laid
<1> DEFINE a == off + i
<1>2. a \in 1 .. Len(A)
  BY <1>1
<1>3. PICK n \in 1 .. Len(ps) :
          /\ B[n] <= a /\ a < B[n + 1]
          /\ a - B[n] + 1 \in 1 .. Len(ps[n])
          /\ A[a] = ps[n][a - B[n] + 1]
  <2> HIDE DEF a
  <2>1. Laid(ps, A, B)
    BY DEF Kept
  <2>2. QED
    BY <1>2, <2>1, PieceAt
<1> DEFINE p == ps[n]
           b == B[n]
           j == a - b + 1
<1>4. /\ Shape(p) /\ Len(p) \in 1 .. 10 /\ b \in Nat \ {0}
      /\ \A l \in 1 .. Len(p) : A[b + l - 1] = p[l]
  <2>1. Laid(ps, A, B) /\ \A m \in 1 .. Len(ps) : ps[m] \in Pieces
    BY DEF Kept
  <2>2. QED
    BY <2>1, PieceFacts
<1>5. p[j] = "quote" /\ j \in 1 .. Len(p)
  <2>1. K[i] = A[off + i]
    BY DEF Kept
  <2>2. QED
    BY <1>3, <2>1
<1>6. CASE j = 1
  <2>1. b = off + i
    BY <1>1, <1>4, <1>6
  <2>2. Keyed(p)
    BY <1>5, <1>6 DEF Keyed
  <2>3. QED
    BY <2>1, <2>2
<1>7. CASE j # 1
  <2>1. j \in 2 .. Len(p) /\ p[j - 1] = "\\"
    BY <1>4, <1>5, <1>7 DEF Shape
  <2>2. j - 1 \in 1 .. Len(p) /\ b + (j - 1) - 1 = off + (i - 1)
        /\ off + (i - 1) >= 1
    <3> DEFINE q == Len(p)
    <3>1. q \in Nat /\ j \in 2 .. q /\ b \in Nat \ {0} /\ off \in Nat
          /\ i \in Nat
      BY <1>1, <1>4, <2>1
    <3> HIDE DEF p, b, q
    <3>2. j - 1 \in 1 .. q
      BY <3>1
    <3>3. b + (j - 1) - 1 = off + (i - 1) /\ off + (i - 1) >= 1
      BY <3>1
    <3>4. QED
      BY <3>2, <3>3 DEF q
  <2>3. A[off + (i - 1)] = "\\"
    <3> DEFINE c == j - 1
    <3>1. c \in 1 .. Len(p) /\ b + c - 1 = off + (i - 1)
      BY <2>2
    <3>2. p[c] = "\\"
      BY <2>1
    <3> HIDE DEF c, b, p
    <3>3. A[b + c - 1] = p[c]
      BY <1>4, <3>1
    <3>4. QED
      BY <3>1, <3>2, <3>3
  <2>4. CASE i > 1
    <3> DEFINE h == i - 1
    <3>1. h \in 1 .. F - off
      BY <1>1, <2>4
    <3> HIDE DEF h
    <3>2. K[h] = A[off + h]
      BY <3>1 DEF Kept
    <3>3. QED
      BY <2>3, <2>4, <3>2 DEF h
  <2>5. CASE ~(i > 1)
    <3>1. i = 1 /\ off + (i - 1) = off /\ off >= 1
      BY <1>1, <2>2, <2>5
    <3>2. QED
      BY <2>3, <3>1 DEF Clean
  <2>6. QED
    BY <2>4, <2>5
<1>8. QED
  BY <1>6, <1>7

\* The keys the scanner finds are those of the pieces whose key has arrived.
LEMMA KeysOfPieces ==
    ASSUME NEW ps, NEW A, NEW B, NEW K, NEW off, NEW F,
           Kept(ps, A, B, K, off, F),
           NEW i \in 1 .. F - off, Clean(A, off, i)
    PROVE  KeyAt(K, i) <=>
               \E n \in 1 .. Len(ps) : Seen(ps, B, F, n) /\ off + i = B[n]
<1>1. i \in Nat /\ i >= 1 /\ i <= Len(K) /\ K \in Seq(Bytes)
  BY DEF Kept, Laid
<1>2. KeyAt(K, i) <=> ~(i > 1 /\ K[i - 1] = "\\") /\ KeyBytes(K, i)
  <2>1. (\E key \in UsageKeys : IsPrefix(key, SubSeq(K, i, Len(K))))
           <=> KeyBytes(K, i)
    BY <1>1, KeyPrefixes
  <2>2. QED
    BY <2>1 DEF KeyAt
<1>3. ASSUME KeyAt(K, i)
      PROVE  \E n \in 1 .. Len(ps) : Seen(ps, B, F, n) /\ off + i = B[n]
  <2>1. KeyBytes(K, i) /\ ~(i > 1 /\ K[i - 1] = "\\")
    BY <1>2, <1>3
  <2>2. K[i] = "quote"
    BY <2>1 DEF KeyBytes
  <2>3. PICK n \in 1 .. Len(ps) : Keyed(ps[n]) /\ off + i = B[n]
    BY <2>1, <2>2, QuoteBegins
  <2>4. Seen(ps, B, F, n)
    BY <2>1, <2>3, KeyBytesOfPiece
  <2>5. QED
    BY <2>3, <2>4
<1>4. ASSUME NEW n \in 1 .. Len(ps), Seen(ps, B, F, n), off + i = B[n]
      PROVE  KeyAt(K, i)
  <2>1. Keyed(ps[n])
    BY <1>4 DEF Seen
  <2>2. KeyBytes(K, i)
    BY <1>4, <2>1, KeyBytesOfPiece
  <2>3. ~(i > 1 /\ K[i - 1] = "\\")
    <3> SUFFICES ASSUME i > 1 PROVE K[i - 1] # "\\"
      OBVIOUS
    <3> DEFINE h == i - 1
    <3>1. h \in 1 .. F - off /\ off + h = B[n] - 1 /\ B[n] > 1
      BY <1>1, <1>4 DEF Kept
    <3> HIDE DEF h
    <3>2. K[h] = A[off + h]
      BY <3>1 DEF Kept
    <3>3. A[B[n] - 1] # "\\"
      <4>1. Laid(ps, A, B) /\ \A m \in 1 .. Len(ps) : ps[m] \in Pieces
        BY DEF Kept
      <4>2. QED
        BY <3>1, <4>1, NoEscapeBefore
    <3>4. QED
      BY <3>1, <3>2, <3>3 DEF h
  <2>4. QED
    BY <1>2, <2>2, <2>3
<1>5. QED
  BY <1>3, <1>4

-----------------------------------------------------------------------------
(* Values and objects.                                                     *)

\* What is kept of a piece.
LEMMA KeptOfPiece ==
    ASSUME NEW ps, NEW A, NEW B, NEW K, NEW off, NEW F,
           Kept(ps, A, B, K, off, F),
           NEW n \in 1 .. Len(ps), NEW i \in Nat \ {0}, off + i = B[n],
           NEW j \in 1 .. Len(ps[n]), i + j - 1 <= F - off
    PROVE  K[i + j - 1] = ps[n][j]
<1> DEFINE l == Len(ps[n])
<1>1. /\ off \in Nat /\ F \in Nat /\ off <= F
      /\ \A h \in 1 .. F - off : K[h] = A[off + h]
  BY DEF Kept
<1>2. /\ l \in 1 .. 10 /\ \A h \in 1 .. l : A[B[n] + h - 1] = ps[n][h]
  <2>1. Laid(ps, A, B) /\ \A m \in 1 .. Len(ps) : ps[m] \in Pieces
    BY DEF Kept
  <2>2. QED
    BY <2>1, PieceFacts
<1>3. j \in 1 .. l
  OBVIOUS
<1> HIDE DEF l
<1> DEFINE h == i + j - 1
<1>4. h \in 1 .. F - off /\ off + h = B[n] + j - 1
  BY <1>1, <1>2, <1>3
<1> HIDE DEF h
<1>5. K[h] = ps[n][j]
  BY <1>1, <1>2, <1>3, <1>4
<1>6. QED
  BY <1>5 DEF h

\* What follows a key that has arrived, if it has arrived, too.
LEMMA ValueOfPiece ==
    ASSUME NEW ps, NEW A, NEW B, NEW K, NEW off, NEW F,
           Kept(ps, A, B, K, off, F),
           NEW n \in 1 .. Len(ps), Keyed(ps[n]),
           NEW i \in Nat \ {0}, off + i = B[n]
    PROVE  ValuesAfter(K, i) =
               IF i + Value(ps[n]) - 1 <= F - off
               THEN {i + Value(ps[n]) - 1} ELSE {}
<1> DEFINE p == ps[n]
           L == Len(p)
           k == KeyLen(p)
           l == F - off
           colons == {c \in i .. l - 1 : K[c] = ":"}
<1>1. Shape(p) /\ L \in 1 .. 10 /\ Value(p) = k + 2
  <2>1. Laid(ps, A, B) /\ \A m \in 1 .. Len(ps) : ps[m] \in Pieces
    BY DEF Kept
  <2>2. QED
    BY <2>1, PieceFacts DEF Value
<1>2. /\ k + 2 <= L /\ p[k + 1] = ":" /\ \A j \in 1 .. k : p[j] # ":"
      /\ k \in Nat
  <2>1. KeyShape(p)
    BY <1>1 DEF Shape
  <2>2. k \in Nat
    BY DEF KeyLen
  <2>3. QED
    BY <1>1, <2>1, <2>2 DEF KeyShape
<1>3. l \in Nat /\ Len(K) = l
  BY DEF Kept
<1>4. \A j \in 1 .. L : i + j - 1 <= l => K[i + j - 1] = p[j]
  BY KeptOfPiece
<1>5. ValuesAfter(K, i) = {Min(cs) + 1 : cs \in {colons} \ {{}}}
  BY <1>3 DEF ValuesAfter
<1> HIDE DEF p, L, k, l
<1>6. \A c \in i .. l - 1 : c < i + k => c \notin colons
  <2> SUFFICES ASSUME NEW c \in i .. l - 1, c < i + k PROVE K[c] # ":"
    OBVIOUS
  <2> DEFINE j == c - i + 1
  <2>1. j \in 1 .. k /\ j \in 1 .. L /\ i + j - 1 = c /\ c <= l
    BY <1>1, <1>2, <1>3
  <2> HIDE DEF j
  <2>2. K[c] = p[j]
    BY <1>4, <2>1
  <2>3. QED
    BY <1>2, <2>1, <2>2
<1>7. CASE i + k + 1 <= l
  <2> DEFINE c == i + k
             j == k + 1
  <2>1. c \in i .. l - 1 /\ j \in 1 .. L /\ i + j - 1 = c /\ c <= l
    BY <1>1, <1>2, <1>3, <1>7
  <2>2. p[j] = ":"
    BY <1>2
  <2> HIDE DEF c, j
  <2>3. K[c] = ":"
    BY <1>4, <2>1, <2>2
  <2>4. c \in colons /\ colons \subseteq Int
    BY <2>1, <2>3
  <2>5. \A d \in colons : c <= d
    <3> SUFFICES ASSUME NEW d \in colons, d < c PROVE FALSE
      BY <2>1, <1>3
    <3>1. d \in i .. l - 1 /\ d < i + k
      BY DEF c
    <3> HIDE DEF colons
    <3>2. QED
      BY <1>6, <3>1
  <2> HIDE DEF colons
  <2>6. Min(colons) = c
    BY <2>4, <2>5, MinIs
  <2>7. {colons} \ {{}} = {colons}
    BY <2>4
  <2>8. ValuesAfter(K, i) = {c + 1}
    BY <1>5, <2>6, <2>7
  <2>9. i + Value(p) - 1 <= l /\ i + Value(p) - 1 = c + 1
    BY <1>1, <1>2, <1>7 DEF c
  <2>10. QED
    BY <2>8, <2>9 DEF p, l
<1>8. CASE ~(i + k + 1 <= l)
  <2>1. \A c \in i .. l - 1 : c < i + k
    BY <1>2, <1>3, <1>8
  <2>2. colons = {}
    BY <1>6, <2>1
  <2> HIDE DEF colons
  <2>3. {colons} \ {{}} = {}
    BY <2>2
  <2>4. ValuesAfter(K, i) = {}
    BY <1>5, <2>3
  <2>5. ~(i + Value(p) - 1 <= l)
    BY <1>1, <1>2, <1>3, <1>8
  <2>6. QED
    BY <2>4, <2>5 DEF p, l
<1>9. QED
  BY <1>7, <1>8

\* The same bytes at another place, and the braces in them.
SameFrom(s, t, v, w, d) == \A k \in 0 .. d : s[v + k] = t[w + k]
SameBalance(s, t, v, w, d) == Balanced(s, v, v + d) <=> Balanced(t, w, w + d)

LEMMA BracesShift ==
    ASSUME NEW s, NEW t, NEW v \in Nat, NEW w \in Nat, NEW d \in Nat,
           SameFrom(s, t, v, w, d)
    PROVE  SameBalance(s, t, v, w, d)
<1> SUFFICES ASSUME NEW brace
             PROVE  Cardinality(Braces(s, v, v + d, brace))
                        = Cardinality(Braces(t, w, w + d, brace))
  BY DEF SameBalance, Balanced
<1> DEFINE X(n) == Cardinality(Braces(s, v, n, brace))
           Y(n) == Cardinality(Braces(t, w, n, brace))
           T == {k \in Nat : k <= d => X(v + k) = Y(w + k)}
<1>1. 0 \in T
  <2>1. s[v] = t[w]
    <3>1. v + 0 = v /\ w + 0 = w /\ 0 \in 0 .. d
      OBVIOUS
    <3>2. QED
      BY <3>1 DEF SameFrom
  <2>2. X(v) = Y(w)
    BY <2>1, BracesFirst
  <2>3. v + 0 = v /\ w + 0 = w
    OBVIOUS
  <2>4. QED
    BY <2>2, <2>3
<1>2. ASSUME NEW n \in Nat, v <= n + 1
      PROVE  X(n + 1) = X(n) + IF s[n + 1] = brace THEN 1 ELSE 0
  BY <1>2, BracesNext
<1>3. ASSUME NEW n \in Nat, w <= n + 1
      PROVE  Y(n + 1) = Y(n) + IF t[n + 1] = brace THEN 1 ELSE 0
  BY <1>3, BracesNext
<1> HIDE DEF X, Y
<1>4. ASSUME NEW k \in Nat, k \in T PROVE k + 1 \in T
  <2> SUFFICES ASSUME k + 1 <= d PROVE X(v + (k + 1)) = Y(w + (k + 1))
    OBVIOUS
  <2> DEFINE m == v + k
             n == w + k
             h == k + 1
  <2>1. /\ m \in Nat /\ n \in Nat /\ v <= m + 1 /\ w <= n + 1
        /\ m + 1 = v + h /\ n + 1 = w + h /\ h \in 0 .. d
    OBVIOUS
  <2>2. X(m) = Y(n)
    BY <1>4
  <2> HIDE DEF m, n, h
  <2>3. s[m + 1] = t[n + 1]
    BY <2>1 DEF SameFrom
  <2>4. X(m + 1) = Y(n + 1)
    BY <1>2, <1>3, <2>1, <2>2, <2>3
  <2>5. X(v + h) = Y(w + h)
    BY <2>1, <2>4
  <2>6. QED
    BY <2>5 DEF h
<1>5. Nat \subseteq T
  <2>1. \A k \in Nat : k \in T => k + 1 \in T
    BY <1>4
  <2> HIDE DEF T
  <2>2. QED
    BY <1>1, <2>1, SetOfNaturals
<1>6. d \in T
  BY <1>5
<1>7. X(v + d) = Y(w + d)
  BY <1>6
<1>8. QED
  BY <1>7 DEF X, Y

\* Where the value and the end of a piece are that begins at i.
Spans(p, i, V, E) == V = i + Value(p) - 1 /\ E = i + Len(p) - 1

\* Where the object of a piece ends, if it has arrived.
LEMMA EndOfPiece ==
    ASSUME NEW ps, NEW A, NEW B, NEW K, NEW off, NEW F,
           Kept(ps, A, B, K, off, F),
           NEW n \in 1 .. Len(ps), Keyed(ps[n]), ps[n][Value(ps[n])] = "open",
           NEW i \in Nat \ {0}, off + i = B[n],
           NEW V, NEW E, Spans(ps[n], i, V, E)
    PROVE  ObjectEnds(K, V) = IF E <= F - off THEN {E} ELSE {}
<1> DEFINE p == ps[n]
           L == Len(p)
           v == Value(p)
           l == F - off
           ends == {e \in V .. l : Balanced(K, V, e)}
<1>1. Shape(p) /\ L \in 1 .. 10
  <2>1. Laid(ps, A, B) /\ \A m \in 1 .. Len(ps) : ps[m] \in Pieces
    BY DEF Kept
  <2>2. QED
    BY <2>1, PieceFacts
<1>2. v \in Nat \ {0} /\ v <= L /\ \A e \in v .. L : Balanced(p, v, e) <=> e = L
  <2>1. KeyShape(p)
    BY <1>1 DEF Shape
  <2>2. v \in Nat \ {0}
    BY DEF Value, KeyLen
  <2>3. QED
    BY <2>1, <2>2 DEF KeyShape, Closed
<1>3. l \in Nat /\ Len(K) = l
  BY DEF Kept
<1>4. \A j \in 1 .. L : i + j - 1 <= l => K[i + j - 1] = p[j]
  BY KeptOfPiece
<1>5. V = i + v - 1 /\ E = i + L - 1
  BY DEF Spans
<1>6. ObjectEnds(K, V) = {Min(es) : es \in {ends} \ {{}}}
  <2> HIDE DEF l
  <2>1. ObjectEnds(K, V) = {Min(es) : es \in {ends} \ {{}}}
    BY <1>3 DEF ObjectEnds, Balanced, Braces
  <2>2. QED
    BY <2>1
<1> HIDE DEF p, L, v, l
<1>7. ASSUME NEW e \in V .. l, e <= E
      PROVE  Balanced(K, V, e) <=> e = E
  <2> DEFINE d == e - V
  <2>1. /\ d \in Nat /\ V + d = e /\ v + d \in v .. L /\ V \in Nat
        /\ (v + d = L <=> e = E)
    BY <1>5, <1>1, <1>2, <1>3, <1>7
  <2>2. \A k \in 0 .. d : K[V + k] = p[v + k]
    <3> SUFFICES ASSUME NEW k \in 0 .. d PROVE K[V + k] = p[v + k]
      OBVIOUS
    <3> DEFINE j == v + k
    <3>1. j \in 1 .. L /\ i + j - 1 = V + k /\ V + k <= l
      BY <1>5, <1>1, <1>2, <1>3, <1>7
    <3> HIDE DEF j
    <3>2. QED
      BY <1>4, <3>1 DEF j
  <2>3. SameFrom(K, p, V, v, d)
    BY <2>2 DEF SameFrom
  <2> HIDE DEF d
  <2>4. V \in Nat /\ v \in Nat /\ d \in Nat
    BY <1>2, <2>1
  <2>5. SameBalance(K, p, V, v, d)
    BY <2>4, <2>3, BracesShift
  <2>6. Balanced(p, v, v + d) <=> v + d = L
    BY <1>2, <2>1
  <2>7. QED
    BY <2>1, <2>5, <2>6 DEF SameBalance
<1>8. V \in Nat /\ E \in Nat /\ V <= E
  BY <1>5, <1>1, <1>2
<1>9. CASE E <= l
  <2>1. E \in ends /\ ends \subseteq Int
    BY <1>3, <1>7, <1>8, <1>9
  <2>2. \A e \in ends : E <= e
    BY <1>3, <1>7, <1>8
  <2> HIDE DEF ends
  <2>3. Min(ends) = E
    BY <2>1, <2>2, MinIs
  <2>4. {ends} \ {{}} = {ends}
    BY <2>1
  <2>5. ObjectEnds(K, V) = {E}
    BY <1>6, <2>3, <2>4
  <2>6. QED
    BY <1>9, <2>5 DEF l
<1>10. CASE ~(E <= l)
  <2>1. ends = {}
    BY <1>3, <1>7, <1>8, <1>10
  <2> HIDE DEF ends
  <2>2. {ends} \ {{}} = {}
    BY <2>1
  <2>3. ObjectEnds(K, V) = {}
    BY <1>6, <2>2
  <2>4. QED
    BY <1>10, <2>3 DEF l
<1>11. QED
  BY <1>9, <1>10

-----------------------------------------------------------------------------
(* What is counted.                                                        *)

\* The fields of the reports among some pieces, and the most of each kind.
Found(ps, pr, S) ==
    {f \in DOMAIN Field :
        \E i \in S : ps[i] \in Reports[pr] /\ Contains(ps[i], f)}
Values(fields, kind) == {Field[f][kind] : f \in fields}
Most(ps, pr, S) ==
    [kind \in Kinds |-> Max({0} \cup Values(Found(ps, pr, S), kind))]

\* What the counts are once a piece is merged into them.
Merged(p, counts) ==
    IF p[Value(p)] # "open" THEN counts
    ELSE MergeParsed(counts, SubSeq(p, Value(p), Len(p)))

LEMMA FieldValues ==
    /\ DOMAIN Field = {"in1", "in2", "out1", "out2", "hit1", "read2", "made1"}
    /\ \A f \in DOMAIN Field, kind \in Kinds : Field[f][kind] \in 0 .. 2
<1>1. DOMAIN Field = {"in1", "in2", "out1", "out2", "hit1", "read2", "made1"}
  BY DEF Field
<1>2. \A kind \in Kinds :
          kind = 1 \/ kind = 2 \/ kind = 3 \/ kind = 4 \/ kind = 5
  BY DEF Kinds
<1>3. ASSUME NEW kind \in {1, 2, 3, 4, 5}
      PROVE  /\ Field["in1"][kind] \in 0 .. 2 /\ Field["in2"][kind] \in 0 .. 2
             /\ Field["out1"][kind] \in 0 .. 2 /\ Field["out2"][kind] \in 0 .. 2
             /\ Field["hit1"][kind] \in 0 .. 2
             /\ Field["read2"][kind] \in 0 .. 2
             /\ Field["made1"][kind] \in 0 .. 2
  BY DEF Field
<1>4. QED
  BY <1>1, <1>2, <1>3

LEMMA ValuesBounded ==
    ASSUME NEW fields \in SUBSET (DOMAIN Field), NEW kind \in Kinds
    PROVE  Values(fields, kind) \in SUBSET (0 .. 2)
BY FieldValues DEF Values

LEMMA MaxOfMax ==
    ASSUME NEW X \in SUBSET (0 .. 2), NEW Y \in SUBSET (0 .. 2)
    PROVE  /\ Max({0} \cup X) \in 0 .. 2
           /\ Max({Max({0} \cup X)} \cup Y) = Max({0} \cup X \cup Y)
<1> DEFINE m == Max({0} \cup X)
           M == Max({m} \cup Y)
<1>1. 2 \in Nat
  OBVIOUS
<1>2. m \in {0} \cup X /\ \A y \in {0} \cup X : y <= m
  <2> DEFINE S == {0} \cup X
  <2>1. S \in SUBSET (0 .. 2) /\ S # {}
    OBVIOUS
  <2> HIDE DEF S
  <2>2. Max(S) \in S /\ \A y \in S : y <= Max(S)
    BY <1>1, <2>1, MaxOfNaturals
  <2>3. QED
    BY <2>2 DEF S
<1> HIDE DEF m
<1>3. m \in 0 .. 2
  <2>1. {0} \cup X \subseteq 0 .. 2
    OBVIOUS
  <2>2. QED
    BY <1>2, <2>1
<1>4. M \in {m} \cup Y /\ \A y \in {m} \cup Y : y <= M
  <2> DEFINE S == {m} \cup Y
  <2>1. S \in SUBSET (0 .. 2) /\ S # {}
    BY <1>3
  <2> HIDE DEF S
  <2>2. Max(S) \in S /\ \A y \in S : y <= Max(S)
    BY <1>1, <2>1, MaxOfNaturals
  <2>3. QED
    BY <2>2 DEF S
<1> HIDE DEF M
<1> DEFINE S == {0} \cup X \cup Y
<1>5. M \in S /\ \A y \in S : y <= M
  BY <1>2, <1>3, <1>4
<1>6. S \in SUBSET Int
  OBVIOUS
<1> HIDE DEF S
<1>7. Max(S) = M
  BY <1>5, <1>6, MaxIs
<1>8. QED
  BY <1>3, <1>7 DEF S, M, m

LEMMA MostType ==
    ASSUME NEW ps, NEW pr, NEW S
    PROVE  Most(ps, pr, S) \in [Kinds -> 0 .. 2]
<1>1. ASSUME NEW kind \in Kinds
      PROVE  Max({0} \cup Values(Found(ps, pr, S), kind)) \in 0 .. 2
  <2> DEFINE X == Values(Found(ps, pr, S), kind)
  <2>1. Found(ps, pr, S) \in SUBSET (DOMAIN Field)
    BY DEF Found
  <2>2. X \in SUBSET (0 .. 2)
    BY <2>1, ValuesBounded
  <2> HIDE DEF X
  <2>3. Max({0} \cup X) \in 0 .. 2
    BY <2>2, MaxOfMax
  <2>4. QED
    BY <2>3 DEF X
<1>2. QED
  BY <1>1 DEF Most

\* The end of a sequence.
LEMMA TailHas ==
    ASSUME NEW p \in Seq(Bytes), NEW v \in 1 .. Len(p), NEW x
    PROVE  /\ Contains(SubSeq(p, v, Len(p)), x) <=>
                 \E j \in v .. Len(p) : p[j] = x
           /\ x \in ToSet(SubSeq(p, v, Len(p))) <=>
                 \E j \in v .. Len(p) : p[j] = x
<1> DEFINE t == SubSeq(p, v, Len(p))
           l == Len(p)
<1>1. l \in Nat /\ v \in 1 .. l
  OBVIOUS
<1>2. Len(t) = l - v + 1 /\ DOMAIN t = 1 .. l - v + 1
  OBVIOUS
<1>3. \A i \in 1 .. l - v + 1 : t[i] = p[v + i - 1]
  OBVIOUS
<1>4. Contains(t, x) <=> \E i \in 1 .. l - v + 1 : t[i] = x
  <2> HIDE DEF t, l
  <2>1. QED
    BY <1>2 DEF Contains
<1>5. x \in ToSet(t) <=> \E i \in 1 .. l - v + 1 : t[i] = x
  <2> HIDE DEF t, l
  <2>1. QED
    BY <1>2 DEF ToSet
<1> HIDE DEF t, l
<1>6. (\E i \in 1 .. l - v + 1 : t[i] = x) => \E j \in v .. l : p[j] = x
  <2> SUFFICES ASSUME NEW i \in 1 .. l - v + 1, t[i] = x
               PROVE  \E j \in v .. l : p[j] = x
    OBVIOUS
  <2> DEFINE j == v + i - 1
  <2>1. j \in v .. l
    BY <1>1
  <2>2. p[j] = x
    BY <1>3
  <2>3. QED
    BY <2>1, <2>2
<1>7. (\E j \in v .. l : p[j] = x) => \E i \in 1 .. l - v + 1 : t[i] = x
  <2> SUFFICES ASSUME NEW j \in v .. l, p[j] = x
               PROVE  \E i \in 1 .. l - v + 1 : t[i] = x
    OBVIOUS
  <2> DEFINE i == j - v + 1
  <2>1. i \in 1 .. l - v + 1 /\ v + i - 1 = j
    BY <1>1
  <2> HIDE DEF i
  <2>2. t[i] = x
    BY <1>3, <2>1
  <2>3. QED
    BY <2>1, <2>2
<1>8. QED
  BY <1>4, <1>5, <1>6, <1>7 DEF t, l

\* An object of a report parses, and no other one does.
LEMMA ReportParses ==
    ASSUME NEW pr \in DOMAIN Reports, NEW p \in Reports[pr]
    PROVE  /\ p \in Pieces /\ Keyed(p) /\ p[Value(p)] = "open"
           /\ \A j \in 1 .. Len(p) : p[j] # "bad"
<1>1. p \in Pieces
  BY DEF Pieces
<1>2. pr = "openai" \/ pr = "anthropic" \/ pr = "gemini"
  BY DEF Reports
<1>3. \/ p = Nested
      \/ p = <<"quote", "usage", ":", "open", "in1", "close">>
      \/ p = <<"quote", "usage", ":", "open", "in1", "read2", "made1", "close">>
      \/ p = <<"quote", "usage", ":", "open", "out2", "close">>
      \/ p = <<"quote", "usageM", "etadata", ":", "open", "in1",
               "out2", "close">>
  BY <1>2 DEF Reports, Nested
<1>4. Keyed(p)
  BY <1>3 DEF Keyed, Nested
<1>5. (p[2] = "usage" /\ p[4] = "open") \/ (p[2] # "usage" /\ p[5] = "open")
  BY <1>3 DEF Nested
<1>6. p[Value(p)] = "open"
  BY <1>5 DEF Value, KeyLen
<1>7. ASSUME NEW j \in 1 .. Len(p) PROVE p[j] # "bad"
  <2>1. CASE p = Nested
    BY <2>1 DEF Nested
  <2>2. CASE p = <<"quote", "usage", ":", "open", "in1", "close">>
    BY <2>2
  <2>3. CASE p = <<"quote", "usage", ":", "open", "in1", "read2",
                   "made1", "close">>
    BY <2>3
  <2>4. CASE p = <<"quote", "usage", ":", "open", "out2", "close">>
    BY <2>4
  <2>5. CASE p = <<"quote", "usageM", "etadata", ":", "open", "in1",
                   "out2", "close">>
    BY <2>5
  <2>6. QED
    BY <1>3, <2>1, <2>2, <2>3, <2>4, <2>5
<1>8. QED
  BY <1>1, <1>4, <1>6, <1>7

LEMMA OtherDoesNot ==
    ASSUME NEW p \in Others, Keyed(p)
    PROVE  p[Value(p)] # "open" \/ \E j \in Value(p) .. Len(p) : p[j] = "bad"
<1>1. \/ p = <<"quote", "usage", ":", "text">>
      \/ p = <<"quote", "usageM", "etadata", ":", "open", "bad",
               "in2", "close">>
  <2>1. p[1] = "quote"
    BY DEF Keyed
  <2>2. QED
    BY <2>1 DEF Others
<1>2. CASE p = <<"quote", "usage", ":", "text">>
  <2>1. Value(p) = 4
    BY <1>2 DEF Value, KeyLen
  <2>2. QED
    BY <1>2, <2>1
<1>3. CASE p = <<"quote", "usageM", "etadata", ":", "open", "bad",
                 "in2", "close">>
  <2>1. Value(p) = 5 /\ Len(p) = 8 /\ p[6] = "bad"
    BY <1>3 DEF Value, KeyLen
  <2>2. 6 \in 5 .. 8
    OBVIOUS
  <2>3. QED
    BY <2>1, <2>2
<1>4. QED
  BY <1>1, <1>2, <1>3

\* Merging what a piece reports.
LEMMA MergedIsMost ==
    ASSUME NEW ps, NEW pr \in DOMAIN Reports, NEW n,
           ps[n] \in Reports[pr] \cup Others, Keyed(ps[n]), NEW S
    PROVE  Merged(ps[n], Most(ps, pr, S)) = Most(ps, pr, S \cup {n})
<1> DEFINE p == ps[n]
           v == Value(p)
           t == SubSeq(p, v, Len(p))
           c == Most(ps, pr, S)
           fields == {f \in DOMAIN Field : Contains(p, f)}
<1>1. p \in Pieces
  BY DEF Pieces
<1>2. /\ Shape(p) /\ p \in Seq(Bytes) /\ Len(p) \in Nat
      /\ v \in 1 .. Len(p)
      /\ \A j \in 1 .. v - 1 : p[j] \notin DOMAIN Field
  <2>1. Shape(p)
    BY <1>1, PieceShape
  <2>2. /\ p[2] = "usage" \/ (p[2] = "usageM" /\ p[3] = "etadata")
        /\ v <= Len(p) /\ p[KeyLen(p) + 1] = ":" /\ p[1] = "quote"
        /\ p \in Seq(Bytes)
    BY <2>1 DEF Shape, KeyShape, Keyed
  <2>3. \/ p[2] = "usage" /\ KeyLen(p) = 2 /\ v = 4 /\ p[3] = ":"
        \/ /\ p[2] = "usageM" /\ p[3] = "etadata" /\ v = 5 /\ p[4] = ":"
    BY <2>2 DEF KeyLen, Value
  <2>4. /\ "quote" \notin DOMAIN Field /\ "usage" \notin DOMAIN Field
        /\ "usageM" \notin DOMAIN Field /\ "etadata" \notin DOMAIN Field
        /\ ":" \notin DOMAIN Field
    BY FieldValues
  <2>5. \A j \in 1 .. v - 1 : j = 1 \/ j = 2 \/ j = 3 \/ (j = 4 /\ v = 5)
    BY <2>3
  <2>6. \A j \in 1 .. v - 1 : p[j] \notin DOMAIN Field
    <3> HIDE DEF p, v
    <3>1. QED
      BY <2>2, <2>3, <2>4, <2>5
  <2>7. v \in Nat \ {0} /\ Len(p) \in Nat
    BY <2>2 DEF Value, KeyLen
  <2>8. v \in 1 .. Len(p)
    BY <2>2, <2>7
  <2>9. QED
    BY <2>1, <2>2, <2>6, <2>7, <2>8
<1>3. ASSUME NEW f \in DOMAIN Field
      PROVE  f \in ToSet(t) <=> Contains(p, f)
  <2>1. f \in ToSet(t) <=> \E j \in v .. Len(p) : p[j] = f
    <3> HIDE DEF p, v
    <3>1. QED
      BY <1>2, TailHas
  <2>2. Contains(p, f) <=> \E j \in 1 .. Len(p) : p[j] = f
    BY DEF Contains
  <2> HIDE DEF p, v, t
  <2>3. \A j \in 1 .. Len(p) : p[j] = f => j \in v .. Len(p)
    <3> DEFINE L == Len(p)
    <3>1. \A j \in 1 .. L : j \in 1 .. v - 1 \/ j \in v .. L
      <4>1. L \in Nat /\ v \in 1 .. L
        BY <1>2
      <4> HIDE DEF L
      <4>2. QED
        BY <4>1
    <3>2. QED
      BY <1>2, <3>1
  <2>4. \A j \in v .. Len(p) : j \in 1 .. Len(p)
    BY <1>2
  <2>5. QED
    BY <2>1, <2>2, <2>3, <2>4
<1>4. Contains(t, "bad") <=> \E j \in v .. Len(p) : p[j] = "bad"
  <2> HIDE DEF p, v
  <2>1. QED
    BY <1>2, TailHas
<1>5. CASE p \notin Reports[pr]
  <2>1. p \in Others
    BY <1>5
  <2>2. p[v] # "open" \/ Contains(t, "bad")
    BY <1>4, <2>1, OtherDoesNot
  <2>3. Merged(p, c) = c
    BY <2>2 DEF Merged, MergeParsed
  <2>4. Found(ps, pr, S \cup {n}) = Found(ps, pr, S)
    BY <1>5 DEF Found
  <2>5. QED
    BY <2>3, <2>4 DEF Most
<1>6. CASE p \in Reports[pr]
  <2>1. p[v] = "open" /\ \A j \in 1 .. Len(p) : p[j] # "bad"
    BY <1>6, ReportParses
  <2>2. ~ Contains(t, "bad")
    <3> HIDE DEF p, v, t
    <3>1. \A j \in v .. Len(p) : j \in 1 .. Len(p)
      BY <1>2
    <3>2. QED
      BY <1>4, <2>1, <3>1
  <2>3. Merged(p, c) = Merge(c, t)
    BY <2>1, <2>2 DEF Merged, MergeParsed
  <2>4. ToSet(t) \cap DOMAIN Field = fields
    <3> HIDE DEF t, p
    <3>1. QED
      BY <1>3
  <2>5. Merge(c, t) =
            [kind \in Kinds |-> Max({c[kind]} \cup Values(fields, kind))]
    BY <2>4 DEF Merge, Values
  <2>6. Found(ps, pr, S \cup {n}) = Found(ps, pr, S) \cup fields
    BY <1>6 DEF Found
  <2>7. ASSUME NEW kind \in Kinds
        PROVE  Max({c[kind]} \cup Values(fields, kind))
                   = Most(ps, pr, S \cup {n})[kind]
    <3> DEFINE X == Values(Found(ps, pr, S), kind)
               Y == Values(fields, kind)
    <3>1. /\ Found(ps, pr, S) \in SUBSET (DOMAIN Field)
          /\ fields \in SUBSET (DOMAIN Field)
      BY DEF Found
    <3>2. X \in SUBSET (0 .. 2) /\ Y \in SUBSET (0 .. 2)
      <4> HIDE DEF fields
      <4>1. QED
        BY <3>1, ValuesBounded
    <3>3. c[kind] = Max({0} \cup X)
      BY DEF Most
    <3>4. Values(Found(ps, pr, S \cup {n}), kind) = X \cup Y
      BY <2>6 DEF Values
    <3>5. Most(ps, pr, S \cup {n})[kind] = Max({0} \cup (X \cup Y))
      BY <3>4 DEF Most
    <3> HIDE DEF X, Y, c
    <3>6. {0} \cup (X \cup Y) = {0} \cup X \cup Y
      OBVIOUS
    <3>7. QED
      BY <3>2, <3>3, <3>5, <3>6, MaxOfMax DEF Y
  <2>8. Most(ps, pr, S \cup {n})
            = [kind \in Kinds |-> Most(ps, pr, S \cup {n})[kind]]
    BY DEF Most
  <2> HIDE DEF fields, c, t, p
  <2>9. Merge(c, t) = Most(ps, pr, S \cup {n})
    BY <2>5, <2>7, <2>8
  <2>10. QED
    BY <2>3, <2>9 DEF p, c
<1>7. QED
  BY <1>5, <1>6

\* More pieces report no less, and pieces that report nothing do not count.
LEMMA MostGrows ==
    ASSUME NEW ps, NEW pr, NEW S, NEW T, S \subseteq T, NEW kind \in Kinds
    PROVE  Most(ps, pr, S)[kind] <= Most(ps, pr, T)[kind]
<1> DEFINE X == Values(Found(ps, pr, S), kind)
           Y == Values(Found(ps, pr, T), kind)
<1>1. X \subseteq Y
  BY DEF Found, Values
<1>2. Y \in SUBSET (0 .. 2)
  <2>1. Found(ps, pr, T) \in SUBSET (DOMAIN Field)
    BY DEF Found
  <2>2. QED
    BY <2>1, ValuesBounded
<1>3. Most(ps, pr, S)[kind] = Max({0} \cup X)
      /\ Most(ps, pr, T)[kind] = Max({0} \cup Y)
  BY DEF Most
<1> HIDE DEF X, Y
<1> DEFINE P == {0} \cup X
           Q == {0} \cup Y
<1>4. P \in SUBSET (0 .. 2) /\ P # {} /\ Q \in SUBSET (0 .. 2) /\ Q # {}
      /\ P \subseteq Q
  BY <1>1, <1>2
<1>5. 2 \in Nat
  OBVIOUS
<1> HIDE DEF P, Q
<1>6. Max(P) \in P
  BY <1>4, <1>5, MaxOfNaturals
<1>7. \A y \in Q : y <= Max(Q)
  BY <1>4, <1>5, MaxOfNaturals
<1>8. Max(P) <= Max(Q)
  BY <1>4, <1>6, <1>7
<1>9. QED
  BY <1>3, <1>8 DEF P, Q

LEMMA MostOfReports ==
    ASSUME NEW ps, NEW pr, NEW S, NEW T,
           \A n \in T \ S : ps[n] \notin Reports[pr],
           \A n \in S \ T : ps[n] \notin Reports[pr]
    PROVE  Most(ps, pr, S) = Most(ps, pr, T)
<1>1. Found(ps, pr, S) = Found(ps, pr, T)
  BY DEF Found
<1>2. QED
  BY <1>1 DEF Most

-----------------------------------------------------------------------------
(* One round of the scan.                                                  *)

LEMMA MinOfOne == ASSUME NEW m \in Int PROVE Min({m}) = m
BY MinIs

LEMMA PartOf ==
    ASSUME NEW s \in Seq(Bytes), NEW a \in Nat \ {0}, NEW b \in Nat, a <= b + 1,
           b <= Len(s)
    PROVE  /\ SubSeq(s, a, b) \in Seq(Bytes) /\ Len(SubSeq(s, a, b)) = b - a + 1
           /\ \A j \in 1 .. b - a + 1 : SubSeq(s, a, b)[j] = s[a + j - 1]
OBVIOUS

\* No key is left.
LEMMA RoundNoKey ==
    ASSUME NEW ps, NEW A, NEW B, NEW K, NEW off, NEW F,
           Kept(ps, A, B, K, off, F),
           NEW from \in 1 .. F - off + 1, Clean(A, off, from), NEW c,
           \A n \in 1 .. Len(ps) : Seen(ps, B, F, n) => B[n] < off + from
    PROVE  Round(K, from, c) =
               [next |-> "stop", pos |-> AfterLastKey(K, from), usage |-> c]
<1> DEFINE keys == {i \in from .. Len(K) : KeyAt(K, i)}
<1>1. /\ off \in Nat /\ F \in Nat /\ off <= F /\ Len(K) = F - off
      /\ \A n \in 1 .. Len(ps) : B[n] \in Nat
  <2>1. Laid(ps, A, B) /\ \A m \in 1 .. Len(ps) : ps[m] \in Pieces
    BY DEF Kept
  <2>2. \A n \in 1 .. Len(ps) : B[n] \in Nat
    BY <2>1, PieceFacts
  <2>3. QED
    BY <2>2 DEF Kept
<1>2. ASSUME NEW i \in from .. Len(K), KeyAt(K, i) PROVE FALSE
  <2>1. i \in 1 .. F - off /\ i >= from
    BY <1>1
  <2>2. Clean(A, off, i)
    BY <2>1 DEF Clean
  <2>3. PICK n \in 1 .. Len(ps) : Seen(ps, B, F, n) /\ off + i = B[n]
    BY <1>2, <2>1, <2>2, KeysOfPieces
  <2>4. QED
    BY <1>1, <2>1, <2>3
<1>3. keys = {}
  BY <1>2
<1>4. QED
  BY <1>3 DEF Round

\* The next key is that of a piece.
LEMMA RoundAtKey ==
    ASSUME NEW ps, NEW A, NEW B, NEW K, NEW off, NEW F,
           Kept(ps, A, B, K, off, F),
           NEW from \in 1 .. F - off + 1, Clean(A, off, from), NEW c,
           NEW n \in 1 .. Len(ps), Seen(ps, B, F, n), off + from <= B[n],
           \A m \in 1 .. Len(ps) :
              Seen(ps, B, F, m) /\ off + from <= B[m] => B[n] <= B[m]
    PROVE  Round(K, from, c) =
               IF Ended(ps, B, F, n)
               THEN [next |-> "scan", pos |-> B[n + 1] - off,
                     usage |-> Merged(ps[n], c)]
               ELSE [next |-> "stop", pos |-> B[n] - off, usage |-> c]
<1> DEFINE keys == {j \in from .. Len(K) : KeyAt(K, j)}
           p == ps[n]
           i == B[n] - off
           l == F - off
           v == i + Value(p) - 1
           e == i + Len(p) - 1
<1>1. Laid(ps, A, B) /\ \A m \in 1 .. Len(ps) : ps[m] \in Pieces
  BY DEF Kept
<1>2. /\ off \in Nat /\ F \in Nat /\ off <= F /\ Len(K) = l /\ l \in Nat
      /\ \A j \in 1 .. l : K[j] = A[off + j]
  BY DEF Kept
<1>3. /\ Shape(p) /\ Len(p) \in 1 .. 10 /\ B[n] \in Nat
      /\ B[n + 1] = B[n] + Len(p)
  BY <1>1, PieceFacts
<1>4. /\ Keyed(p) /\ B[n] + KeyLen(p) - 1 <= F /\ KeyLen(p) \in 2 .. 3
      /\ Value(p) = KeyLen(p) + 2
  BY DEF Seen, KeyLen, Value
<1>5. /\ Value(p) <= Len(p) /\ (p[Value(p)] # "open" => Len(p) = Value(p))
  BY <1>3, <1>4 DEF Shape, KeyShape
<1>6. i \in 1 .. l /\ off + i = B[n] /\ from <= i /\ i \in from .. Len(K)
      /\ i \in Nat \ {0}
  <2> DEFINE k == KeyLen(p)
             b == B[n]
  <2>1. k \in 2 .. 3 /\ b \in Nat /\ b + k - 1 <= F /\ off + from <= b
    BY <1>3, <1>4
  <2> HIDE DEF k, b
  <2>2. /\ b - off \in 1 .. l /\ off + (b - off) = b /\ from <= b - off
        /\ b - off \in from .. Len(K) /\ b - off \in Nat \ {0}
    BY <1>2, <2>1
  <2>3. QED
    BY <2>2 DEF b
<1>7. Min(keys) = i /\ keys # {}
  <2>1. i \in keys
    <3>1. Clean(A, off, i)
      BY <1>6 DEF Clean
    <3> HIDE DEF i
    <3>2. KeyAt(K, i)
      BY <1>6, <3>1, KeysOfPieces
    <3>3. QED
      BY <1>6, <3>2
  <2>2. ASSUME NEW j \in keys PROVE i <= j
    <3>1. j \in 1 .. l /\ j >= from /\ KeyAt(K, j)
      BY <1>2
    <3>2. Clean(A, off, j)
      BY <3>1 DEF Clean
    <3> HIDE DEF keys
    <3>3. PICK m \in 1 .. Len(ps) : Seen(ps, B, F, m) /\ off + j = B[m]
      BY <3>1, <3>2, KeysOfPieces
    <3>4. B[n] <= B[m]
      BY <1>2, <3>1, <3>3
    <3>5. QED
      BY <1>2, <1>3, <3>1, <3>3, <3>4
  <2>3. keys \in SUBSET Int
    BY <1>2
  <2> HIDE DEF keys, i
  <2>4. QED
    BY <2>1, <2>2, <2>3, MinIs
<1>8. ValuesAfter(K, i) = IF v <= l THEN {v} ELSE {}
  <2> HIDE DEF i
  <2>1. ValuesAfter(K, i) =
            IF i + Value(p) - 1 <= F - off THEN {i + Value(p) - 1} ELSE {}
    BY <1>4, <1>6, ValueOfPiece
  <2>2. QED
    BY <2>1
<1>9. v <= l => K[v] = p[Value(p)]
  <2> DEFINE j == Value(p)
  <2>1. j \in 1 .. Len(p)
    BY <1>3, <1>4, <1>5
  <2> HIDE DEF i, j
  <2>2. i + j - 1 <= F - off => K[i + j - 1] = p[j]
    BY <1>6, <2>1, KeptOfPiece
  <2>3. QED
    BY <2>2 DEF j
<1>10. p[Value(p)] = "open" => ObjectEnds(K, v) = IF e <= l THEN {e} ELSE {}
  <2> HIDE DEF i
  <2>1. Spans(ps[n], i, v, e)
    BY DEF Spans
  <2>2. Keyed(ps[n]) /\ i \in Nat \ {0} /\ off + i = B[n]
    BY <1>4, <1>6
  <2> HIDE DEF v, e
  <2>3. ASSUME ps[n][Value(ps[n])] = "open"
        PROVE  ObjectEnds(K, v) = IF e <= F - off THEN {e} ELSE {}
    BY <2>1, <2>2, <2>3, EndOfPiece
  <2>4. QED
    BY <2>3
<1>11. /\ v \in Int /\ e \in Int /\ v <= e
       /\ Ended(ps, B, F, n) <=> e <= l
       /\ e + 1 = B[n + 1] - off
       /\ p[Value(p)] # "open" => e = v
  <2> DEFINE b == B[n]
             L == Len(p)
             q == Value(p)
  <2>1. /\ b \in Nat /\ L \in 1 .. 10 /\ q \in Nat /\ q <= L /\ B[n + 1] = b + L
        /\ (p[q] # "open" => L = q)
    BY <1>3, <1>4, <1>5
  <2>2. Ended(ps, B, F, n) <=> B[n + 1] - 1 <= F
    BY DEF Ended
  <2> DEFINE x == B[n + 1]
  <2>3. v = b - off + q - 1 /\ e = b - off + L - 1 /\ l = F - off /\ x = b + L
    BY <2>1
  <2>4. off \in Nat /\ F \in Nat
    BY <1>2
  <2>5. /\ p[Value(p)] # "open" => L = q
    BY <2>1
  <2> HIDE DEF b, L, q, p, x, v, e, l, i
  <2>6. v \in Int /\ e \in Int /\ v <= e /\ (x - 1 <= F <=> e <= l)
        /\ e + 1 = x - off
    BY <2>1, <2>3, <2>4
  <2>7. p[Value(p)] # "open" => e = v
    BY <2>3, <2>5
  <2>8. QED
    BY <2>2, <2>6, <2>7 DEF x
<1>12. ASSUME p[Value(p)] = "open", e <= l
       PROVE  SubSeq(K, v, e) = SubSeq(p, Value(p), Len(p))
  <2> DEFINE s == SubSeq(K, v, e)
             t == SubSeq(p, Value(p), Len(p))
             q == Value(p)
             L == Len(p)
  <2>1. /\ q \in 1 .. L /\ L \in Nat /\ v \in 1 .. e + 1 /\ e \in Nat
        /\ l \in Nat
        /\ v = i + q - 1 /\ e = i + L - 1 /\ i \in Nat \ {0} /\ e <= l
    <3>1. q \in 1 .. L /\ L \in Nat /\ l \in Nat /\ i \in Nat \ {0}
      <4>1. Len(p) \in 1 .. 10 /\ Value(p) <= Len(p)
        BY <1>3, <1>5
      <4>2. Value(p) \in Nat \ {0}
        BY <1>4
      <4>3. q \in 1 .. L /\ L \in Nat
        <5> HIDE DEF p
        <5>1. QED
          BY <4>1, <4>2
      <4>4. QED
        BY <1>2, <1>6, <4>3
    <3>2. v = i + q - 1 /\ e = i + L - 1 /\ e <= l
      BY <1>12
    <3> HIDE DEF q, L, v, e, i, l
    <3>3. QED
      BY <3>1, <3>2
  <2>2. K \in Seq(Bytes) /\ Len(K) = l /\ p \in Seq(Bytes)
    BY <1>2, <1>3 DEF Kept, Shape
  <2>3. \A j \in 1 .. L : i + j - 1 <= l => K[i + j - 1] = p[j]
    <3> SUFFICES ASSUME NEW j \in 1 .. Len(ps[n]), i + j - 1 <= F - off
                 PROVE  K[i + j - 1] = ps[n][j]
      OBVIOUS
    <3> HIDE DEF i
    <3>1. QED
      BY <1>6, KeptOfPiece
  <2>4. /\ t \in Seq(Bytes) /\ Len(t) = L - q + 1
        /\ \A j \in 1 .. L - q + 1 : t[j] = p[q + j - 1]
    <3>1. L = Len(p) /\ t = SubSeq(p, q, L)
      OBVIOUS
    <3>2. q \in Nat \ {0} /\ L \in Nat /\ q <= L + 1
      <4> HIDE DEF q, L
      <4>1. QED
        BY <2>1
    <3> HIDE DEF t, q, L, p
    <3>3. QED
      BY <2>2, <3>1, <3>2, PartOf
  <2>5. /\ s \in Seq(Bytes) /\ Len(s) = e - v + 1
        /\ \A j \in 1 .. e - v + 1 : s[j] = K[v + j - 1]
    <3>1. s = SubSeq(K, v, e)
      OBVIOUS
    <3> HIDE DEF s, q, L, p, v, e, l, i
    <3>2. v \in Nat \ {0} /\ e \in Nat /\ v <= e + 1 /\ e <= Len(K)
      BY <2>1, <2>2
    <3>3. QED
      BY <2>2, <3>1, <3>2, PartOf
  <2> HIDE DEF s, t, q, L, p, v, e, l, i
  <2>6. e - v + 1 = L - q + 1
    BY <2>1
  <2>7. ASSUME NEW j \in 1 .. L - q + 1 PROVE s[j] = t[j]
    <3> DEFINE h == q + j - 1
    <3>1. h \in 1 .. L /\ i + h - 1 <= l /\ i + h - 1 = v + j - 1
      BY <2>1
    <3> HIDE DEF h
    <3>2. K[v + j - 1] = p[h]
      BY <2>3, <3>1
    <3>3. QED
      BY <2>4, <2>5, <2>6, <3>2 DEF h
  <2>8. s = t
    BY <2>4, <2>5, <2>6, <2>7
  <2>9. QED
    BY <2>8 DEF s, t, q, L
<1> HIDE DEF keys, i, l, v, e, p
<1>13. Round(K, from, c) =
          IF ValuesAfter(K, i) = {}
          THEN [next |-> "stop", pos |-> i, usage |-> c]
          ELSE IF K[Min(ValuesAfter(K, i))] # "open"
          THEN [next |-> "scan", pos |-> Min(ValuesAfter(K, i)) + 1, usage |-> c]
          ELSE IF ObjectEnds(K, Min(ValuesAfter(K, i))) = {}
          THEN [next |-> "stop", pos |-> i, usage |-> c]
          ELSE [next |-> "scan",
                pos |-> Min(ObjectEnds(K, Min(ValuesAfter(K, i)))) + 1,
                usage |-> MergeParsed(c, SubSeq(K, Min(ValuesAfter(K, i)),
                               Min(ObjectEnds(K, Min(ValuesAfter(K, i))))))]
  BY <1>7 DEF Round, WaitAt, keys
<1>14. Min({v}) = v /\ Min({e}) = e
  BY <1>11, MinOfOne
<1>15. i = B[n] - off
  BY DEF i
<1>16. CASE ~(v <= l)
  <2>1. ValuesAfter(K, i) = {} /\ ~ Ended(ps, B, F, n)
    BY <1>2, <1>8, <1>11, <1>16
  <2>2. QED
    BY <1>13, <1>15, <2>1
<1>17. CASE v <= l /\ p[Value(p)] # "open"
  <2>1. /\ ValuesAfter(K, i) = {v} /\ K[v] = p[Value(p)] /\ Ended(ps, B, F, n)
        /\ v + 1 = B[n + 1] - off
    BY <1>2, <1>8, <1>9, <1>11, <1>17
  <2>2. Merged(p, c) = c
    BY <1>17 DEF Merged
  <2>3. QED
    BY <1>13, <1>14, <1>17, <2>1, <2>2 DEF p
<1>18. CASE v <= l /\ p[Value(p)] = "open" /\ ~(e <= l)
  <2>1. /\ ValuesAfter(K, i) = {v} /\ K[v] = p[Value(p)] /\ ~ Ended(ps, B, F, n)
        /\ ObjectEnds(K, v) = {}
    BY <1>2, <1>8, <1>9, <1>10, <1>11, <1>18
  <2>2. QED
    BY <1>13, <1>14, <1>15, <1>18, <2>1
<1>19. CASE v <= l /\ p[Value(p)] = "open" /\ e <= l
  <2>1. /\ ValuesAfter(K, i) = {v} /\ K[v] = p[Value(p)] /\ Ended(ps, B, F, n)
        /\ ObjectEnds(K, v) = {e} /\ e + 1 = B[n + 1] - off
    BY <1>2, <1>8, <1>9, <1>10, <1>11, <1>19
  <2>2. Merged(p, c) = MergeParsed(c, SubSeq(K, v, e))
    BY <1>12, <1>19 DEF Merged
  <2>3. QED
    BY <1>13, <1>14, <1>19, <2>1, <2>2 DEF p
<1>20. QED
  BY <1>16, <1>17, <1>18, <1>19

-----------------------------------------------------------------------------
(* The scan.                                                               *)

\* A function that goes on from place to place until it may stop exists if
\* every place it goes on to is lower.
Goes(X, halt, there, f) ==
    f = [x \in X |-> IF x \in halt THEN there[x] ELSE f[there[x]]]

LEMMA RunExists ==
    ASSUME NEW D, NEW halt, NEW there, NEW b \in Nat, NEW m \in [D -> 0 .. b],
           \A x \in D \ halt : there[x] \in D /\ m[there[x]] < m[x]
    PROVE  \E f : Goes(D, halt, there, f)
<1> DEFINE Low(k) == {x \in D : m[x] < k}
           T == {k \in Nat : \E f : Goes(Low(k), halt, there, f)}
<1>1. 0 \in T
  <2>1. Low(0) = {}
    OBVIOUS
  <2>2. Goes({}, halt, there, [x \in {} |-> x])
    BY DEF Goes
  <2> HIDE DEF Low
  <2>3. QED
    BY <2>1, <2>2
<1>2. ASSUME NEW k \in Nat, k \in T PROVE k + 1 \in T
  <2>1. PICK f : Goes(Low(k), halt, there, f)
    BY <1>2
  <2> DEFINE g == [x \in Low(k + 1) |->
                      IF x \in halt THEN there[x] ELSE f[there[x]]]
  <2>2. \A x \in Low(k) :
            f[x] = IF x \in halt THEN there[x] ELSE f[there[x]]
    <3> HIDE DEF Low
    <3>1. f = [x \in Low(k) |-> IF x \in halt THEN there[x] ELSE f[there[x]]]
      BY <2>1 DEF Goes
    <3>2. QED
      BY <3>1
  <2>3. ASSUME NEW x \in Low(k + 1), x \notin halt
        PROVE  there[x] \in Low(k) /\ there[x] \in Low(k + 1)
    <3>1. x \in D /\ m[x] < k + 1 /\ m[x] \in 0 .. b
      OBVIOUS
    <3>2. there[x] \in D /\ m[there[x]] < m[x]
      BY <2>3, <3>1
    <3>3. m[there[x]] \in 0 .. b
      BY <3>2
    <3> DEFINE y == there[x]
               u == m[y]
               w == m[x]
    <3>4. u \in 0 .. b /\ w \in 0 .. b /\ u < w /\ w < k + 1
      BY <3>1, <3>2, <3>3
    <3> HIDE DEF u, w
    <3>5. u < k /\ u < k + 1
      BY <3>4
    <3>6. QED
      BY <3>2, <3>5 DEF u
  <2>4. ASSUME NEW x \in Low(k + 1), x \notin halt
        PROVE  g[there[x]] = f[there[x]]
    BY <2>2, <2>3, <2>4
  <2>5. g = [x \in Low(k + 1) |-> IF x \in halt THEN there[x] ELSE g[there[x]]]
    <3> HIDE DEF Low
    <3>1. \A x \in Low(k + 1) :
              (IF x \in halt THEN there[x] ELSE f[there[x]])
                  = (IF x \in halt THEN there[x] ELSE g[there[x]])
      BY <2>4
    <3>2. g = [x \in Low(k + 1) |-> IF x \in halt THEN there[x] ELSE f[there[x]]]
      OBVIOUS
    <3> HIDE DEF g
    <3>3. QED
      BY <3>1, <3>2
  <2>6. Goes(Low(k + 1), halt, there, g)
    <3> HIDE DEF g, Low
    <3>1. QED
      BY <2>5 DEF Goes
  <2>7. QED
    BY <2>6
<1>3. Nat \subseteq T
  <2>1. \A k \in Nat : k \in T => k + 1 \in T
    BY <1>2
  <2> HIDE DEF T
  <2>2. QED
    BY <1>1, <2>1, SetOfNaturals
<1>4. Low(b + 1) = D
  <2>1. \A x \in D : m[x] < b + 1
    BY DEF Goes
  <2>2. QED
    BY <2>1
<1>5. b + 1 \in T
  BY <1>3
<1> HIDE DEF Low
<1>6. QED
  BY <1>4, <1>5

LEMMA MergeType ==
    ASSUME NEW counts \in [Kinds -> 0 .. 2], NEW object
    PROVE  MergeParsed(counts, object) \in [Kinds -> 0 .. 2]
<1> DEFINE fields == ToSet(object) \cap DOMAIN Field
<1>1. Merge(counts, object) =
          [kind \in Kinds |-> Max({counts[kind]} \cup Values(fields, kind))]
  BY DEF Merge, Values
<1>2. ASSUME NEW kind \in Kinds
      PROVE  Max({counts[kind]} \cup Values(fields, kind)) \in 0 .. 2
  <2> DEFINE S == {counts[kind]} \cup Values(fields, kind)
  <2>1. Values(fields, kind) \in SUBSET (0 .. 2)
    <3> HIDE DEF fields
    <3>1. fields \in SUBSET (DOMAIN Field)
      BY DEF fields
    <3>2. QED
      BY <3>1, ValuesBounded
  <2>2. S \in SUBSET (0 .. 2) /\ S # {} /\ 2 \in Nat
    BY <2>1
  <2> HIDE DEF S
  <2>3. Max(S) \in S
    BY <2>2, MaxOfNaturals
  <2>4. Max(S) \in 0 .. 2
    BY <2>2, <2>3
  <2>5. QED
    BY <2>4 DEF S
<1>3. Merge(counts, object) \in [Kinds -> 0 .. 2]
  <2> HIDE DEF fields
  <2>1. QED
    BY <1>1, <1>2
<1>4. QED
  BY <1>3 DEF MergeParsed

LEMMA ValuesAfterType ==
    ASSUME NEW bytes \in Seq(Bytes), NEW i \in Nat \ {0},
           ValuesAfter(bytes, i) # {}
    PROVE  Min(ValuesAfter(bytes, i)) \in i + 1 .. Len(bytes)
<1> DEFINE l == Len(bytes)
           colons == {c \in i .. l - 1 : bytes[c] = ":"}
<1>1. ValuesAfter(bytes, i) = {Min(cs) + 1 : cs \in {colons} \ {{}}}
  BY DEF ValuesAfter
<1>2. l \in Nat
  OBVIOUS
<1>3. colons # {}
  <2> HIDE DEF colons
  <2>1. QED
    BY <1>1
<1>4. colons \in SUBSET Nat /\ \A c \in colons : c \in i .. l - 1
  BY <1>2
<1> HIDE DEF colons, l
<1> DEFINE c == Min(colons)
<1>5. c \in i .. l - 1
  BY <1>3, <1>4, MinOfNaturals
<1>6. ValuesAfter(bytes, i) = {c + 1}
  BY <1>1, <1>3
<1> HIDE DEF c
<1>7. c + 1 \in Int /\ c + 1 \in i + 1 .. l
  BY <1>2, <1>5
<1>8. Min({c + 1}) = c + 1
  BY <1>7, MinOfOne
<1>9. QED
  BY <1>6, <1>7, <1>8 DEF l

LEMMA ObjectEndsType ==
    ASSUME NEW bytes \in Seq(Bytes), NEW v \in Nat, ObjectEnds(bytes, v) # {}
    PROVE  Min(ObjectEnds(bytes, v)) \in v .. Len(bytes)
<1> DEFINE l == Len(bytes)
           ends == {e \in v .. l : Balanced(bytes, v, e)}
<1>1. ObjectEnds(bytes, v) = {Min(es) : es \in {ends} \ {{}}}
  BY DEF ObjectEnds, Balanced, Braces
<1>2. l \in Nat
  OBVIOUS
<1>3. ends # {}
  <2> HIDE DEF ends
  <2>1. QED
    BY <1>1
<1>4. ends \in SUBSET Nat /\ \A e \in ends : e \in v .. l
  BY <1>2
<1> HIDE DEF ends, l
<1> DEFINE e == Min(ends)
<1>5. e \in v .. l
  BY <1>3, <1>4, MinOfNaturals
<1>6. ObjectEnds(bytes, v) = {e}
  BY <1>1, <1>3
<1> HIDE DEF e
<1>7. Min({e}) = e
  BY <1>5, MinOfOne
<1>8. QED
  BY <1>5, <1>6, <1>7 DEF l

\* A round that does not stop goes on further back.
LEMMA RoundGoesOn ==
    ASSUME NEW bytes \in Seq(Bytes), NEW from \in 1 .. Len(bytes) + 1,
           NEW counts \in [Kinds -> 0 .. 2],
           Round(bytes, from, counts).next # "stop"
    PROVE  /\ Round(bytes, from, counts).pos \in from + 1 .. Len(bytes) + 1
           /\ Round(bytes, from, counts).usage \in [Kinds -> 0 .. 2]
<1> DEFINE l == Len(bytes)
           keys == {i \in from .. l : KeyAt(bytes, i)}
           key == Min(keys)
           values == ValuesAfter(bytes, key)
           value == Min(values)
           ends == ObjectEnds(bytes, value)
           end == Min(ends)
           merged == MergeParsed(counts, SubSeq(bytes, value, end))
           r == Round(bytes, from, counts)
<1>1. l \in Nat /\ from \in 1 .. l + 1
  OBVIOUS
<1>2. r = IF keys = {}
          THEN [next |-> "stop", pos |-> AfterLastKey(bytes, from), usage |-> counts]
          ELSE IF values = {}
          THEN [next |-> "stop", pos |-> key, usage |-> counts]
          ELSE IF bytes[value] # "open"
          THEN [next |-> "scan", pos |-> value + 1, usage |-> counts]
          ELSE IF ends = {}
          THEN [next |-> "stop", pos |-> key, usage |-> counts]
          ELSE [next |-> "scan", pos |-> end + 1, usage |-> merged]
  BY DEF Round, WaitAt
<1>3. keys \in SUBSET Nat /\ \A i \in keys : i \in from .. l
  BY <1>1
<1>4. merged \in [Kinds -> 0 .. 2]
  BY MergeType
<1>5. r.next # "stop"
  OBVIOUS
<1> HIDE DEF keys, l, merged, r
<1>6. keys # {} /\ values # {}
  <2> HIDE DEF values, key, value, ends, end
  <2>1. QED
    BY <1>2, <1>5
<1>7. key \in from .. l /\ key \in Nat \ {0}
  <2>1. key \in keys
    BY <1>3, <1>6, MinOfNaturals
  <2> HIDE DEF key
  <2>2. QED
    BY <1>1, <1>3, <2>1
<1> HIDE DEF key
<1>8. value \in key + 1 .. l
  BY <1>6, <1>7, ValuesAfterType DEF l
<1>9. value \in Nat /\ value + 1 \in from + 1 .. l + 1
  <2> HIDE DEF value
  <2>1. QED
    BY <1>1, <1>7, <1>8
<1> HIDE DEF value, values
<1>10. ends # {} => end + 1 \in from + 1 .. l + 1
  <2> SUFFICES ASSUME ends # {} PROVE end + 1 \in from + 1 .. l + 1
    OBVIOUS
  <2>1. end \in value .. l
    BY <1>9, ObjectEndsType DEF l
  <2> HIDE DEF end
  <2>2. QED
    BY <1>1, <1>7, <1>8, <1>9, <2>1
<1> HIDE DEF ends, end
<1>11. r.pos \in from + 1 .. l + 1 /\ r.usage \in [Kinds -> 0 .. 2]
  <2>1. CASE bytes[value] # "open"
    <3>1. r = [next |-> "scan", pos |-> value + 1, usage |-> counts]
      BY <1>2, <1>6, <2>1
    <3>2. r.pos = value + 1 /\ r.usage = counts
      BY <3>1
    <3>3. QED
      BY <1>9, <3>2
  <2>2. CASE bytes[value] = "open"
    <3>1. ends # {}
      BY <1>2, <1>5, <1>6, <2>2
    <3>2. r = [next |-> "scan", pos |-> end + 1, usage |-> merged]
      BY <1>2, <1>6, <2>2, <3>1
    <3>3. r.pos = end + 1 /\ r.usage = merged
      BY <3>2
    <3>4. QED
      BY <1>4, <1>10, <3>1, <3>3
  <2>3. QED
    BY <2>1, <2>2
<1>12. QED
  BY <1>11 DEF l, r

\* The states of a scan, what a round makes of each, and the scan of them.
States(bytes) == [pos : 1 .. Len(bytes) + 1, usage : [Kinds -> 0 .. 2]]
There(bytes, at) == [pos |-> Round(bytes, at.pos, at.usage).pos,
                     usage |-> Round(bytes, at.pos, at.usage).usage]
Stops(bytes, at) == Round(bytes, at.pos, at.usage).next = "stop"
IsScan(bytes, f) ==
    f = [at \in States(bytes) |->
            IF Stops(bytes, at) THEN There(bytes, at) ELSE f[There(bytes, at)]]

LEMMA ScanIs ==
    ASSUME NEW bytes \in Seq(Bytes), NEW first, NEW counts
    PROVE  \E f : IsScan(bytes, f) /\
              Scan(bytes, first, counts) = f[[pos |-> first, usage |-> counts]]
<1> DEFINE D == States(bytes)
           halt == {at \in D : Stops(bytes, at)}
           there == [at \in D |-> There(bytes, at)]
           m == [at \in D |-> Len(bytes) + 1 - at.pos]
           b == Len(bytes)
<1>1. b \in Nat /\ m \in [D -> 0 .. b]
  BY DEF States
<1>2. ASSUME NEW at \in D \ halt
      PROVE  there[at] \in D /\ m[there[at]] < m[at]
  <2> DEFINE r == Round(bytes, at.pos, at.usage)
             u == There(bytes, at)
  <2>1. at.pos \in 1 .. b + 1 /\ at.usage \in [Kinds -> 0 .. 2]
    BY DEF States
  <2>2. r.next # "stop"
    BY DEF Stops
  <2>3. r.pos \in at.pos + 1 .. b + 1 /\ r.usage \in [Kinds -> 0 .. 2]
    BY <2>1, <2>2, RoundGoesOn
  <2>4. u = [pos |-> r.pos, usage |-> r.usage] /\ there[at] = u
    BY DEF There
  <2>5. u.pos = r.pos /\ r.pos \in 1 .. b + 1 /\ at.pos < r.pos
    <3> HIDE DEF r
    <3>1. u.pos = r.pos
      BY <2>4
    <3> HIDE DEF u, b
    <3>2. QED
      BY <1>1, <2>1, <2>3, <3>1
  <2>6. u \in D
    <3> HIDE DEF r, u
    <3>1. QED
      BY <2>3, <2>4, <2>5 DEF States
  <2> HIDE DEF r, u, D
  <2>7. m[u] = b + 1 - u.pos /\ m[at] = b + 1 - at.pos /\ at \in D
    BY <2>6 DEF D
  <2> HIDE DEF b, m
  <2>8. m[u] < m[at]
    BY <1>1, <2>1, <2>5, <2>7
  <2>9. QED
    BY <2>4, <2>6, <2>8
<1>3. PICK f : Goes(D, halt, there, f)
  <2> HIDE DEF D, halt, there, m, b
  <2>1. \A x \in D \ halt : there[x] \in D /\ m[there[x]] < m[x]
    BY <1>2
  <2>2. QED
    BY <1>1, <2>1, RunExists
<1>4. IsScan(bytes, f)
  <2>1. f = [x \in D |-> IF x \in halt THEN there[x] ELSE f[there[x]]]
    BY <1>3 DEF Goes
  <2>2. \A x \in D : (x \in halt <=> Stops(bytes, x))
        /\ there[x] = There(bytes, x)
    OBVIOUS
  <2> HIDE DEF D, halt, there
  <2>3. f = [x \in D |-> IF Stops(bytes, x) THEN There(bytes,
  x) ELSE f[There(bytes, x)]]
    BY <2>1, <2>2
  <2>4. QED
    BY <2>3 DEF IsScan, D
<1>5. QED
  BY <1>4 DEF IsScan, Scan, States, Stops, There

\* A piece that does not begin before another one begins behind it.
LEMMA BeginsBehind ==
    ASSUME NEW ps, NEW A, NEW B, Laid(ps, A, B),
           \A n \in 1 .. Len(ps) : ps[n] \in Pieces,
           NEW n \in 1 .. Len(ps), NEW m \in 1 .. Len(ps), n # m, B[n] <= B[m]
    PROVE  n < m /\ B[n + 1] <= B[m]
<1>1. /\ Len(ps) \in Nat /\ B[n] \in Nat /\ B[m] \in Nat /\ B[m + 1] \in Nat
      /\ Len(ps[m]) \in 1 .. 10 /\ B[m + 1] = B[m] + Len(ps[m])
  BY PieceFacts
<1>2. CASE m < n
  <2> DEFINE k == m + 1
  <2>1. k \in 1 .. Len(ps) + 1 /\ n \in 1 .. Len(ps) + 1 /\ k <= n
    BY <1>1, <1>2
  <2> HIDE DEF k
  <2>2. B[k] <= B[n]
    BY <2>1, BeginsGrow
  <2>3. B[m + 1] <= B[n]
    BY <2>2 DEF k
  <2> DEFINE l == Len(ps[m])
             b == B[m]
  <2>4. l \in 1 .. 10 /\ b \in Nat /\ B[m + 1] = b + l /\ B[n] <= b
    BY <1>1
  <2> HIDE DEF l, b
  <2>5. QED
    BY <1>1, <2>3, <2>4
<1>3. CASE n < m
  <2> DEFINE k == n + 1
  <2>1. k \in 1 .. Len(ps) + 1 /\ m \in 1 .. Len(ps) + 1 /\ k <= m
    BY <1>1, <1>3
  <2> HIDE DEF k
  <2>2. B[k] <= B[m]
    BY <2>1, BeginsGrow
  <2>3. QED
    BY <1>3, <2>2 DEF k
<1>4. QED
  BY <1>2, <1>3

\* What a scan from P on makes of counts that the pieces S gave: it stops at
\* a place Q with counts that more pieces gave, all of them arrived, and
\* none is left that has been seen, but for the one it waits at.
Outcome(ps, pr, B, F, P, S, Q, c) ==
    /\ P <= Q /\ Q <= F + 1
    /\ \E S2 \in SUBSET (1 .. Len(ps)) :
          /\ c = Most(ps, pr, S2)
          /\ S \subseteq S2 /\ \A n \in S2 \ S : Ended(ps, B, F, n)
          /\ \/ /\ Q = F + 1 \/ Q = F - 1
                /\ \A m \in 1 .. Len(ps) : Seen(ps, B, F, m)
                   /\ P <= B[m] => m \in S2
             \/ \E n \in 1 .. Len(ps) :
                   /\ Seen(ps, B, F, n) /\ ~ Ended(ps, B, F, n) /\ Q = B[n]
                   /\ \A m \in 1 .. Len(ps) :
                         Seen(ps, B, F, m) /\ P <= B[m] => m \in S2 \/ m = n

LEMMA ScanOutcome ==
    ASSUME NEW ps, NEW A, NEW B, NEW K, NEW off, NEW F,
           Kept(ps, A, B, K, off, F),
           NEW pr \in DOMAIN Reports,
           \A n \in 1 .. Len(ps) : ps[n] \in Reports[pr] \cup Others,
           NEW f, IsScan(K, f),
           NEW at \in States(K), Clean(A, off, at.pos),
           NEW S \in SUBSET (1 .. Len(ps)), at.usage = Most(ps, pr, S)
    PROVE  /\ f[at].pos \in Int
           /\ Outcome(ps, pr, B, F, off + at.pos, S, off + f[at].pos, f[at].usage)
<1> DEFINE l == F - off
           N == Len(ps)
           Good(x, R) ==
               /\ f[x].pos \in Int
               /\ Outcome(ps, pr, B, F, off + x.pos, R, off + f[x].pos, f[x].usage)
           Till(k) == \A x \in States(K), R \in SUBSET (1 .. N) :
                         l + 1 - x.pos <= k /\ Clean(A, off, x.pos)
                           /\ x.usage = Most(ps, pr, R) => Good(x, R)
           T == {k \in Nat : Till(k)}
<1>1. Laid(ps, A, B) /\ \A n \in 1 .. N : ps[n] \in Pieces
  BY DEF Kept
<1>2. /\ off \in Nat /\ F \in Nat /\ off <= F /\ l \in Nat /\ Len(K) = l
      /\ K \in Seq(Bytes)
  BY DEF Kept
<1>3. ASSUME NEW x \in States(K)
      PROVE  /\ x.pos \in 1 .. l + 1 /\ x.usage \in [Kinds -> 0 .. 2]
             /\ f[x] = IF Stops(K, x) THEN There(K, x) ELSE f[There(K, x)]
  <2>1. x.pos \in 1 .. l + 1 /\ x.usage \in [Kinds -> 0 .. 2]
    BY <1>2 DEF States
  <2>2. \A y \in States(K) : f[y] = IF Stops(K, y) THEN There(K,
  y) ELSE f[There(K, y)]
    BY DEF IsScan
  <2>3. QED
    BY <2>1, <2>2
<1>4. ASSUME NEW n \in 1 .. N
      PROVE  /\ B[n] \in Nat /\ B[n + 1] \in Nat /\ Len(ps[n]) \in 1 .. 10
             /\ B[n + 1] = B[n] + Len(ps[n]) /\ B[n] < B[n + 1]
             /\ Seen(ps, B, F, n) => B[n] <= F
             /\ Ended(ps, B, F, n) <=> B[n + 1] - 1 <= F
  <2>1. /\ B[n] \in Nat /\ B[n + 1] \in Nat /\ Len(ps[n]) \in 1 .. 10
        /\ B[n + 1] = B[n] + Len(ps[n])
    BY <1>1, PieceFacts
  <2>2. Ended(ps, B, F, n) <=> B[n + 1] - 1 <= F
    BY DEF Ended
  <2>3. Seen(ps, B, F, n) => B[n] + KeyLen(ps[n]) - 1 <= F
        /\ KeyLen(ps[n]) \in 2 .. 3
    BY DEF Seen, KeyLen
  <2> DEFINE k == KeyLen(ps[n])
             L == Len(ps[n])
             b == B[n]
             e == B[n + 1]
  <2>4. b \in Nat /\ L \in 1 .. 10 /\ e = b + L
    BY <2>1
  <2>5. Seen(ps, B, F, n) => b + k - 1 <= F /\ k \in 2 .. 3
    BY <2>3
  <2> HIDE DEF k, L, b, e
  <2>6. b < e /\ (Seen(ps, B, F, n) => b <= F)
    BY <1>2, <2>4, <2>5
  <2>7. QED
    BY <2>1, <2>2, <2>6 DEF b, e
<1>5. ASSUME NEW x \in States(K), NEW R \in SUBSET (1 .. N),
             Clean(A, off, x.pos), x.usage = Most(ps, pr, R),
             \A y \in States(K), Q \in SUBSET (1 .. N) :
                x.pos < y.pos /\ Clean(A, off, y.pos)
                  /\ y.usage = Most(ps, pr, Q) => Good(y, Q)
      PROVE  Good(x, R)
  <2> DEFINE P == off + x.pos
             here == {n \in 1 .. N : Seen(ps, B, F, n) /\ P <= B[n]}
             r == Round(K, x.pos, x.usage)
  <2>1. /\ x.pos \in 1 .. l + 1 /\ x.usage \in [Kinds -> 0 .. 2]
        /\ f[x] = IF Stops(K, x) THEN There(K, x) ELSE f[There(K, x)]
        /\ P \in Nat
    BY <1>2, <1>3
  <2>2. There(K, x) = [pos |-> r.pos, usage |-> r.usage]
        /\ (Stops(K, x) <=> r.next = "stop")
    BY DEF There, Stops
  <2>3. CASE here = {}
    <3> DEFINE q == AfterLastKey(K, x.pos)
    <3>1. \A n \in 1 .. N : Seen(ps, B, F, n) => B[n] < P
      BY <1>4, <2>1, <2>3
    <3>2. r = [next |-> "stop", pos |-> q, usage |-> x.usage]
      <4> DEFINE from == x.pos
                 c == x.usage
      <4>1. from \in 1 .. F - off + 1 /\ Clean(A, off, from)
        BY <1>5, <2>1
      <4>2. \A n \in 1 .. Len(ps) : Seen(ps, B, F, n) => B[n] < off + from
        BY <3>1
      <4> HIDE DEF from, c
      <4>3. Round(K, from, c) =
                [next |-> "stop", pos |-> AfterLastKey(K, from), usage |-> c]
        BY <4>1, <4>2, RoundNoKey
      <4>4. QED
        BY <4>3 DEF from, c
    <3>3. r.next = "stop" /\ r.pos = q /\ r.usage = x.usage
      BY <3>2
    <3>4. f[x].pos = q /\ f[x].usage = x.usage
      <4> HIDE DEF r, q
      <4>1. f[x] = [pos |-> r.pos, usage |-> r.usage]
        BY <2>1, <2>2, <3>3
      <4>2. QED
        BY <3>3, <4>1
    <3>5. (off + q = F + 1 \/ off + q = F - 1) /\ P <= off + q
          /\ off + q <= F + 1
      <4>1. Len(MetadataKey) = 3
        BY DEF MetadataKey
      <4>2. q = IF l - 1 > x.pos THEN l - 1 ELSE l + 1
        BY <1>2, <4>1 DEF AfterLastKey
      <4> DEFINE u == x.pos
      <4>3. u \in 1 .. l + 1 /\ q = (IF l - 1 > u THEN l - 1 ELSE l + 1)
            /\ P = off + u
        BY <2>1, <4>2
      <4> HIDE DEF q, u, P
      <4>4. QED
        BY <1>2, <4>3
    <3>6. \A m \in 1 .. N : Seen(ps, B, F, m) /\ P <= B[m] => m \in R
      BY <2>3
    <3>7. R \in SUBSET (1 .. Len(ps)) /\ f[x].usage = Most(ps, pr, R)
          /\ R \subseteq R /\ \A n \in R \ R : Ended(ps, B, F, n)
      BY <1>5, <3>4
    <3>8. off + f[x].pos = off + q /\ f[x].pos \in Int
      <4>1. q \in Int
        BY <1>2, <2>1 DEF AfterLastKey
      <4>2. QED
        BY <3>4, <4>1
    <3> HIDE DEF q, P, here
    <3>9. Outcome(ps, pr, B, F, P, R, off + q, f[x].usage)
      BY <3>5, <3>6, <3>7 DEF Outcome
    <3>10. QED
      BY <3>8, <3>9 DEF P
  <2>4. CASE here # {}
    <3>1. PICK n \in here : \A m \in here : B[n] <= B[m]
      <4> DEFINE X == {B[m] : m \in here}
      <4>1. X \in SUBSET Nat /\ X # {}
        BY <1>4, <2>4
      <4>2. Min(X) \in X /\ \A y \in X : Min(X) <= y
        <5> HIDE DEF X
        <5>1. QED
          BY <4>1, MinOfNaturals
      <4>3. QED
        BY <4>2
    <3>2. /\ n \in 1 .. N /\ Seen(ps, B, F, n) /\ P <= B[n]
          /\ \A m \in 1 .. N : Seen(ps, B, F, m) /\ P <= B[m] => B[n] <= B[m]
      BY <3>1
    <3>3. r = IF Ended(ps, B, F, n)
              THEN [next |-> "scan", pos |-> B[n + 1] - off,
                    usage |-> Merged(ps[n], x.usage)]
              ELSE [next |-> "stop", pos |-> B[n] - off, usage |-> x.usage]
      <4> DEFINE from == x.pos
                 c == x.usage
      <4>1. from \in 1 .. F - off + 1 /\ Clean(A, off, from)
        BY <1>5, <2>1
      <4>2. /\ n \in 1 .. Len(ps) /\ Seen(ps, B, F, n) /\ off + from <= B[n]
            /\ \A m \in 1 .. Len(ps) :
                  Seen(ps, B, F, m) /\ off + from <= B[m] => B[n] <= B[m]
        BY <3>2
      <4> HIDE DEF from, c
      <4>3. Round(K, from, c) =
                IF Ended(ps, B, F, n)
                THEN [next |-> "scan", pos |-> B[n + 1] - off,
                      usage |-> Merged(ps[n], c)]
                ELSE [next |-> "stop", pos |-> B[n] - off, usage |-> c]
        BY <4>1, <4>2, RoundAtKey
      <4>4. QED
        BY <4>3 DEF from, c
    <3>4. /\ B[n] \in Nat /\ B[n + 1] \in Nat /\ B[n] < B[n + 1] /\ B[n] <= F
          /\ Ended(ps, B, F, n) <=> B[n + 1] - 1 <= F
      BY <1>4, <3>2
    <3>5. \A m \in 1 .. N : Seen(ps, B, F, m) /\ P <= B[m] =>
              m = n \/ B[n + 1] <= B[m]
      BY <1>1, <3>2, BeginsBehind
    <3> HIDE DEF r, here
    <3>6. CASE ~ Ended(ps, B, F, n)
      <4>1. r.next = "stop" /\ r.pos = B[n] - off /\ r.usage = x.usage
        BY <3>3, <3>6
      <4>2. f[x] = [pos |-> r.pos, usage |-> r.usage]
        BY <2>1, <2>2, <4>1
      <4>3. f[x].pos = B[n] - off /\ f[x].usage = x.usage
        BY <4>1, <4>2
      <4>4. /\ off + f[x].pos = B[n] /\ P <= B[n] /\ B[n] <= F + 1
            /\ f[x].pos \in Int
        BY <1>2, <3>2, <3>4, <4>3
      <4>5. \A m \in 1 .. N : Seen(ps, B, F, m) /\ P <= B[m] => m \in R \/ m = n
        BY <1>2, <1>4, <3>4, <3>5, <3>6
      <4>6. R \in SUBSET (1 .. Len(ps)) /\ f[x].usage = Most(ps, pr, R)
            /\ R \subseteq R /\ \A k \in R \ R : Ended(ps, B, F, k)
        BY <1>5, <4>3
      <4> HIDE DEF P
      <4>7. Outcome(ps, pr, B, F, P, R, B[n], f[x].usage)
        BY <3>2, <3>6, <4>4, <4>5, <4>6 DEF Outcome
      <4>8. QED
        BY <4>4, <4>7 DEF P
    <3>7. CASE Ended(ps, B, F, n)
      <4> DEFINE y == [pos |-> B[n + 1] - off, usage |-> Merged(ps[n], x.usage)]
                 Q == R \cup {n}
      <4>1. r.next = "scan" /\ r.pos = B[n + 1] - off
            /\ r.usage = Merged(ps[n], x.usage)
        BY <3>3, <3>7
      <4>2. f[x] = f[y]
        BY <2>1, <2>2, <4>1
      <4>3. /\ B[n + 1] - off \in 1 .. l + 1 /\ x.pos < B[n + 1] - off
            /\ B[n + 1] - off > 1
        <5> DEFINE b == B[n]
                   e == B[n + 1]
                   u == x.pos
        <5>1. /\ b \in Nat /\ e \in Nat /\ b < e /\ e - 1 <= F /\ off + u <= b
              /\ u \in 1 .. l + 1
          BY <2>1, <3>2, <3>4, <3>7
        <5> HIDE DEF b, e, u
        <5>2. e - off \in 1 .. l + 1 /\ u < e - off /\ e - off > 1
          BY <1>2, <5>1
        <5>3. QED
          BY <5>2 DEF e, u
      <4>4. Merged(ps[n], x.usage) = Most(ps, pr, Q)
        <5>1. ps[n] \in Reports[pr] \cup Others /\ Keyed(ps[n])
          BY <3>2 DEF Seen
        <5>2. QED
          BY <1>5, <5>1, MergedIsMost
      <4>5. Most(ps, pr, Q) \in [Kinds -> 0 .. 2]
        BY MostType
      <4>6. y \in States(K) /\ y.pos = B[n + 1] - off
            /\ y.usage = Most(ps, pr, Q)
        BY <1>2, <4>3, <4>4, <4>5 DEF States
      <4>7. Q \in SUBSET (1 .. N)
        BY <3>2
      <4>8. Clean(A, off, y.pos)
        BY <4>3, <4>6 DEF Clean
      <4> HIDE DEF y, Q
      <4>9. Good(y, Q)
        BY <1>5, <4>3, <4>6, <4>7, <4>8
      <4>10. off + y.pos = B[n + 1] /\ off + f[x].pos = off + f[y].pos
             /\ f[x].usage = f[y].usage /\ f[x].pos = f[y].pos
        BY <1>2, <3>4, <4>2, <4>6
      <4> DEFINE Z == off + f[y].pos
                 c == f[y].usage
      <4>11. Outcome(ps, pr, B, F, B[n + 1], Q, Z, c)
        BY <4>9, <4>10
      <4> HIDE DEF Z, c
      <4>12. PICK S2 \in SUBSET (1 .. Len(ps)) :
                /\ c = Most(ps, pr, S2)
                /\ Q \subseteq S2 /\ \A k \in S2 \ Q : Ended(ps, B, F, k)
                /\ \/ /\ Z = F + 1 \/ Z = F - 1
                      /\ \A m \in 1 .. Len(ps) :
                            Seen(ps, B, F, m) /\ B[n + 1] <= B[m] => m \in S2
                   \/ \E k \in 1 .. Len(ps) :
                         /\ Seen(ps, B, F, k) /\ ~ Ended(ps, B, F, k)
                         /\ Z = B[k]
                         /\ \A m \in 1 .. Len(ps) :
                               Seen(ps, B, F, m)
                               /\ B[n + 1] <= B[m] => m \in S2 \/ m = k
        BY <4>11 DEF Outcome
      <4>13. B[n + 1] <= Z /\ Z <= F + 1
        BY <4>11 DEF Outcome
      <4>14. R \subseteq S2 /\ n \in S2 /\ \A k \in S2 \ R : Ended(ps, B, F, k)
        BY <3>7, <4>12 DEF Q
      <4>15. P <= Z
        <5>1. Z = F + 1 \/ Z = F - 1 \/ \E k \in 1 .. N : Z = B[k]
          BY <4>12
        <5>2. Z \in Int
          BY <1>2, <1>4, <5>1
        <5> HIDE DEF P
        <5>3. QED
          BY <2>1, <3>2, <3>4, <4>13, <5>2
      <4>16. \A m \in 1 .. N : Seen(ps, B, F, m) /\ P <= B[m] =>
                m \in S2 \/ B[n + 1] <= B[m]
        BY <3>5, <4>14
      <4> HIDE DEF P
      <4>17. Outcome(ps, pr, B, F, P, R, Z, c)
        <5>1. CASE /\ Z = F + 1 \/ Z = F - 1
                   /\ \A m \in 1 .. Len(ps) :
                         Seen(ps, B, F, m) /\ B[n + 1] <= B[m] => m \in S2
          <6>1. \A m \in 1 .. Len(ps) : Seen(ps, B, F, m)
                /\ P <= B[m] => m \in S2
            BY <4>16, <5>1
          <6>2. QED
            BY <4>12, <4>13, <4>14, <4>15, <5>1, <6>1 DEF Outcome
        <5>2. ASSUME NEW k \in 1 .. Len(ps),
                     Seen(ps, B, F, k), ~ Ended(ps, B, F, k), Z = B[k],
                     \A m \in 1 .. Len(ps) :
                        Seen(ps, B, F, m)
                        /\ B[n + 1] <= B[m] => m \in S2 \/ m = k
              PROVE  Outcome(ps, pr, B, F, P, R, Z, c)
          <6>1. \A m \in 1 .. Len(ps) :
                   Seen(ps, B, F, m) /\ P <= B[m] => m \in S2 \/ m = k
            BY <4>16, <5>2
          <6>2. QED
            BY <4>12, <4>13, <4>14, <4>15, <5>2, <6>1 DEF Outcome
        <5>3. QED
          BY <4>12, <5>1, <5>2
      <4>18. QED
        BY <4>9, <4>10, <4>17 DEF P, Z, c
    <3>8. QED
      BY <3>6, <3>7
  <2>5. QED
    BY <2>3, <2>4
<1> HIDE DEF Good
<1>6. 0 \in T
  <2>1. ASSUME NEW x \in States(K), NEW R \in SUBSET (1 .. N),
               l + 1 - x.pos <= 0, Clean(A, off, x.pos), x.usage = Most(ps, pr, R)
        PROVE  Good(x, R)
    <3>1. \A y \in States(K) : ~ (x.pos < y.pos)
      <4> SUFFICES ASSUME NEW y \in States(K) PROVE ~ (x.pos < y.pos)
        OBVIOUS
      <4>1. x.pos \in 1 .. l + 1 /\ y.pos \in 1 .. l + 1
        BY <1>3
      <4>2. QED
        BY <1>2, <2>1, <4>1
    <3>2. QED
      BY <1>5, <2>1, <3>1
  <2>2. QED
    BY <2>1
<1>7. ASSUME NEW k \in Nat, k \in T PROVE k + 1 \in T
  <2>1. ASSUME NEW x \in States(K), NEW R \in SUBSET (1 .. N),
               l + 1 - x.pos <= k + 1, Clean(A, off, x.pos),
               x.usage = Most(ps, pr, R)
        PROVE  Good(x, R)
    <3>1. ASSUME NEW y \in States(K), x.pos < y.pos PROVE l + 1 - y.pos <= k
      <4> DEFINE u == x.pos
                 w == y.pos
      <4>1. u \in 1 .. l + 1 /\ w \in 1 .. l + 1 /\ u < w /\ l + 1 - u <= k + 1
        BY <1>3, <2>1, <3>1
      <4> HIDE DEF u, w, l
      <4>2. l + 1 - w <= k
        BY <1>2, <4>1
      <4>3. QED
        BY <4>2 DEF w, l
    <3>2. \A y \in States(K), Q \in SUBSET (1 .. N) :
             x.pos < y.pos /\ Clean(A, off, y.pos)
               /\ y.usage = Most(ps, pr, Q) => Good(y, Q)
      BY <1>7, <3>1
    <3>3. QED
      BY <1>5, <2>1, <3>2
  <2>2. Till(k + 1)
    BY <2>1
  <2> HIDE DEF Till
  <2>3. QED
    BY <2>2
<1>8. Nat \subseteq T
  <2>1. \A k \in Nat : k \in T => k + 1 \in T
    BY <1>7
  <2> HIDE DEF T
  <2>2. QED
    BY <1>6, <2>1, SetOfNaturals
<1>9. l + 1 - at.pos \in Nat
  <2>1. at.pos \in 1 .. l + 1
    BY <1>3
  <2>2. QED
    BY <1>2, <2>1
<1>10. Good(at, S)
  <2> DEFINE k == l + 1 - at.pos
  <2>1. k \in T /\ k <= k
    BY <1>8, <1>9
  <2>2. QED
    BY <2>1
<1>11. QED
  BY <1>10 DEF Good

-----------------------------------------------------------------------------
(* The invariant.                                                          *)

Places == Begins(pieces)
Off == fed - Len(buf)

\* What the buffer holds are the last bytes that arrived, all of them until
\* it is full.
BufInv ==
    /\ fed \in 0 .. Len(Answer) /\ split \in BOOLEAN
    /\ Len(buf) \in Nat /\ Len(buf) <= Cap /\ Len(buf) <= fed
    /\ Len(buf) < fed => Len(buf) = Cap
    /\ Kept(pieces, Answer, Places, buf, Off, fed)
    /\ provider \in DOMAIN Reports
    /\ \A n \in 1 .. Len(pieces) : pieces[n] \in Reports[provider] \cup Others

\* Where the scanner goes on: behind or just before the last byte, or at a
\* key whose piece has not ended.
AtRest(Q, F) ==
    \/ Q = F + 1 \/ Q = F - 1
    \/ \E n \in 1 .. Len(pieces) :
          /\ Seen(pieces, Places, F, n) /\ ~ Ended(pieces, Places, F, n)
          /\ Q = Places[n]

\* The counts are those of pieces that have ended, and unless a key was split
\* every piece with a key that begins before the place is one of them.
Counted(S, Q, F) ==
    /\ usage = Most(pieces, provider, S)
    /\ \A n \in S : Ended(pieces, Places, F, n)
    /\ ~ split => \A n \in 1 .. Len(pieces) :
                     Keyed(pieces[n]) /\ Places[n] < Q => n \in S

ScanInv ==
    /\ pos \in 1 .. Len(buf) + 1
    /\ AtRest(Off + pos, fed)
    /\ \E S \in SUBSET (1 .. Len(pieces)) : Counted(S, Off + pos, fed)

IInv == BufInv /\ ScanInv

\* The longest report has ten bytes.
LEMMA CapIsLarge == MaxChunk \in Nat \ {0} /\ Cap \in Nat /\ 9 + MaxChunk <= Cap
<1>1. Nested \in Reports["openai"] /\ "openai" \in DOMAIN Reports
  BY DEF Reports, Nested
<1>2. Len(Nested) = 10
  BY DEF Nested
<1>3. Len(Nested) + MaxChunk <= Cap + 1
  BY <1>1, UsageAssumption
<1>4. QED
  BY <1>2, <1>3, UsageAssumption

LEMMA NothingIsMost ==
    ASSUME NEW ps, NEW pr PROVE Most(ps, pr, {}) = Nothing
<1>1. Max({0}) = 0
  BY MaxIs
<1>2. \A kind \in Kinds : {0} \cup Values(Found(ps, pr, {}), kind) = {0}
  BY DEF Values, Found
<1>3. QED
  BY <1>1, <1>2 DEF Most, Nothing

LEMMA InitIInv == Init => IInv
<1> SUFFICES ASSUME Init PROVE IInv
  OBVIOUS
<1>1. pieces \in Seq(Reports[provider] \cup Others)
      /\ provider \in DOMAIN Reports
  BY UsageAssumption DEF Init, SeqOf
<1>2. \A n \in 1 .. Len(pieces) :
          pieces[n] \in Reports[provider] \cup Others /\ pieces[n] \in Pieces
  BY <1>1 DEF Pieces
<1>3. pieces \in Seq(Seq(Bytes))
  <2>1. \A n \in 1 .. Len(pieces) : pieces[n] \in Seq(Bytes)
    BY <1>2, PieceShape DEF Shape
  <2>2. QED
    BY <1>1, <2>1
<1>4. Laid(pieces, Answer, Places)
  BY <1>3, AnswerIsLaid DEF Answer, Places
<1>5. fed = 0 /\ split = FALSE /\ buf = <<>> /\ pos = 1 /\ usage = Nothing
  BY DEF Init
<1>6. Len(buf) = 0 /\ Off = 0 /\ buf \in Seq(Bytes) /\ Len(Answer) \in Nat
  <2>1. Answer \in Seq(Bytes)
    BY <1>4 DEF Laid
  <2>2. Len(buf) = 0 /\ buf \in Seq(Bytes)
    BY <1>5
  <2>3. Off = 0
    <3>1. Off = 0 - 0
      BY <1>5, <2>2 DEF Off
    <3>2. QED
      BY <3>1
  <2>4. Len(Answer) \in Nat
    BY <2>1
  <2>5. QED
    BY <2>2, <2>3, <2>4
<1>7. Kept(pieces, Answer, Places, buf, Off, fed)
  BY <1>2, <1>4, <1>5, <1>6 DEF Kept
<1>8. BufInv
  <2>1. fed \in 0 .. Len(Answer) /\ split \in BOOLEAN
    <3> DEFINE l == Len(Answer)
    <3>1. l \in Nat /\ fed = 0 /\ split = FALSE
      BY <1>5, <1>6
    <3> HIDE DEF l
    <3>2. fed \in 0 .. l
      BY <3>1
    <3>3. split \in BOOLEAN
      BY <3>1
    <3>4. QED
      BY <3>2, <3>3 DEF l
  <2>2. /\ Len(buf) \in Nat /\ Len(buf) <= Cap /\ Len(buf) <= fed
        /\ ~ (Len(buf) < fed)
    BY <1>5, <1>6, CapIsLarge
  <2>3. QED
    BY <1>1, <1>2, <1>7, <2>1, <2>2 DEF BufInv
<1>9. ScanInv
  <2>1. pos \in 1 .. Len(buf) + 1 /\ Off + pos = 1 /\ AtRest(Off + pos, fed)
    BY <1>5, <1>6 DEF AtRest
  <2>2. \A n \in 1 .. Len(pieces) : ~ (Places[n] < 1)
    <3> SUFFICES ASSUME NEW n \in 1 .. Len(pieces) PROVE ~ (Places[n] < 1)
      OBVIOUS
    <3>1. Places[n] \in Nat \ {0}
      BY <1>2, <1>4, PieceFacts
    <3>2. QED
      BY <3>1
  <2>3. usage = Most(pieces, provider, {})
    BY <1>5, NothingIsMost
  <2>4. Counted({}, 1, fed)
    BY <2>2, <2>3 DEF Counted
  <2>5. QED
    BY <2>1, <2>4 DEF ScanInv
<1>10. QED
  BY <1>8, <1>9 DEF IInv

\* A buffer that holds the answer from one byte to another.
Holds(s, A, off, F) ==
    /\ off \in Nat /\ F \in Nat /\ off <= F
    /\ s \in Seq(Bytes) /\ Len(s) = F - off
    /\ \A i \in 1 .. F - off : s[i] = A[off + i]

Extended(s, A, F, size) == s \o SubSeq(A, F + 1, F + size)
Shortened(t) == SubSeq(t, Dropped(t) + 1, Len(t))

\* The chunk that arrives, behind what the buffer has.
LEMMA ArrivedBytes ==
    ASSUME NEW A \in Seq(Bytes), NEW s, NEW off, NEW F, Holds(s, A, off, F),
           NEW size \in Nat, F + size <= Len(A)
    PROVE  Holds(Extended(s, A, F, size), A, off, F + size)
<1> DEFINE t == Extended(s, A, F, size)
<1>1. /\ off \in Nat /\ F \in Nat /\ off <= F
      /\ s \in Seq(Bytes) /\ Len(s) = F - off
      /\ \A i \in 1 .. F - off : s[i] = A[off + i]
  BY DEF Holds
<1> DEFINE c == SubSeq(A, F + 1, F + size)
           l == F - off
<1>2. c \in Seq(Bytes) /\ Len(c) = size /\ \A i \in 1 .. size : c[i] = A[F + i]
  <2>1. F + 1 \in Nat \ {0} /\ F + size \in Nat /\ F + 1 <= (F + size) + 1
    BY <1>1
  <2>2. c \in Seq(Bytes) /\ Len(c) = (F + size) - (F + 1) + 1
        /\ \A j \in 1 .. (F + size) - (F + 1) + 1 : c[j] = A[(F + 1) + j - 1]
    <3> DEFINE a == F + 1
               b == F + size
    <3>1. a \in Nat \ {0} /\ b \in Nat /\ a <= b + 1 /\ b <= Len(A)
          /\ c = SubSeq(A, a, b)
      BY <2>1
    <3> HIDE DEF a, b, c
    <3>2. c \in Seq(Bytes) /\ Len(c) = b - a + 1
          /\ \A j \in 1 .. b - a + 1 : c[j] = A[a + j - 1]
      BY <3>1, PartOf
    <3>3. QED
      BY <3>2 DEF a, b
  <2>3. (F + size) - (F + 1) + 1 = size
        /\ \A j \in 1 .. size : (F + 1) + j - 1 = F + j
    BY <1>1
  <2> HIDE DEF c
  <2>4. QED
    BY <2>2, <2>3
<1>3. /\ t = s \o c /\ Len(s) = l /\ l \in Nat /\ F = off + l
      /\ (F + size) - off = l + size /\ off <= F + size /\ F + size \in Nat
  BY <1>1 DEF Extended
<1>4. s \in Seq(Bytes) /\ off \in Nat /\ \A i \in 1 .. l : s[i] = A[off + i]
  BY <1>1
<1> HIDE DEF c, l, t
<1>5. /\ t \in Seq(Bytes) /\ Len(t) = l + size
      /\ \A i \in 1 .. l : t[i] = s[i]
      /\ \A i \in 1 .. size : t[l + i] = c[i]
  <2>1. /\ Len(s) \in Nat /\ Len(c) \in Nat
        /\ s \o c \in Seq(Bytes) /\ Len(s \o c) = Len(s) + Len(c)
        /\ \A i \in 1 .. Len(s) : (s \o c)[i] = s[i]
        /\ \A i \in 1 .. Len(c) : (s \o c)[Len(s) + i] = c[i]
    BY <1>2, <1>4, Concatenated
  <2>2. QED
    BY <1>2, <1>3, <2>1
<1>6. ASSUME NEW i \in 1 .. l + size PROVE t[i] = A[off + i]
  <2>1. CASE i <= l
    <3>1. i \in 1 .. l
      BY <1>3, <2>1
    <3>2. s[i] = A[off + i]
      BY <1>4, <3>1
    <3>3. QED
      BY <1>5, <3>1, <3>2
  <2>2. CASE ~ (i <= l)
    <3> DEFINE j == i - l
    <3>1. j \in 1 .. size /\ l + j = i /\ F + j = off + i
      BY <1>3, <1>4, <2>2
    <3> HIDE DEF j
    <3>2. t[l + j] = A[F + j]
      BY <1>2, <1>5, <3>1
    <3>3. QED
      BY <3>1, <3>2
  <2>3. QED
    BY <2>1, <2>2
<1>7. Holds(t, A, off, F + size)
  BY <1>3, <1>4, <1>5, <1>6 DEF Holds
<1>8. QED
  BY <1>7 DEF t

\* What is left of a sequence without its first bytes.
LEMMA LastBytes ==
    ASSUME NEW s \in Seq(Bytes), NEW d \in Nat, d <= Len(s),
           NEW t, t = SubSeq(s, d + 1, Len(s))
    PROVE  /\ t \in Seq(Bytes) /\ Len(t) = Len(s) - d
           /\ \A j \in 1 .. Len(s) - d : t[j] = s[d + j]
<1> DEFINE a == d + 1
           b == Len(s)
<1>1. a \in Nat \ {0} /\ b \in Nat /\ a <= b + 1 /\ b <= Len(s)
      /\ t = SubSeq(s, a, b)
  OBVIOUS
<1> HIDE DEF a, b
<1>2. t \in Seq(Bytes) /\ Len(t) = b - a + 1
      /\ \A j \in 1 .. b - a + 1 : t[j] = s[a + j - 1]
  BY <1>1, PartOf
<1>3. b - a + 1 = b - d /\ \A j \in 1 .. b - d : a + j - 1 = d + j
  BY <1>1 DEF a
<1>4. QED
  BY <1>2, <1>3 DEF b

\* What is kept of what has arrived, once the rest is dropped.
LEMMA KeptBytes ==
    ASSUME NEW A, NEW t, NEW off, NEW F, Holds(t, A, off, F)
    PROVE  /\ Dropped(t) \in Nat /\ Holds(Shortened(t), A, off + Dropped(t), F)
           /\ Len(Shortened(t)) <= Cap
           /\ \/ Dropped(t) = 0 /\ F - off <= Cap
              \/ Dropped(t) > 0 /\ Len(Shortened(t)) = Cap
<1> DEFINE kept == Shortened(t)
<1>1. /\ off \in Nat /\ F \in Nat /\ off <= F
      /\ t \in Seq(Bytes) /\ Len(t) = F - off
      /\ \A i \in 1 .. F - off : t[i] = A[off + i]
  BY DEF Holds
<1> DEFINE l == F - off
           drop == Dropped(t)
<1>2. Cap \in Nat /\ l \in Nat /\ Len(t) = l
  BY <1>1, CapIsLarge
<1>3. drop = IF l > Cap THEN l - Cap ELSE 0
  <2> DEFINE S == {0, l - Cap}
             m == IF l > Cap THEN l - Cap ELSE 0
  <2>1. S \in SUBSET Int /\ m \in S /\ \A y \in S : y <= m
    <3> HIDE DEF l
    <3>1. QED
      BY <1>2
  <2> HIDE DEF S, m
  <2>2. Max(S) = m
    BY <2>1, MaxIs
  <2>3. Dropped(t) = Max(S)
    BY <1>2 DEF Dropped, S
  <2>4. QED
    BY <2>2, <2>3 DEF m
<1>4. kept = SubSeq(t, drop + 1, Len(t))
  BY DEF Shortened
<1>5. \A j \in 1 .. l : t[j] = A[off + j]
  BY <1>1
<1> HIDE DEF drop, l, kept
<1>6. drop \in Nat /\ drop <= l
  BY <1>2, <1>3
<1>7. /\ kept \in Seq(Bytes) /\ Len(kept) = l - drop
      /\ \A j \in 1 .. l - drop : kept[j] = t[drop + j]
  <2>1. drop <= Len(t)
    BY <1>2, <1>6
  <2>2. /\ kept \in Seq(Bytes) /\ Len(kept) = Len(t) - drop
        /\ \A j \in 1 .. Len(t) - drop : kept[j] = t[drop + j]
    BY <1>1, <1>4, <1>6, <2>1, LastBytes
  <2>3. QED
    BY <1>2, <2>2
<1>8. ASSUME NEW i \in 1 .. l - drop PROVE kept[i] = A[(off + drop) + i]
  <2> DEFINE j == drop + i
  <2>1. j \in 1 .. l /\ off + j = (off + drop) + i
    BY <1>1, <1>2, <1>6
  <2> HIDE DEF j
  <2>2. t[j] = A[off + j]
    BY <1>5, <2>1
  <2>3. QED
    BY <1>7, <2>1, <2>2 DEF j
<1>9. l - drop = F - (off + drop) /\ off + drop <= F /\ off + drop \in Nat
  BY <1>1, <1>6 DEF l
<1>10. /\ l - drop <= Cap
       /\ (drop = 0 /\ l <= Cap) \/ (drop > 0 /\ l - drop = Cap)
  BY <1>2, <1>3
<1>11. Holds(kept, A, off + drop, F)
  BY <1>1, <1>7, <1>8, <1>9 DEF Holds
<1>12. QED
  BY <1>6, <1>7, <1>10, <1>11 DEF drop, l, kept

\* A place the scanner rests at is not far from the end.
LEMMA RestIsNear ==
    ASSUME NEW A, Laid(pieces, A, Places),
           \A n \in 1 .. Len(pieces) : pieces[n] \in Pieces,
           NEW F \in Nat, NEW Q, AtRest(Q, F)
    PROVE  Q \in Int /\ F - 8 <= Q /\ Q <= F + 1
<1>1. CASE Q = F + 1 \/ Q = F - 1
  BY <1>1
<1>2. ASSUME NEW n \in 1 .. Len(pieces), Seen(pieces, Places, F, n),
             ~ Ended(pieces, Places, F, n), Q = Places[n]
      PROVE  Q \in Int /\ F - 8 <= Q /\ Q <= F + 1
  <2>1. /\ Places[n] \in Nat /\ Len(pieces[n]) \in 1 .. 10
        /\ Places[n + 1] = Places[n] + Len(pieces[n])
    BY PieceFacts
  <2>2. Places[n] + KeyLen(pieces[n]) - 1 <= F /\ KeyLen(pieces[n]) \in 2 .. 3
    BY <1>2 DEF Seen, KeyLen
  <2>3. ~ (Places[n + 1] - 1 <= F)
    BY <1>2 DEF Ended
  <2> DEFINE b == Places[n]
             k == KeyLen(pieces[n])
             l == Len(pieces[n])
  <2>4. /\ b \in Nat /\ k \in 2 .. 3 /\ l \in 1 .. 10 /\ b + k - 1 <= F
        /\ ~ (b + l - 1 <= F)
    BY <2>1, <2>2, <2>3
  <2> HIDE DEF b, k, l
  <2>5. b \in Int /\ F - 8 <= b /\ b <= F + 1
    BY <2>4
  <2>6. QED
    BY <1>2, <2>5 DEF b
<1>3. QED
  BY <1>1, <1>2 DEF AtRest

\* A key that begins where no key is split is seen.
LEMMA WholeKeySeen ==
    ASSUME NEW A, Laid(pieces, A, Places),
           \A n \in 1 .. Len(pieces) : pieces[n] \in Pieces,
           NEW F \in Nat, ~ CutsKey(A, F),
           NEW n \in 1 .. Len(pieces), Keyed(pieces[n]), Places[n] <= F
    PROVE  Seen(pieces, Places, F, n)
<1> DEFINE p == pieces[n]
           b == Places[n]
<1>1. /\ Shape(p) /\ Len(p) \in 1 .. 10 /\ b \in Nat \ {0}
      /\ Places[n + 1] = b + Len(p) /\ Places[n + 1] - 1 <= Len(A)
      /\ Len(A) \in Nat
      /\ \A j \in 1 .. Len(p) : A[b + j - 1] = p[j]
  BY PieceFacts
<1>2. KeyShape(p) /\ p[1] = "quote" /\ A \in Seq(Bytes)
  BY <1>1 DEF Shape, Keyed, Laid
<1>3. \/ p[2] = "usage" /\ KeyLen(p) = 2 /\ 4 <= Len(p)
      \/ /\ p[2] = "usageM" /\ p[3] = "etadata" /\ KeyLen(p) = 3 /\ 5 <= Len(p)
  BY <1>2 DEF KeyShape, KeyLen, Value
<1> DEFINE L == Len(p)
<1>4. /\ b \in Nat /\ b >= 1 /\ b + L - 1 <= Len(A) /\ L \in 4 .. 10 /\ b <= F
      /\ b <= Len(A)
  <2> DEFINE e == Places[n + 1]
             a == Len(A)
  <2>1. b \in Nat \ {0} /\ L \in 1 .. 10 /\ e = b + L /\ e - 1 <= a /\ a \in Nat
        /\ b <= F
    BY <1>1
  <2>2. 4 <= L
    <3>1. L \in Int
      BY <2>1
    <3> HIDE DEF L
    <3>2. 5 <= L => 4 <= L
      BY <3>1
    <3>3. QED
      BY <1>3, <3>2 DEF L
  <2> HIDE DEF b, L, e, a
  <2>3. /\ b \in Nat /\ b >= 1 /\ b + L - 1 <= a /\ L \in 4 .. 10 /\ b <= F
        /\ b <= a
    BY <2>1, <2>2
  <2>4. QED
    BY <2>3 DEF a
<1>5. A[b] = p[1] /\ A[b + 1] = p[2] /\ A[b + 2] = p[3]
  <2>1. 1 \in 1 .. L /\ 2 \in 1 .. L /\ 3 \in 1 .. L
    <3>1. L \in 4 .. 10
      BY <1>4
    <3> HIDE DEF L
    <3>2. QED
      BY <3>1
  <2>2. b + 1 - 1 = b /\ b + 2 - 1 = b + 1 /\ b + 3 - 1 = b + 2
    <3>1. b \in Nat
      BY <1>4
    <3> HIDE DEF b
    <3>2. QED
      BY <3>1
  <2>3. QED
    BY <1>1, <2>1, <2>2
<1>6. b + 1 <= Len(A) /\ b + 2 <= Len(A) /\ b \in 1 .. F
  <2> HIDE DEF b, L
  <2>1. QED
    BY <1>1, <1>4
<1>7. Len(UsageKey) = 2 /\ Len(MetadataKey) = 3
      /\ UsageKey \in UsageKeys /\ MetadataKey \in UsageKeys
  BY DEF UsageKey, MetadataKey, UsageKeys
<1>8. Seen(pieces, Places, F, n) <=> b + KeyLen(p) - 1 <= F
  BY DEF Seen
<1> HIDE DEF b, p
<1>9. CASE p[2] = "usage" /\ KeyLen(p) = 2
  <2>1. IsPrefix(UsageKey, SubSeq(A, b, Len(A)))
    BY <1>2, <1>4, <1>5, <1>6, <1>9, KeyPrefixes
  <2>2. ~ (F < b + 2 - 1)
    BY <1>4, <1>6, <1>7, <2>1 DEF CutsKey
  <2>3. QED
    BY <1>4, <1>8, <1>9, <2>2
<1>10. CASE p[2] = "usageM" /\ p[3] = "etadata" /\ KeyLen(p) = 3
  <2>1. IsPrefix(MetadataKey, SubSeq(A, b, Len(A)))
    BY <1>2, <1>4, <1>5, <1>6, <1>10, KeyPrefixes
  <2>2. ~ (F < b + 3 - 1)
    BY <1>4, <1>6, <1>7, <2>1 DEF CutsKey
  <2>3. QED
    BY <1>4, <1>8, <1>10, <2>2
<1>11. QED
  BY <1>3, <1>9, <1>10

LEMMA KeptHolds ==
    ASSUME NEW ps, NEW A, NEW B, NEW K, NEW off, NEW F
    PROVE  Kept(ps, A, B, K, off, F) <=>
               /\ Laid(ps, A, B) /\ \A n \in 1 .. Len(ps) : ps[n] \in Pieces
               /\ F <= Len(A) /\ Holds(K, A, off, F)
BY DEF Kept, Holds

\* What the buffer holds once a chunk has arrived.
LEMMA FedBytes ==
    ASSUME BufInv, NEW size \in Nat, 1 <= size, size <= MaxChunk,
           fed + size <= Len(Answer),
           NEW kept, kept = Shortened(Extended(buf, Answer, fed, size))
    PROVE  \E drop \in Nat :
              /\ Dropped(Extended(buf, Answer, fed, size)) = drop
              /\ Kept(pieces, Answer, Places, kept, Off + drop, fed + size)
              /\ Len(kept) <= Cap
              /\ Len(kept) < fed + size => Len(kept) = Cap
              /\ drop = 0 => Off = 0
              /\ drop > 0 => Off + drop + 9 <= fed
<1> DEFINE off == Off
           l == Len(buf)
           A == Answer
           F == fed + size
<1>1. /\ Kept(pieces, A, Places, buf, off, fed)
      /\ l \in Nat /\ l <= Cap /\ l <= fed /\ (l < fed => l = Cap)
  BY DEF BufInv
<1>2. /\ Laid(pieces, A, Places)
      /\ \A n \in 1 .. Len(pieces) : pieces[n] \in Pieces
      /\ Holds(buf, A, off, fed)
  BY <1>1, KeptHolds
<1>3. A \in Seq(Bytes) /\ off \in Nat /\ fed \in Nat /\ off <= fed
  BY <1>2 DEF Laid, Holds
<1>4. off = fed - l /\ F = fed + size /\ F <= Len(A) /\ F \in Nat /\ off <= F
  BY <1>3 DEF Off
<1> DEFINE t == Extended(buf, A, fed, size)
           drop == Dropped(t)
<1>5. kept = Shortened(t) /\ fed + size <= Len(A)
  OBVIOUS
<1> HIDE DEF off, A, F
<1>6. Holds(t, A, off, fed + size)
  BY <1>2, <1>3, <1>5, ArrivedBytes
<1> HIDE DEF t
<1>7. Holds(t, A, off, F)
  BY <1>6 DEF F
<1>8. /\ drop \in Nat /\ Holds(kept, A, off + drop, F)
      /\ Len(kept) <= Cap
      /\ (drop = 0 /\ F - off <= Cap) \/ (drop > 0 /\ Len(kept) = Cap)
  BY <1>5, <1>7, KeptBytes
<1> HIDE DEF drop
<1>9. Kept(pieces, A, Places, kept, off + drop, F)
  BY <1>2, <1>4, <1>8, KeptHolds
<1> DEFINE m == Len(kept)
<1>10. /\ drop \in Nat /\ m = F - (off + drop)
       /\ (drop = 0 /\ F - off <= Cap) \/ (drop > 0 /\ m = Cap)
  BY <1>8 DEF Holds
<1>11. /\ fed \in Nat /\ l \in Nat /\ l <= Cap /\ (l < fed => l = Cap)
       /\ off = fed - l /\ F = fed + size /\ 9 + MaxChunk <= Cap
       /\ Cap \in Nat /\ MaxChunk \in Nat
  BY <1>1, <1>3, <1>4, CapIsLarge
<1> HIDE DEF l, m
<1>12. drop = 0 => off = 0
  <2> SUFFICES ASSUME drop = 0, off # 0 PROVE FALSE
    OBVIOUS
  <2>1. l < fed /\ F - off <= Cap
    BY <1>3, <1>10, <1>11
  <2>2. QED
    BY <1>11, <2>1
<1>13. drop > 0 => off + drop + 9 <= fed
  <2> SUFFICES ASSUME drop > 0 PROVE off + drop + 9 <= fed
    OBVIOUS
  <2>1. (fed + size) - (off + drop) = Cap
    BY <1>10, <1>11
  <2>2. size <= MaxChunk
    OBVIOUS
  <2>3. QED
    BY <1>3, <1>10, <1>11, <2>1, <2>2
<1>14. m < F => m = Cap
  <2> SUFFICES ASSUME m < F, drop = 0 PROVE m = Cap
    BY <1>10
  <2>1. off = 0 /\ m = F - off
    BY <1>10, <1>12
  <2>2. QED
    BY <1>4, <2>1
<1>15. QED
  BY <1>8, <1>9, <1>12, <1>13, <1>14 DEF off, A, F, m, t, drop

\* The bytes that are dropped are all before the place the scanner rests at.
LEMMA FedPlace ==
    ASSUME BufInv, ScanInv, NEW size \in Nat, NEW kept, NEW drop \in Nat,
           Kept(pieces, Answer, Places, kept, Off + drop, fed + size),
           drop = 0 => Off = 0, drop > 0 => Off + drop + 9 <= fed
    PROVE  /\ Rebased(pos, drop) \in 1 .. Len(kept) + 1
           /\ (Off + drop) + Rebased(pos, drop) = Off + pos
           /\ Clean(Answer, Off + drop, Rebased(pos, drop))
<1> DEFINE off == Off
           P == off + pos
           A == Answer
           from == pos - drop
           m == Len(kept)
<1>1. /\ Laid(pieces, A, Places)
      /\ \A n \in 1 .. Len(pieces) : pieces[n] \in Pieces
      /\ fed \in Nat /\ off \in Nat
  BY DEF BufInv, Kept
<1>2. AtRest(P, fed) /\ pos \in Nat /\ pos >= 1
  <2>1. Len(buf) \in Nat /\ pos \in 1 .. Len(buf) + 1 /\ AtRest(P, fed)
    BY DEF BufInv, ScanInv
  <2>2. QED
    BY <2>1
<1>3. fed - 8 <= P /\ P <= fed + 1 /\ P = off + pos
  <2> HIDE DEF P, A
  <2>1. fed - 8 <= P /\ P <= fed + 1
    BY <1>1, <1>2, RestIsNear
  <2>2. QED
    BY <2>1 DEF P
<1>4. m = fed + size - (off + drop) /\ off + drop <= fed + size
  <2>1. Len(kept) = (fed + size) - (Off + drop) /\ Off + drop <= fed + size
    BY DEF Kept
  <2> DEFINE o == Off + drop
  <2>2. m = (fed + size) - o /\ off + drop = o /\ o \in Nat /\ o <= fed + size
    BY <1>1, <2>1
  <2> HIDE DEF o, m, off
  <2>3. QED
    BY <1>1, <2>2
<1>5. (drop = 0 => off = 0) /\ (drop > 0 => off + drop + 9 <= fed)
  OBVIOUS
<1> HIDE DEF off, P, A, m
<1>6. ~ (pos <= drop) /\ from \in 1 .. m + 1 /\ (off + drop) + from = P
  <2>1. ~ (pos <= drop)
    BY <1>1, <1>2, <1>3, <1>5
  <2>2. QED
    BY <1>1, <1>2, <1>3, <1>4, <2>1
<1>7. Rebased(pos, drop) = from
  BY <1>6 DEF Rebased
<1>8. Clean(A, off + drop, from)
  <2> SUFFICES ASSUME ~ (from > 1), off + drop # 0 PROVE A[off + drop] # "\\"
    BY DEF Clean
  <2>1. P = off + drop + 1 /\ drop > 0 /\ P <= fed - 8 /\ P > 1
    <3>1. from = 1 /\ drop > 0
      BY <1>5, <1>6
    <3>2. QED
      BY <1>1, <1>2, <1>5, <1>6, <3>1
  <2>2. P # fed + 1 /\ P # fed - 1 /\ P - 1 = off + drop
    BY <1>1, <1>2, <2>1
  <2>3. PICK n \in 1 .. Len(pieces) : P = Places[n]
    BY <1>2, <2>2 DEF AtRest
  <2>4. A[Places[n] - 1] # "\\"
    BY <1>1, <2>1, <2>3, NoEscapeBefore
  <2>5. QED
    BY <2>2, <2>3, <2>4
<1>9. QED
  BY <1>6, <1>7, <1>8 DEF off, P, A, m


-----------------------------------------------------------------------------
(* A chunk that arrives.                                                   *)

\* What the scan of the kept bytes makes of the scanner.
LEMMA FedScan ==
    ASSUME BufInv, ScanInv, NEW size \in Nat, NEW kept, NEW drop \in Nat,
           Kept(pieces, Answer, Places, kept, Off + drop, fed + size),
           drop = 0 => Off = 0, drop > 0 => Off + drop + 9 <= fed,
           NEW S \in SUBSET (1 .. Len(pieces)), usage = Most(pieces, provider,
           S),
           NEW scan, scan = Scan(kept, Rebased(pos, drop), usage)
    PROVE  /\ scan.pos \in Int
           /\ Outcome(pieces, provider, Places, fed + size, Off + pos, S,
                      (Off + drop) + scan.pos, scan.usage)
<1> DEFINE from == Rebased(pos, drop)
           off == Off + drop
           at == [pos |-> from, usage |-> usage]
<1>1. /\ from \in 1 .. Len(kept) + 1 /\ off + from = Off + pos
      /\ Clean(Answer, off, from)
  BY FedPlace
<1>2. kept \in Seq(Bytes)
  BY DEF Kept
<1>3. usage \in [Kinds -> 0 .. 2]
  BY MostType
<1>4. at \in States(kept) /\ at.pos = from /\ at.usage = usage
  BY <1>1, <1>3 DEF States
<1>5. PICK f : IsScan(kept, f) /\ scan = f[at]
  BY <1>2, ScanIs
<1>6. /\ provider \in DOMAIN Reports
      /\ \A n \in 1 .. Len(pieces) : pieces[n] \in Reports[provider] \cup Others
  BY DEF BufInv
<1>7. Kept(pieces, Answer, Places, kept, off, fed + size)
  OBVIOUS
<1> HIDE DEF at, off, from
<1>8. /\ f[at].pos \in Int
      /\ Outcome(pieces, provider, Places, fed + size, off + at.pos, S,
                 off + f[at].pos, f[at].usage)
  BY <1>1, <1>4, <1>5, <1>6, <1>7, ScanOutcome
<1>9. QED
  BY <1>1, <1>4, <1>5, <1>8 DEF off

\* A place to rest at, after a scan.
LEMMA ScannedRests ==
    ASSUME NEW F, NEW P, NEW S, NEW Q, NEW c,
           Outcome(pieces, provider, Places, F, P, S, Q, c)
    PROVE  AtRest(Q, F)
BY DEF Outcome, AtRest

\* What the scanner has counted, after a scan of what was not split.
LEMMA ScannedCounts ==
    ASSUME BufInv, NEW size \in Nat, fed + size <= Len(Answer), NEW P \in Int,
           NEW S \in SUBSET (1 .. Len(pieces)), Counted(S, P, fed),
           NEW Q \in Int, NEW c,
           Outcome(pieces, provider, Places, fed + size, P, S, Q, c)
    PROVE  \E S2 \in SUBSET (1 .. Len(pieces)) :
              /\ c = Most(pieces, provider, S2)
              /\ \A n \in S2 : Ended(pieces, Places, fed + size, n)
              /\ ~ (split \/ CutsKey(Answer, fed + size)) =>
                    \A n \in 1 .. Len(pieces) :
                        Keyed(pieces[n]) /\ Places[n] < Q => n \in S2
<1> DEFINE F == fed + size
           A == Answer
<1>1. /\ Laid(pieces, A, Places)
      /\ \A n \in 1 .. Len(pieces) : pieces[n] \in Pieces
      /\ fed \in Nat /\ F \in Nat
  BY DEF BufInv, Kept
<1>2. PICK S2 \in SUBSET (1 .. Len(pieces)) :
        /\ c = Most(pieces, provider, S2)
        /\ S \subseteq S2 /\ \A n \in S2 \ S : Ended(pieces, Places, F, n)
        /\ \/ /\ Q = F + 1 \/ Q = F - 1
              /\ \A m \in 1 .. Len(pieces) :
                    Seen(pieces, Places, F, m) /\ P <= Places[m] => m \in S2
           \/ \E n \in 1 .. Len(pieces) :
                 /\ Seen(pieces, Places, F, n) /\ ~ Ended(pieces, Places, F, n)
                 /\ Q = Places[n]
                 /\ \A m \in 1 .. Len(pieces) :
                       Seen(pieces, Places, F, m)
                       /\ P <= Places[m] => m \in S2 \/ m = n
  BY DEF Outcome
<1>3. Q <= F + 1
  BY DEF Outcome
<1>4. ASSUME NEW n \in 1 .. Len(pieces)
      PROVE  Places[n] \in Nat /\ Places[n + 1] \in Nat
  BY <1>1, PieceFacts
<1>5. ASSUME NEW n \in S2 PROVE Ended(pieces, Places, F, n)
  <2>1. CASE n \in S
    <3>1. Ended(pieces, Places, fed, n) /\ n \in 1 .. Len(pieces)
      BY <2>1 DEF Counted
    <3>2. Places[n + 1] \in Nat /\ Places[n + 1] - 1 <= fed
      BY <1>4, <3>1 DEF Ended
    <3>3. Places[n + 1] - 1 <= F
      BY <1>1, <3>2
    <3> HIDE DEF F
    <3>4. QED
      BY <3>1, <3>3 DEF Ended
  <2>2. QED
    BY <1>2, <2>1
<1>6. ASSUME ~ (split \/ CutsKey(A, F)),
             NEW n \in 1 .. Len(pieces), Keyed(pieces[n]), Places[n] < Q
      PROVE  n \in S2
  <2>1. ~ split /\ ~ CutsKey(A, F)
    BY <1>6
  <2>2. Places[n] <= F /\ Places[n] \in Nat
    <3> DEFINE b == Places[n]
    <3>1. b \in Nat /\ b < Q
      BY <1>4, <1>6
    <3> HIDE DEF b, F
    <3>2. b <= F
      BY <1>1, <1>3, <3>1
    <3>3. QED
      BY <3>1, <3>2 DEF b
  <2> HIDE DEF F, A
  <2>3. Seen(pieces, Places, F, n)
    BY <1>1, <1>6, <2>1, <2>2, WholeKeySeen
  <2>4. CASE Places[n] < P
    <3>1. n \in S
      BY <1>6, <2>1, <2>4 DEF Counted
    <3>2. QED
      BY <1>2, <3>1
  <2>5. CASE P <= Places[n]
    BY <1>2, <1>6, <2>2, <2>3, <2>5
  <2>6. QED
    BY <2>2, <2>4, <2>5
<1>7. QED
  BY <1>2, <1>5, <1>6 DEF F
LEMMA ChunkIInv == IInv /\ Chunk => IInv'
<1> SUFFICES ASSUME IInv, Chunk PROVE IInv'
  OBVIOUS
<1>1. BufInv /\ ScanInv
  BY DEF IInv
<1>2. Len(Answer) \in Nat /\ fed \in 0 .. Len(Answer)
  <2>1. Answer \in Seq(Bytes)
    BY <1>1 DEF BufInv, Kept, Laid
  <2>2. QED
    BY <1>1, <2>1 DEF BufInv
<1>3. PICK size \in 1 .. Min({MaxChunk, Len(Answer) - fed}) :
          /\ Feed(size)
          /\ fed' = fed + size
          /\ split' = (split \/ CutsKey(Answer, fed + size))
  BY DEF Chunk
<1>4. pieces' = pieces /\ provider' = provider
  BY DEF Chunk
<1>5. size \in Nat /\ 1 <= size /\ size <= MaxChunk /\ fed + size <= Len(Answer)
  <2> DEFINE r == Len(Answer) - fed
             X == {MaxChunk, r}
  <2>1. r \in Nat /\ MaxChunk \in Nat
    BY <1>2, CapIsLarge
  <2>2. X \in SUBSET Nat /\ X # {} /\ MaxChunk \in X /\ r \in X
    BY <2>1
  <2>3. size \in 1 .. Min(X)
    OBVIOUS
  <2> HIDE DEF X
  <2>4. Min(X) \in X /\ \A y \in X : Min(X) <= y
    BY <2>2, MinOfNaturals
  <2>5. Min(X) \in Nat /\ Min(X) <= MaxChunk /\ Min(X) <= r
    BY <2>2, <2>4
  <2> DEFINE m == Min(X)
  <2>6. size \in 1 .. m /\ m \in Nat /\ m <= MaxChunk /\ m <= r
    BY <2>3, <2>5
  <2> HIDE DEF m
  <2>7. size \in Nat /\ 1 <= size /\ size <= MaxChunk /\ size <= r
    BY <2>1, <2>6
  <2>8. QED
    BY <1>2, <2>7
<1> DEFINE F == fed + size
           t == Extended(buf, Answer, fed, size)
           kept == Shortened(t)
           d == Dropped(t)
           scan == Scan(kept, Rebased(pos, d), usage)
<1>6. buf' = kept /\ pos' = scan.pos /\ usage' = scan.usage
  BY <1>3 DEF Feed, Extended, Shortened
<1> HIDE DEF t, kept, scan
<1>7. PICK drop \in Nat :
         /\ d = drop
         /\ Kept(pieces, Answer, Places, kept, Off + drop, fed + size)
         /\ Len(kept) <= Cap
         /\ Len(kept) < fed + size => Len(kept) = Cap
         /\ drop = 0 => Off = 0
         /\ drop > 0 => Off + drop + 9 <= fed
  BY <1>1, <1>5, FedBytes DEF kept, t
<1>8. PICK S \in SUBSET (1 .. Len(pieces)) : Counted(S, Off + pos, fed)
  BY <1>1 DEF ScanInv
<1> DEFINE P == Off + pos
           Q == (Off + drop) + scan.pos
           c == scan.usage
<1>9. scan = Scan(kept, Rebased(pos, drop), usage)
  BY <1>7 DEF scan
<1>10. usage = Most(pieces, provider, S)
  BY <1>8 DEF Counted
<1>11. /\ scan.pos \in Int
       /\ Outcome(pieces, provider, Places, fed + size, P, S, Q, c)
  BY <1>1, <1>5, <1>7, <1>9, <1>10, FedScan
<1>12. /\ Rebased(pos, drop) \in 1 .. Len(kept) + 1
       /\ (Off + drop) + Rebased(pos, drop) = P
  BY <1>1, <1>5, <1>7, FedPlace
<1>13. /\ Off \in Nat /\ Off + drop \in Nat /\ kept \in Seq(Bytes)
       /\ Len(kept) = F - (Off + drop) /\ Off + drop <= F /\ F \in Nat
  BY <1>1, <1>7 DEF BufInv, Kept
<1>14. Answer' = Answer /\ Places' = Places
  BY <1>4 DEF Answer, Places
<1>15. fed' = F /\ Off' = Off + drop
  <2>1. Off' = fed' - Len(buf')
    BY DEF Off
  <2> DEFINE o == Off + drop
             l == Len(kept)
  <2>2. Off' = F - l /\ l = F - o /\ o \in Nat /\ F \in Nat
    BY <1>3, <1>6, <1>13, <2>1
  <2> HIDE DEF o, l, F
  <2>3. Off' = o
    BY <2>2
  <2>4. QED
    BY <1>3, <2>3 DEF o, F
<1>16. BufInv'
  <2>1. fed' \in 0 .. Len(Answer')
    BY <1>2, <1>5, <1>13, <1>14, <1>15
  <2>2. split' \in BOOLEAN
    <3>1. split \in BOOLEAN
      BY <1>1 DEF BufInv
    <3>2. QED
      BY <1>3, <3>1
  <2>3. Len(kept) \in Nat /\ Len(kept) <= F
    <3> DEFINE l == Len(kept)
               o == Off + drop
    <3>1. l = F - o /\ o \in Nat /\ o <= F /\ F \in Nat
      BY <1>13
    <3> HIDE DEF l, o, F
    <3>2. l \in Nat /\ l <= F
      BY <3>1
    <3>3. QED
      BY <3>2 DEF l
  <2>4. Len(kept) <= Cap /\ (Len(kept) < F => Len(kept) = Cap)
    BY <1>7
  <2>5. Kept(pieces', Answer', Places', buf', Off', fed')
    BY <1>4, <1>6, <1>7, <1>14, <1>15
  <2>6. /\ provider' \in DOMAIN Reports
        /\ \A n \in 1 .. Len(pieces') : pieces'[n] \in Reports[provider'] \cup Others
    BY <1>1, <1>4 DEF BufInv
  <2> HIDE DEF F
  <2>7. QED
    BY <1>6, <1>15, <2>1, <2>2, <2>3, <2>4, <2>5, <2>6 DEF BufInv
<1>17. Q = Off' + pos'
  BY <1>6, <1>15
<1>18. pos' \in 1 .. Len(buf') + 1
  <2>1. P <= Q /\ Q <= F + 1
    BY <1>11 DEF Outcome
  <2> DEFINE o == Off + drop
             l == Len(kept)
             i == Rebased(pos, drop)
             x == scan.pos
  <2>2. /\ x \in Int /\ o + i <= o + x /\ o + x <= F + 1
        /\ i \in 1 .. l + 1 /\ l = F - o /\ o \in Nat /\ o <= F /\ F \in Nat
    BY <1>11, <1>12, <1>13, <2>1
  <2> HIDE DEF o, l, i, x, F
  <2>3. x \in 1 .. l + 1
    BY <2>2
  <2>4. QED
    BY <1>6, <2>3 DEF x, l
<1>19. AtRest(Off + pos, fed)'
  <2> HIDE DEF P, Q, F, c
  <2>1. AtRest(Q, F)
    BY <1>11, ScannedRests DEF F
  <2>2. QED
    BY <1>4, <1>14, <1>15, <1>17, <2>1 DEF AtRest
<1>20. \E S2 \in SUBSET (1 .. Len(pieces)) : Counted(S2, Off + pos, fed)'
  <2>1. P \in Int /\ Q \in Int
    <3>1. pos \in Int
      <4>1. Len(buf) \in Nat /\ pos \in 1 .. Len(buf) + 1
        BY <1>1 DEF BufInv, ScanInv
      <4>2. QED
        BY <4>1
    <3>2. QED
      BY <1>11, <1>13, <3>1
  <2>2. Counted(S, P, fed)
    BY <1>8
  <2> HIDE DEF P, Q, c
  <2>3. PICK S2 \in SUBSET (1 .. Len(pieces)) :
              /\ c = Most(pieces, provider, S2)
              /\ \A n \in S2 : Ended(pieces, Places, fed + size, n)
              /\ ~ split' => \A n \in 1 .. Len(pieces) :
                               Keyed(pieces[n]) /\ Places[n] < Q => n \in S2
    <3>1. PICK S2 \in SUBSET (1 .. Len(pieces)) :
              /\ c = Most(pieces, provider, S2)
              /\ \A n \in S2 : Ended(pieces, Places, fed + size, n)
              /\ ~ (split \/ CutsKey(Answer, fed + size)) =>
                    \A n \in 1 .. Len(pieces) :
                        Keyed(pieces[n]) /\ Places[n] < Q => n \in S2
      BY <1>1, <1>5, <1>11, <2>1, <2>2, ScannedCounts
    <3>2. QED
      BY <1>3, <3>1
  <2>4. usage' = Most(pieces', provider', S2)
    BY <1>4, <1>6, <2>3 DEF c
  <2>5. /\ \A n \in S2 : Ended(pieces', Places', fed', n)
        /\ ~ split' => \A n \in 1 .. Len(pieces') :
                          Keyed(pieces'[n])
                          /\ Places'[n] < Off' + pos' => n \in S2
    BY <1>4, <1>14, <1>15, <1>17, <2>3
  <2>6. Counted(S2, Off + pos, fed)'
    BY <2>4, <2>5 DEF Counted
  <2>7. QED
    BY <2>6
<1>21. ScanInv'
  BY <1>4, <1>18, <1>19, <1>20 DEF ScanInv
<1>22. QED
  BY <1>16, <1>21 DEF IInv

\* The scanner's invariant, from which the theorems follow.
LEMMA StepIInv == IInv /\ [Next]_vars => IInv'
<1> SUFFICES ASSUME IInv, [Next]_vars PROVE IInv'
  OBVIOUS
<1>1. CASE Chunk
  BY <1>1, ChunkIInv
<1>2. CASE UNCHANGED vars
  BY <1>2 DEF vars, IInv, BufInv, ScanInv, AtRest, Counted, Off, Places, Answer
<1>3. QED
  BY <1>1, <1>2 DEF Next, Over

(* Whatever the answer and its chunks: the buffer holds the last bytes that *)
(* arrived, the scanner rests behind the last byte, just before it or at   *)
(* the key of a piece that has not ended, and what it counted are pieces   *)
(* that ended, all of them unless a key was split (stats.go:244-302).      *)
THEOREM UsageInvariant == Spec => []IInv
<1>1. QED
  BY InitIInv, StepIInv, PTL DEF Spec

-----------------------------------------------------------------------------
(* What has arrived, and what it reports.                                  *)

LEMMA ArrivedIs ==
    ASSUME BufInv
    PROVE  /\ Arrived \in 0 .. Len(pieces)
           /\ \A n \in 1 .. Len(pieces) : n <= Arrived <=> Ended(pieces, Places, fed, n)
<1> DEFINE N == Len(pieces)
           Length(n) == Len(FlattenSeq(SubSeq(pieces, 1, n)))
           X == {n \in 0 .. N : Length(n) <= fed}
<1>1. Laid(pieces, Answer, Places) /\ N \in Nat /\ fed \in Nat
  BY DEF BufInv, Kept, Laid
<1>2. Places \in [1 .. N + 1 -> Nat \ {0}] /\ Places[1] = 1
  BY <1>1 DEF Laid
<1>3. ASSUME NEW n \in 0 .. N
      PROVE  n \in X <=> Places[n + 1] - 1 <= fed
  <2>1. n + 1 \in 1 .. N + 1 /\ (n + 1) - 1 = n
    BY <1>1
  <2>2. Places[n + 1] = Length((n + 1) - 1) + 1
    BY <2>1 DEF Places, Begins
  <2>3. Length((n + 1) - 1) = Length(n)
    BY <2>1
  <2>4. Length(n) \in Int
    <3>1. \A i \in 1 .. N : pieces[i] \in Pieces
      BY DEF BufInv, Kept
    <3>2. SubSeq(pieces, 1, n) \in Seq(Seq(Bytes))
      BY <1>1 DEF Laid
    <3> DEFINE ps == SubSeq(pieces, 1, n)
    <3> HIDE DEF ps
    <3>3. Laid(ps, FlattenSeq(ps), Begins(ps))
      BY <3>2, AnswerIsLaid DEF ps
    <3>4. FlattenSeq(ps) \in Seq(Bytes)
      BY <3>3 DEF Laid
    <3>5. Len(FlattenSeq(ps)) \in Int
      BY <3>4
    <3>6. QED
      BY <3>5 DEF ps
  <2> DEFINE l == Length(n)
             b == Places[n + 1]
  <2>5. b = l + 1 /\ l \in Int
    BY <2>2, <2>3, <2>4
  <2>6. n \in X <=> l <= fed
    OBVIOUS
  <2> HIDE DEF l, b, X
  <2>7. QED
    BY <1>1, <2>5, <2>6 DEF b
<1> HIDE DEF X
<1>4. X \in SUBSET (0 .. N) /\ X # {}
  <2>1. 0 \in 0 .. N /\ 0 + 1 = 1
    BY <1>1
  <2>2. 0 \in X
    <3>1. Places[0 + 1] - 1 = 0
      BY <1>2, <2>1
    <3>2. QED
      BY <1>1, <1>3, <2>1, <3>1
  <2>3. QED
    BY <2>2 DEF X
<1>5. Arrived = Max(X)
  BY DEF Arrived, X
<1>6. Arrived \in X /\ \A n \in X : n <= Arrived
  BY <1>1, <1>4, <1>5, MaxOfNaturals
<1>7. Arrived \in 0 .. N
  BY <1>4, <1>6
<1> DEFINE M == Arrived
<1> HIDE DEF N
<1>8. ASSUME NEW n \in 1 .. N PROVE n <= M <=> Places[n + 1] - 1 <= fed
  <2>1. n \in 0 .. N /\ n + 1 \in 1 .. N + 1 /\ M + 1 \in 1 .. N + 1
        /\ M \in 0 .. N
    BY <1>1, <1>7
  <2>2. Places[M + 1] - 1 <= fed
    BY <1>3, <1>6, <2>1
  <2>3. CASE n <= M
    <3> DEFINE i == n + 1
               k == M + 1
    <3>1. i \in 1 .. N + 1 /\ k \in 1 .. N + 1 /\ i <= k
      BY <2>1, <2>3
    <3> HIDE DEF i, k
    <3>2. Places[i] <= Places[k]
      BY <1>1, <3>1, BeginsGrow DEF N
    <3>3. Places[i] \in Nat /\ Places[k] \in Nat
      BY <1>2, <3>1
    <3>4. Places[k] - 1 <= fed
      BY <2>2 DEF k
    <3>5. Places[i] - 1 <= fed
      BY <1>1, <3>2, <3>3, <3>4
    <3>6. QED
      BY <2>3, <3>5 DEF i
  <2>4. CASE Places[n + 1] - 1 <= fed
    BY <1>3, <1>6, <2>1, <2>4
  <2>5. QED
    BY <2>3, <2>4
<1>9. QED
  BY <1>7, <1>8 DEF N, Ended

LEMMA ReportedIsMost ==
    ASSUME NEW n PROVE Reported(n) = Most(pieces, provider, 1 .. n)
<1> DEFINE reports == {i \in 1 .. n : pieces[i] \in Reports[provider]}
           fields == {f \in DOMAIN Field : \E i \in reports : Contains(pieces[i], f)}
<1>1. fields = Found(pieces, provider, 1 .. n)
  BY DEF Found
<1>2. Reported(n) = [kind \in Kinds |-> Max({0} \cup {Field[f][kind] : f \in fields})]
  BY DEF Reported
<1>3. QED
  BY <1>1, <1>2 DEF Most, Values

\* A report that has arrived begins before the place the scanner rests at.
LEMMA ReportIsBehind ==
    ASSUME BufInv, NEW Q, AtRest(Q, fed), NEW n \in 1 .. Len(pieces),
           pieces[n] \in Reports[provider], Ended(pieces, Places, fed, n)
    PROVE  Keyed(pieces[n]) /\ Places[n] < Q
<1> DEFINE b == Places[n]
           e == Places[n + 1]
           l == Len(pieces[n])
<1>1. /\ Laid(pieces, Answer, Places)
      /\ \A m \in 1 .. Len(pieces) : pieces[m] \in Pieces
      /\ fed \in Nat /\ provider \in DOMAIN Reports
  BY DEF BufInv, Kept
<1>2. Keyed(pieces[n])
  BY <1>1, ReportParses
<1>3. b \in Nat /\ l \in 1 .. 10 /\ e = b + l /\ Shape(pieces[n])
  BY <1>1, PieceFacts
<1>4. 4 <= l
  <2>1. Value(pieces[n]) <= l
    BY <1>2, <1>3 DEF Shape, KeyShape
  <2>2. Value(pieces[n]) = 4 \/ Value(pieces[n]) = 5
    BY DEF Value, KeyLen
  <2> DEFINE v == Value(pieces[n])
  <2>3. v <= l /\ (v = 4 \/ v = 5) /\ l \in Int
    BY <1>3, <2>1, <2>2
  <2> HIDE DEF v, l
  <2>4. QED
    BY <2>3
<1>5. e - 1 <= fed
  BY DEF Ended
<1> HIDE DEF b, e, l
<1>6. CASE Q = fed + 1 \/ Q = fed - 1
  <2>1. b < Q
    BY <1>1, <1>3, <1>4, <1>5, <1>6
  <2>2. QED
    BY <1>2, <2>1 DEF b
<1>7. ASSUME NEW m \in 1 .. Len(pieces), ~ Ended(pieces, Places, fed, m),
             Q = Places[m]
      PROVE  b < Q
  <2>1. Places[m] \in Nat /\ Places[m + 1] \in Nat
        /\ ~ (Places[m + 1] - 1 <= fed)
    <3>1. Places[m] \in Nat /\ Places[m + 1] \in Nat
      BY <1>1, PieceFacts
    <3>2. QED
      BY <1>7, <3>1 DEF Ended
  <2>2. n # m
    BY <1>7
  <2> SUFFICES ASSUME Places[m] <= Places[n] PROVE FALSE
    BY <1>3, <1>7, <2>1 DEF b
  <2>3. Places[m + 1] <= b
    BY <1>1, <2>2, BeginsBehind DEF b
  <2>4. QED
    BY <1>1, <1>3, <1>5, <2>1, <2>3
<1>8. QED
  BY <1>2, <1>6, <1>7 DEF AtRest, b

\* The last bytes of a sequence are a suffix of it.
LEMMA LastIsSuffix ==
    ASSUME NEW s \in Seq(Bytes), NEW t \in Seq(Bytes), Len(s) <= Len(t),
           \A i \in 1 .. Len(s) : s[i] = t[(Len(t) - Len(s)) + i]
    PROVE  IsSuffix(s, t)
<1> DEFINE k == Len(s)
           n == Len(t)
           r == Reverse(s)
           q == Reverse(t)
<1>1. k \in Nat /\ n \in Nat /\ k <= n
  OBVIOUS
<1>2. /\ r \in Seq(Bytes) /\ Len(r) = k
      /\ \A i \in 1 .. k : r[i] = s[(k - i) + 1]
  <2>1. r = [i \in 1 .. k |-> s[(k - i) + 1]]
    BY DEF Reverse
  <2>2. \A i \in 1 .. k : (k - i) + 1 \in 1 .. k
    OBVIOUS
  <2>3. \A i \in 1 .. k : s[(k - i) + 1] \in Bytes
    BY <2>2
  <2> HIDE DEF r, k
  <2>4. QED
    BY <1>1, <2>1, <2>3
<1>3. /\ q \in Seq(Bytes) /\ Len(q) = n
      /\ \A i \in 1 .. n : q[i] = t[(n - i) + 1]
  <2>1. q = [i \in 1 .. n |-> t[(n - i) + 1]]
    BY DEF Reverse
  <2>2. \A i \in 1 .. n : (n - i) + 1 \in 1 .. n
    OBVIOUS
  <2>3. \A i \in 1 .. n : t[(n - i) + 1] \in Bytes
    BY <2>2
  <2> HIDE DEF q, n
  <2>4. QED
    BY <1>1, <2>1, <2>3
<1>4. \A j \in 1 .. k : s[j] = t[(n - k) + j]
  OBVIOUS
<1> HIDE DEF k, n, r, q
<1>5. \A i \in 1 .. k : r[i] = q[i]
  <2> SUFFICES ASSUME NEW i \in 1 .. k PROVE r[i] = q[i]
    OBVIOUS
  <2> DEFINE j == (k - i) + 1
  <2>1. j \in 1 .. k /\ i \in 1 .. n /\ (n - k) + j = (n - i) + 1
    BY <1>1
  <2>2. r[i] = s[j] /\ q[i] = t[(n - i) + 1]
    BY <1>2, <1>3, <2>1
  <2> HIDE DEF j
  <2>3. s[j] = t[(n - k) + j]
    BY <1>4, <2>1
  <2>4. QED
    BY <2>1, <2>2, <2>3
<1>6. SubSeq(r, 1, k) = SubSeq(q, 1, k)
  <2> DEFINE x == SubSeq(r, 1, k)
             y == SubSeq(q, 1, k)
  <2>1. x \in Seq(Bytes) /\ Len(x) = k /\ \A i \in 1 .. k : x[i] = r[i]
    BY <1>1, <1>2
  <2>2. y \in Seq(Bytes) /\ Len(y) = k /\ \A i \in 1 .. k : y[i] = q[i]
    BY <1>1, <1>3
  <2> HIDE DEF x, y
  <2>3. \A i \in 1 .. Len(x) : x[i] = y[i]
    BY <1>5, <2>1, <2>2
  <2>4. x = y
    BY <2>1, <2>2, <2>3, SeqEqual
  <2>5. QED
    BY <2>4 DEF x, y
<1>7. IsPrefix(r, q)
  BY <1>1, <1>2, <1>3, <1>6 DEF IsPrefix
<1>8. QED
  BY <1>7 DEF IsSuffix, r, q

-----------------------------------------------------------------------------
(* Every variable stays within its type, and the scanner's position within *)
(* its buffer, which holds the last bytes that arrived and no more than    *)
(* its limit, whatever the answer and however it is cut (stats.go:246-260). *)
THEOREM UsageTypeOK == Spec => []TypeOK
<1>1. ASSUME IInv PROVE TypeOK
  <2>1. BufInv /\ ScanInv
    BY <1>1 DEF IInv
  <2>2. fed \in 0 .. Len(Answer) /\ split \in BOOLEAN /\ Len(buf) <= Cap
        /\ pos \in 1 .. Len(buf) + 1
    BY <2>1 DEF BufInv, ScanInv
  <2>3. usage \in [Kinds -> 0 .. 2]
    BY <2>1, MostType DEF ScanInv, Counted
  <2> DEFINE A == Answer
             t == SubSeq(A, 1, fed)
             off == Off
             l == Len(buf)
  <2>4. /\ A \in Seq(Bytes) /\ fed \in Nat /\ fed <= Len(A) /\ off \in Nat
        /\ buf \in Seq(Bytes) /\ l = fed - off /\ off <= fed
        /\ \A i \in 1 .. fed - off : buf[i] = A[off + i]
    BY <2>1 DEF BufInv, Kept, Laid
  <2> HIDE DEF A, off
  <2>5. t \in Seq(Bytes) /\ Len(t) = fed /\ \A i \in 1 .. fed : t[i] = A[i]
    BY <2>4
  <2> HIDE DEF t
  <2>6. ASSUME NEW i \in 1 .. l PROVE buf[i] = t[(Len(t) - l) + i]
    <3> HIDE DEF l
    <3>1. i \in 1 .. fed - off /\ off + i \in 1 .. fed
      BY <2>4
    <3>2. buf[i] = A[off + i] /\ t[off + i] = A[off + i]
      BY <2>4, <2>5, <3>1
    <3>3. (Len(t) - l) + i = off + i
      BY <2>4, <2>5
    <3>4. QED
      BY <3>2, <3>3
  <2>7. l <= Len(t)
    BY <2>4, <2>5
  <2>8. IsSuffix(buf, t)
    BY <2>4, <2>5, <2>6, <2>7, LastIsSuffix
  <2>9. QED
    BY <2>2, <2>3, <2>8 DEF TypeOK, t, A
<1>2. IInv => TypeOK
  BY <1>1
<1>3. QED
  BY <1>2, UsageInvariant, PTL

(* No chunking makes the scanner count what the answer does not report, or *)
(* before it has arrived: neither text that quotes a usage object, nor an  *)
(* object that does not parse, nor the rest of one whose beginning was     *)
(* dropped (stats.go:246-302).                                             *)
THEOREM UsageNeverOvercounts == Spec => []NeverOvercounts
<1>1. ASSUME IInv, NEW kind \in Kinds
      PROVE  usage[kind] <= Reported(Arrived)[kind]
  <2>1. BufInv
    BY <1>1 DEF IInv
  <2>2. PICK S \in SUBSET (1 .. Len(pieces)) : Counted(S, Off + pos, fed)
    BY <1>1 DEF IInv, ScanInv
  <2>3. S \subseteq 1 .. Arrived
    <3> SUFFICES ASSUME NEW n \in S PROVE n \in 1 .. Arrived
      OBVIOUS
    <3>1. n \in 1 .. Len(pieces) /\ Ended(pieces, Places, fed, n)
      BY <2>2 DEF Counted
    <3>2. n <= Arrived /\ Arrived \in Int
      BY <2>1, <3>1, ArrivedIs
    <3>3. QED
      BY <3>1, <3>2
  <2>4. usage = Most(pieces, provider, S)
    BY <2>2 DEF Counted
  <2>5. QED
    BY <2>3, <2>4, MostGrows, ReportedIsMost
<1>2. IInv => NeverOvercounts
  BY <1>1 DEF NeverOvercounts
<1>3. QED
  BY <1>2, UsageInvariant, PTL

\* As long as no key was split, what is counted is what was reported.
LEMMA WholeKeysCounted == IInv => WholeKeysAreCounted
<1> SUFFICES ASSUME IInv, ~ split PROVE usage = Reported(Arrived)
  BY DEF WholeKeysAreCounted
<1>1. BufInv /\ AtRest(Off + pos, fed)
  BY DEF IInv, ScanInv
<1>2. PICK S \in SUBSET (1 .. Len(pieces)) : Counted(S, Off + pos, fed)
  BY DEF IInv, ScanInv
<1> DEFINE Q == Off + pos
           T == 1 .. Arrived
<1>3. Arrived \in 0 .. Len(pieces) /\ Len(pieces) \in Nat
  BY <1>1, ArrivedIs DEF BufInv, Kept, Laid
<1> HIDE DEF Q
<1>4. ASSUME NEW n \in T \ S PROVE pieces[n] \notin Reports[provider]
  <2>1. n \in 1 .. Len(pieces) /\ n <= Arrived
    BY <1>3
  <2>2. Ended(pieces, Places, fed, n)
    BY <1>1, <2>1, ArrivedIs
  <2> SUFFICES ASSUME pieces[n] \in Reports[provider] PROVE FALSE
    OBVIOUS
  <2>3. AtRest(Q, fed)
    BY <1>1 DEF Q
  <2>4. Keyed(pieces[n]) /\ Places[n] < Q
    BY <1>1, <2>1, <2>2, <2>3, ReportIsBehind
  <2>5. n \in S
    BY <1>2, <2>1, <2>4 DEF Counted, Q
  <2>6. QED
    BY <2>5
<1>5. ASSUME NEW n \in S \ T PROVE pieces[n] \notin Reports[provider]
  <2>1. n \in 1 .. Len(pieces) /\ Ended(pieces, Places, fed, n)
    BY <1>2 DEF Counted
  <2>2. n <= Arrived
    BY <1>1, <2>1, ArrivedIs
  <2>3. n \in T
    BY <1>3, <2>1, <2>2
  <2>4. QED
    BY <2>3
<1>6. usage = Most(pieces, provider, S)
  BY <1>2 DEF Counted
<1> HIDE DEF T
<1>7. Most(pieces, provider, S) = Most(pieces, provider, T)
  BY <1>4, <1>5, MostOfReports
<1>8. QED
  BY <1>6, <1>7, ReportedIsMost DEF T

(* As long as no chunk ends within a key, every report that has arrived is *)
(* counted, however its object is cut into chunks and whatever was dropped *)
(* in between: with the buffer larger than an object and a chunk, no byte  *)
(* the scanner still waits at is dropped (stats.go:246-302).               *)
THEOREM UsageWholeKeysAreCounted == Spec => []WholeKeysAreCounted
BY WholeKeysCounted, UsageInvariant, PTL

-----------------------------------------------------------------------------
(* What is charged for it.                                                 *)

LEMMA MostBounds ==
    ASSUME NEW fields \in SUBSET (DOMAIN Field), NEW kind \in Kinds
    PROVE  /\ Max({0} \cup Values(fields, kind)) \in 0 .. 2
           /\ \A f \in fields :
                 Field[f][kind] <= Max({0} \cup Values(fields, kind))
           /\ \/ Max({0} \cup Values(fields, kind)) = 0
              \/ \E f \in fields :
                    Max({0} \cup Values(fields, kind)) = Field[f][kind]
<1> DEFINE S == {0} \cup Values(fields, kind)
           m == Max(S)
<1>1. S \in SUBSET (0 .. 2) /\ S # {} /\ 2 \in Nat
  BY ValuesBounded
<1> HIDE DEF S
<1>2. m \in S /\ \A y \in S : y <= m
  BY <1>1, MaxOfNaturals
<1>3. m \in 0 .. 2
  BY <1>1, <1>2
<1>4. QED
  BY <1>2, <1>3 DEF S, Values

\* What the fields of a provider's reports count.
LEMMA FieldKinds ==
    /\ Field["in1"][1] = 1 /\ Field["in2"][1] = 2
    /\ Field["in1"][3] = 0 /\ Field["in2"][3] = 0 /\ Field["out1"][3] = 0
    /\ Field["out2"][3] = 0 /\ Field["hit1"][3] = 1
    /\ Field["in1"][4] = 0 /\ Field["in2"][4] = 0 /\ Field["out1"][4] = 0
    /\ Field["out2"][4] = 0 /\ Field["hit1"][4] = 0
    /\ Field["in1"][5] = 0 /\ Field["in2"][5] = 0 /\ Field["out1"][5] = 0
    /\ Field["out2"][5] = 0 /\ Field["hit1"][5] = 0
    /\ Field["read2"][5] = 1 /\ Field["made1"][5] = 1
BY DEF Field

\* The fields of a report, of each provider.
LEMMA ReportFields ==
    ASSUME NEW f \in DOMAIN Field
    PROVE  /\ \A p \in Reports["openai"] : Contains(p, f) =>
                 \/ f = "in1" \/ f = "out1"
                 \/ (f = "in2" \/ f = "hit1") /\ Contains(p, "in2")
           /\ \A p \in Reports["anthropic"] : Contains(p, f) =>
                 f = "out2" \/ Contains(p, "read2")
           /\ \A p \in Reports["gemini"] : Contains(p, f) => f = "in1" \/ f = "out2"
<1>1. f \in {"in1", "in2", "out1", "out2", "hit1", "read2", "made1"}
  BY FieldValues
<1>2. ASSUME NEW p, p = Nested
      PROVE  /\ Contains(p, "in2")
             /\ Contains(p, f) => f = "in2" \/ f = "hit1" \/ f = "out1"
  BY <1>1, <1>2 DEF Nested, Contains
<1>3. ASSUME NEW p, p = <<"quote", "usage", ":", "open", "in1", "close">>
      PROVE  Contains(p, f) => f = "in1"
  BY <1>1, <1>3 DEF Contains
<1>4. ASSUME NEW p,
             p = <<"quote", "usage", ":", "open", "in1", "read2", "made1", "close">>
      PROVE  Contains(p, "read2")
  <2>1. Len(p) = 8 /\ p[6] = "read2"
    BY <1>4
  <2>2. 6 \in 1 .. 8
    OBVIOUS
  <2>3. QED
    BY <2>1, <2>2 DEF Contains
<1>5. ASSUME NEW p, p = <<"quote", "usage", ":", "open", "out2", "close">>
      PROVE  Contains(p, f) => f = "out2"
  BY <1>1, <1>5 DEF Contains
<1>6. ASSUME NEW p,
             p = <<"quote", "usageM", "etadata", ":", "open", "in1", "out2", "close">>
      PROVE  Contains(p, f) => f = "in1" \/ f = "out2"
  BY <1>1, <1>6 DEF Contains
<1>7. /\ \A p \in Reports["openai"] :
             p = Nested \/ p = <<"quote", "usage", ":", "open", "in1", "close">>
      /\ \A p \in Reports["anthropic"] :
            \/ p = <<"quote", "usage", ":", "open", "in1", "read2",
                     "made1", "close">>
            \/ p = <<"quote", "usage", ":", "open", "out2", "close">>
      /\ \A p \in Reports["gemini"] :
             p = <<"quote", "usageM", "etadata", ":", "open", "in1", "out2", "close">>
  BY DEF Reports, Nested
<1>8. QED
  BY <1>2, <1>3, <1>4, <1>5, <1>6, <1>7

\* A provider that says that cached tokens are not part of the input is the
\* one that leaves them out, and what the others say are cached are input.
LEMMA ReportedKinds ==
    ASSUME NEW ps, NEW pr \in DOMAIN Reports, NEW S, NEW c, c = Most(ps, pr, S)
    PROVE  /\ c[1] \in 0 .. 2 /\ c[2] \in 0 .. 2 /\ c[3] \in 0 .. 2
           /\ c[4] \in 0 .. 2 /\ c[5] \in 0 .. 2
           /\ pr = "anthropic" => c[5] = 1 \/ (c[3] = 0 /\ c[4] = 0 /\ c[5] = 0)
           /\ pr # "anthropic" => c[5] = 0 /\ c[4] = 0 /\ c[3] <= c[1]
<1> DEFINE F == Found(ps, pr, S)
<1>1. F \in SUBSET (DOMAIN Field)
  BY DEF Found
<1>2. 1 \in Kinds /\ 2 \in Kinds /\ 3 \in Kinds /\ 4 \in Kinds /\ 5 \in Kinds
  BY DEF Kinds
<1>3. \A f \in F : \E i \in S : ps[i] \in Reports[pr] /\ Contains(ps[i], f)
  BY DEF Found
<1>4. \A f \in DOMAIN Field, i \in S :
          ps[i] \in Reports[pr] /\ Contains(ps[i], f) => f \in F
  BY DEF Found
<1>5. ASSUME NEW kind \in Kinds
      PROVE  c[kind] = Max({0} \cup Values(F, kind))
  BY DEF Most
<1> HIDE DEF F
<1>6. ASSUME NEW kind \in Kinds
      PROVE  /\ c[kind] \in 0 .. 2
             /\ \A f \in F : Field[f][kind] <= c[kind]
             /\ c[kind] = 0 \/ \E f \in F : c[kind] = Field[f][kind]
  BY <1>1, <1>5, MostBounds
<1>7. /\ c[1] \in 0 .. 2 /\ c[2] \in 0 .. 2 /\ c[3] \in 0 .. 2
      /\ c[4] \in 0 .. 2 /\ c[5] \in 0 .. 2
  BY <1>2, <1>6
<1>8. DOMAIN Field = {"in1", "in2", "out1", "out2", "hit1", "read2", "made1"}
  BY FieldValues
<1>9. CASE pr = "anthropic"
  <2>1. CASE "read2" \in F
    <3>1. 1 <= c[5]
      BY <1>2, <1>6, <2>1, FieldKinds
    <3>2. \A f \in F : Field[f][5] = 0 \/ Field[f][5] = 1
      BY <1>1, <1>8, FieldKinds
    <3>3. c[5] = 0 \/ c[5] = 1
      BY <1>2, <1>6, <3>2
    <3>4. c[5] = 1
      BY <3>1, <3>3
    <3>5. QED
      BY <1>7, <1>9, <3>4
  <2>2. CASE "read2" \notin F
    <3>1. ASSUME NEW f \in F PROVE f = "out2"
      <4>1. PICK i \in S : ps[i] \in Reports["anthropic"] /\ Contains(ps[i], f)
        BY <1>3, <1>9
      <4>2. "read2" \in DOMAIN Field /\ f \in DOMAIN Field
        BY <1>1, <1>8
      <4>3. ~ Contains(ps[i], "read2")
        BY <1>4, <1>9, <2>2, <4>1, <4>2
      <4>4. QED
        BY <4>1, <4>2, <4>3, ReportFields
    <3>2. c[3] = 0 /\ c[4] = 0 /\ c[5] = 0
      BY <1>2, <1>6, <3>1, FieldKinds
    <3>3. QED
      BY <1>7, <1>9, <3>2
  <2>3. QED
    BY <2>1, <2>2
<1>10. CASE pr = "gemini"
  <2>1. \A f \in F : f = "in1" \/ f = "out2"
    BY <1>1, <1>3, <1>10, ReportFields
  <2>2. c[3] = 0 /\ c[4] = 0 /\ c[5] = 0
    BY <1>2, <1>6, <2>1, FieldKinds
  <2>3. QED
    BY <1>7, <1>10, <2>2
<1>11. CASE pr = "openai"
  <2>1. ASSUME NEW f \in F
        PROVE  \/ f = "in1" \/ f = "out1"
               \/ (f = "in2" \/ f = "hit1") /\ "in2" \in F
    <3>1. PICK i \in S : ps[i] \in Reports["openai"] /\ Contains(ps[i], f)
      BY <1>3, <1>11
    <3>2. "in2" \in DOMAIN Field /\ f \in DOMAIN Field
      BY <1>1, <1>8
    <3>3. Contains(ps[i], "in2") => "in2" \in F
      BY <1>4, <1>11, <3>1, <3>2
    <3>4. QED
      BY <3>1, <3>2, <3>3, ReportFields
  <2>2. c[4] = 0 /\ c[5] = 0
    BY <1>2, <1>6, <2>1, FieldKinds
  <2>3. c[3] = 0 \/ 2 <= c[1]
    <3>1. c[3] = 0 \/ "in2" \in F
      BY <1>2, <1>6, <2>1, FieldKinds
    <3>2. "in2" \in F => 2 <= c[1]
      BY <1>2, <1>6, FieldKinds
    <3>3. QED
      BY <3>1, <3>2
  <2>4. c[3] <= c[1]
    BY <1>7, <2>3
  <2>5. QED
    BY <1>7, <1>11, <2>2, <2>4
<1>12. QED
  BY <1>9, <1>10, <1>11 DEF Reports

(* "So nothing is ever double-charged" (stats.go:465-469): as long as no   *)
(* more tokens are cached than there are, every token is priced once, at   *)
(* its own rate, whichever way the provider counts cached ones.            *)
THEOREM TokensPricedOnce ==
    ASSUME NEW rule \in Rules, NEW u \in Counts,
           u.excluded \/ u.read + u.write <= u.input
    PROVE  CostBy(rule, u) = DueBy(rule, u)
<1>1. /\ rule.input \in Nat /\ rule.output \in Nat
      /\ rule.read \in Nat /\ rule.write \in Nat
  BY DEF Rules
<1>2. /\ u.input \in Nat /\ u.output \in Nat
      /\ u.read \in Nat /\ u.write \in Nat /\ u.excluded \in BOOLEAN
  BY DEF Counts
<1>3. CASE u.excluded
  <2>1. Uncached(rule, u) = u.input
    BY <1>2, <1>3 DEF Uncached
  <2>2. Cached(rule, u)
          = u.read * Rate(rule, rule.read) + u.write * Rate(rule, rule.write)
    BY <1>3 DEF Cached
  <2>3. /\ Rate(rule, rule.read) \in Nat /\ Rate(rule, rule.write) \in Nat
        /\ u.input * rule.input \in Nat /\ u.output * rule.output \in Nat
    BY <1>1, <1>2 DEF Rate
  <2>4. /\ u.read * Rate(rule, rule.read) \in Nat
        /\ u.write * Rate(rule, rule.write) \in Nat
    BY <1>2, <2>3
  <2>5. QED
    BY <1>3, <2>1, <2>2, <2>3, <2>4 DEF CostBy, DueBy
<1>4. CASE ~u.excluded
  <2> DEFINE read == IF rule.read = 0 THEN 0 ELSE u.read
             write == IF rule.write = 0 THEN 0 ELSE u.write
             plain == u.input - u.read - u.write
  <2>1. read \in Nat /\ write \in Nat /\ plain \in Nat
    BY <1>2, <1>4
  <2>2. u.input - read - write \in Nat
    BY <1>2, <1>4
  <2>3. Uncached(rule, u) = u.input - read - write
    BY <1>4, <2>2 DEF Uncached
  <2>4. Uncached(rule, u) = plain + (u.read - read) + (u.write - write)
    BY <1>2, <2>1, <2>3
  <2>5. u.read - read \in Nat /\ u.write - write \in Nat
    BY <1>2
  <2>6. Uncached(rule, u) * rule.input
          = plain * rule.input + (u.read - read) * rule.input
                               + (u.write - write) * rule.input
    <3> HIDE DEF read, write, plain
    <3>1. \A a, b, c, r \in Nat : (a + b + c) * r = a * r + b * r + c * r
      OBVIOUS
    <3>2. QED
      BY <1>1, <2>1, <2>4, <2>5, <3>1
  <2>7. (u.read - read) * rule.input + u.read * rule.read
          = u.read * Rate(rule, rule.read)
    BY <1>1, <1>2 DEF Rate
  <2>8. (u.write - write) * rule.input + u.write * rule.write
          = u.write * Rate(rule, rule.write)
    BY <1>1, <1>2 DEF Rate
  <2> HIDE DEF read, write
  <2>9. \A a, b, c, d, e, f \in Int :
            (a + b + c) + d + (e + f) = a + d + (b + e) + (c + f)
    OBVIOUS
  <2>10. /\ plain * rule.input \in Int /\ u.output * rule.output \in Int
         /\ (u.read - read) * rule.input \in Int
         /\ (u.write - write) * rule.input \in Int
         /\ u.read * rule.read \in Int /\ u.write * rule.write \in Int
    BY <1>1, <1>2, <2>1, <2>5
  <2>11. CostBy(rule, u) = (plain * rule.input + (u.read - read) * rule.input
                                + (u.write - write) * rule.input)
                           + u.output * rule.output
                           + (u.read * rule.read + u.write * rule.write)
    BY <1>4, <2>6 DEF CostBy, Cached
  <2>12. DueBy(rule, u) = plain * rule.input + u.output * rule.output
                          + u.read * Rate(rule, rule.read)
                          + u.write * Rate(rule, rule.write)
    BY <1>4 DEF DueBy
  <2>13. QED
    BY <2>7, <2>8, <2>9, <2>10, <2>11, <2>12
<1>5. QED
  BY <1>2, <1>3, <1>4

\* One rule at most is the one that counts.
LEMMA BestIsOne ==
    ASSUME NEW table \in Seq(Rules), NEW model,
           NEW i \in Best(table, model), NEW j \in Best(table, model)
    PROVE  i = j
<1>1. \A k \in DOMAIN table : k \in Int /\ Len(table[k].prefix) \in Int
  <2> SUFFICES ASSUME NEW k \in DOMAIN table
               PROVE  k \in Int /\ Len(table[k].prefix) \in Int
    OBVIOUS
  <2>1. k \in Int /\ table[k] \in Rules
    OBVIOUS
  <2>2. table[k].prefix \in Seq(STRING)
    BY <2>1 DEF Rules
  <2>3. QED
    BY <2>1, <2>2
<1>2. /\ i \in DOMAIN table /\ Matches(table[i], model)
      /\ j \in DOMAIN table /\ Matches(table[j], model)
  BY DEF Best
<1>3. /\ \/ Len(table[j].prefix) < Len(table[i].prefix)
         \/ Len(table[j].prefix) = Len(table[i].prefix) /\ i <= j
      /\ \/ Len(table[i].prefix) < Len(table[j].prefix)
         \/ Len(table[i].prefix) = Len(table[j].prefix) /\ j <= i
  BY <1>2 DEF Best
<1> DEFINE a == Len(table[i].prefix)
           b == Len(table[j].prefix)
<1>4. /\ a \in Int /\ b \in Int /\ i \in Int /\ j \in Int
      /\ b < a \/ (b = a /\ i <= j)
      /\ a < b \/ (a = b /\ j <= i)
  BY <1>1, <1>2, <1>3
<1> HIDE DEF a, b
<1>5. QED
  BY <1>4

\* What a request is due, by what its provider says of cached tokens.
LEMMA DueAsReported ==
    ASSUME NEW ps, NEW pr \in DOMAIN Reports, NEW S, NEW rule \in Rules,
           NEW u, u = Tally(Most(ps, pr, S)),
           NEW due, due = [u EXCEPT !.excluded = pr = "anthropic"]
    PROVE  CostBy(rule, u) = DueBy(rule, due) /\ DueBy(rule, due) \in Int
<1> DEFINE c == Most(ps, pr, S)
<1>1. /\ c[1] \in 0 .. 2 /\ c[2] \in 0 .. 2 /\ c[3] \in 0 .. 2
      /\ c[4] \in 0 .. 2 /\ c[5] \in 0 .. 2
      /\ pr = "anthropic" => c[5] = 1 \/ (c[3] = 0 /\ c[4] = 0 /\ c[5] = 0)
      /\ pr # "anthropic" => c[5] = 0 /\ c[4] = 0 /\ c[3] <= c[1]
  BY ReportedKinds
<1> DEFINE x == c[5] = 1
           y == pr = "anthropic"
<1>2. u = [input |-> c[1], output |-> c[2], read |-> c[3], write |-> c[4],
           excluded |-> x]
  BY DEF Tally
<1>3. x \in BOOLEAN /\ y \in BOOLEAN /\ due = [u EXCEPT !.excluded = y]
  OBVIOUS
<1>4. /\ pr = "anthropic" <=> y
      /\ c[5] = 1 <=> x
  OBVIOUS
<1> HIDE DEF c, x, y
<1>5. /\ u.input = c[1] /\ u.output = c[2] /\ u.read = c[3] /\ u.write = c[4]
      /\ u.excluded = x
  BY <1>2
<1>6. u \in Counts
  <2>1. c[1] \in Nat /\ c[2] \in Nat /\ c[3] \in Nat /\ c[4] \in Nat
    BY <1>1
  <2>2. QED
    BY <1>2, <1>3, <2>1 DEF Counts
<1>7. ~ x => c[3] + c[4] <= c[1]
  BY <1>1, <1>4
<1>8. u.excluded \/ u.read + u.write <= u.input
  BY <1>3, <1>5, <1>7
<1>9. CostBy(rule, u) = DueBy(rule, u)
  BY <1>6, <1>8, TokensPricedOnce
<1>10. /\ due.input = c[1] /\ due.output = c[2] /\ due.read = c[3]
       /\ due.write = c[4] /\ due.excluded = y
  BY <1>2, <1>3
<1>11. /\ rule.input \in Nat /\ rule.output \in Nat
       /\ rule.read \in Nat /\ rule.write \in Nat
  BY DEF Rules
<1>12. /\ Rate(rule, rule.read) \in Nat /\ Rate(rule, rule.write) \in Nat
  BY <1>11 DEF Rate
<1>13. (IF x THEN c[1] ELSE c[1] - c[3] - c[4])
         = IF y THEN c[1] ELSE c[1] - c[3] - c[4]
  <2>1. x => y
    BY <1>1, <1>4
  <2>2. ASSUME y, ~ x PROVE c[1] - c[3] - c[4] = c[1]
    BY <1>1, <1>4, <2>2
  <2>3. QED
    BY <2>1, <2>2
<1>14. /\ DueBy(rule, u) = (IF x THEN c[1] ELSE c[1] - c[3] - c[4]) * rule.input
            + c[2] * rule.output
            + c[3] * Rate(rule, rule.read) + c[4] * Rate(rule, rule.write)
       /\ DueBy(rule, due) = (IF y THEN c[1] ELSE c[1] - c[3] - c[4]) * rule.input
            + c[2] * rule.output
            + c[3] * Rate(rule, rule.read) + c[4] * Rate(rule, rule.write)
  BY <1>5, <1>10 DEF DueBy
<1>15. DueBy(rule, u) = DueBy(rule, due)
  BY <1>13, <1>14
<1>16. DueBy(rule, due) \in Int
  <2>1. \A a, b \in Int : a * b \in Int
    OBVIOUS
  <2> DEFINE in == IF y THEN c[1] ELSE c[1] - c[3] - c[4]
  <2>2. in \in Int /\ c[2] \in Int /\ c[3] \in Int /\ c[4] \in Int
    BY <1>1
  <2>3. DueBy(rule, due) = in * rule.input + c[2] * rule.output
            + c[3] * Rate(rule, rule.read) + c[4] * Rate(rule, rule.write)
    BY <1>14
  <2> HIDE DEF in
  <2>4. /\ in * rule.input \in Int /\ c[2] * rule.output \in Int
        /\ c[3] * Rate(rule, rule.read) \in Int
        /\ c[4] * Rate(rule, rule.write) \in Int
    BY <1>11, <1>12, <2>1, <2>2
  <2>5. QED
    BY <2>3, <2>4
<1>17. QED
  BY <1>9, <1>15, <1>16

(* Whatever the table, the answer and the chunks, as long as none ends     *)
(* within a key: when the answer is over, the charge is what the reported  *)
(* tokens cost by the longest rule that matches the model, each of them    *)
(* once and at its own rate, or the least charge if that is more           *)
(* (stats.go:461-525, charge.go:51-69).                                    *)
THEOREM UsageChargedAsReported == Spec => []ChargedAsReported
<1>1. ASSUME IInv, fed = Len(Answer), ~ split
      PROVE  usage = Reported(Len(pieces))
  <2>1. BufInv
    BY <1>1 DEF IInv
  <2>2. Laid(pieces, Answer, Places) /\ Len(pieces) \in Nat
    BY <2>1 DEF BufInv, Kept, Laid
  <2>3. Arrived \in 0 .. Len(pieces)
    BY <2>1, ArrivedIs
  <2>4. Arrived = Len(pieces)
    <3> DEFINE N == Len(pieces)
    <3>1. CASE N = 0
      BY <2>3, <3>1
    <3>2. CASE N # 0
      <4>1. N \in 1 .. N
        BY <2>2, <3>2
      <4>2. Len(Answer) = Places[N + 1] - 1
        BY <2>2 DEF Laid
      <4>3. Len(Answer) \in Int
        BY <2>2 DEF Laid
      <4>4. Ended(pieces, Places, fed, N)
        BY <1>1, <4>1, <4>2, <4>3 DEF Ended
      <4>5. N <= Arrived
        BY <2>1, <4>1, <4>4, ArrivedIs
      <4> HIDE DEF N
      <4>6. Arrived \in 0 .. N /\ N \in Nat
        BY <2>2, <2>3 DEF N
      <4>7. Arrived = N
        BY <4>5, <4>6
      <4>8. QED
        BY <4>7 DEF N
    <3>3. QED
      BY <3>1, <3>2
  <2>5. usage = Reported(Arrived)
    BY <1>1, WholeKeysCounted DEF WholeKeysAreCounted
  <2>6. QED
    BY <2>4, <2>5
<1>2. ASSUME IInv, fed = Len(Answer), ~ split,
             NEW table \in Tables, NEW model \in Models
      PROVE  Charge(table, model, Tally(usage)) =
                 Max({MinCharge} \cup
                     {DueBy(table[i], [Tally(Reported(Len(pieces)))
                          EXCEPT !.excluded = provider = "anthropic"]) :
                         i \in Best(table, model)})
  <2> DEFINE u == Tally(usage)
             due == [u EXCEPT !.excluded = provider = "anthropic"]
             best == Best(table, model)
             Due == {DueBy(table[i], due) : i \in best}
             S == {MinCharge} \cup Due
             N == Len(pieces)
             charge == Charge(table, model, u)
  <2>1. usage = Reported(N)
    BY <1>1, <1>2
  <2>2. usage = Most(pieces, provider, 1 .. N)
    BY <2>1, ReportedIsMost
  <2>3. provider \in DOMAIN Reports
    BY <1>2 DEF IInv, BufInv
  <2>4. table \in Seq(Rules) /\ MinCharge \in Int /\ MinCharge >= 0
    BY UsageAssumption, PricingAssumption
  <2>5. charge = IF Cost(table, model, u) < MinCharge THEN MinCharge
                 ELSE Cost(table, model, u)
    BY DEF Charge
  <2>6. charge = Max(S)
    <3>1. CASE best = {}
      <4>1. S = {MinCharge}
        BY <3>1
      <4>2. Cost(table, model, u) = 0
        BY <3>1 DEF Cost
      <4>3. charge = MinCharge
        BY <2>4, <2>5, <4>2
      <4> HIDE DEF S, charge
      <4>4. Max(S) = MinCharge
        BY <2>4, <4>1, MaxIs
      <4>5. QED
        BY <4>3, <4>4
    <3>2. CASE best # {}
      <4> DEFINE k == CHOOSE i \in best : TRUE
                 rule == table[k]
                 d == DueBy(rule, due)
      <4>1. k \in best
        BY <3>2
      <4>2. \A i \in best : i = k
        BY <2>4, <4>1, BestIsOne
      <4>3. rule \in Rules
        BY <2>4, <4>1 DEF Best
      <4>4. Cost(table, model, u) = CostBy(rule, u)
        BY <3>2 DEF Cost
      <4>5. CostBy(rule, u) = d /\ d \in Int
        <5>1. u = Tally(Most(pieces, provider, 1 .. N))
          BY <2>2
        <5> HIDE DEF u, rule, N
        <5>2. QED
          BY <2>3, <4>3, <5>1, DueAsReported
      <4>6. S = {MinCharge, d}
        <5> HIDE DEF due, best, k
        <5>1. Due = {DueBy(table[k], due)}
          BY <4>1, <4>2
        <5>2. QED
          BY <5>1
      <4>7. charge = IF d < MinCharge THEN MinCharge ELSE d
        BY <2>5, <4>4, <4>5
      <4> HIDE DEF S, charge, d
      <4>8. S \in SUBSET Int /\ charge \in S /\ \A y \in S : y <= charge
        BY <2>4, <4>5, <4>6, <4>7
      <4>9. QED
        BY <4>8, MaxIs
    <3>3. QED
      BY <3>1, <3>2
  <2>7. QED
    BY <2>1, <2>6
<1>3. IInv => ChargedAsReported
  BY <1>2 DEF ChargedAsReported
<1>4. QED
  BY <1>3, UsageInvariant, PTL
=============================================================================
