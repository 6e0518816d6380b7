----------------------------- MODULE FoldProofs -----------------------------
(***************************************************************************)
(* Facts about induction and about FoldLeft that the other proof modules   *)
(* cite. The library's induction theorems and the fold operators take      *)
(* operators as parameters; here an induction is over a set of numbers and *)
(* the step of a fold is a function, so that each fact is first-order.     *)
(***************************************************************************)
EXTENDS Integers, Sequences, FiniteSetsExt, FiniteSetTheorems, WellFoundedInduction, TLAPS

-----------------------------------------------------------------------------
(* Induction.                                                              *)

\* A set of numbers that is not empty has a least one.
LEMMA LeastNatural ==
  ASSUME NEW S \in SUBSET Nat, S # {}
  PROVE  \E n \in S : \A m \in S : n <= m
<1> DEFINE R == OpToRel(<, Nat)
<1>1. IsWellFoundedOn(R, Nat)
  BY NatLessThanWellFounded
<1>2. \A m, n \in Nat : m < n => <<m, n>> \in R
  BY DEF OpToRel
<1> HIDE DEF R
<1>3. PICK n \in S : \A m \in S : ~(<<m, n>> \in R)
  BY <1>1, WFMin
<1>4. ASSUME NEW m \in S PROVE n <= m
  <2>1. ~(m < n)
    BY <1>2, <1>3
  <2> QED BY <2>1
<1> QED BY <1>4

\* A set that has 0, and with each number the next, has all of them.
LEMMA SetInduction ==
  ASSUME NEW P, 0 \in P, \A n \in Nat : n \in P => n + 1 \in P
  PROVE  \A n \in Nat : n \in P
<1> SUFFICES ASSUME NEW k \in Nat, k \notin P PROVE FALSE
  OBVIOUS
<1> DEFINE Missing == {n \in Nat : n \notin P}
<1>1. PICK n \in Missing : \A m \in Missing : n <= m
  BY LeastNatural
<1>2. n # 0 /\ n - 1 \in Nat /\ n - 1 \notin Missing
  BY <1>1
<1> QED BY <1>2

\* The same up to a bound.
LEMMA BoundedInduction ==
  ASSUME NEW P, NEW n \in Nat, 0 \in P, \A k \in 1..n : k - 1 \in P => k \in P
  PROVE  \A k \in 0..n : k \in P
<1> DEFINE Q == {k \in Nat : k <= n => k \in P}
<1>1. ASSUME NEW k \in Nat, k \in Q PROVE k + 1 \in Q
  <2>1. SUFFICES ASSUME k + 1 <= n PROVE k + 1 \in P
    OBVIOUS
  <2>2. k + 1 \in 1..n /\ (k + 1) - 1 = k /\ k \in P
    BY <1>1, <2>1
  <2> QED BY <2>2
<1>2. 0 \in Q
  OBVIOUS
<1> HIDE DEF Q
<1>3. \A k \in Nat : k \in Q
  BY <1>1, <1>2, SetInduction
<1> QED BY <1>3 DEF Q

-----------------------------------------------------------------------------
(* Positions.                                                              *)

\* A set of positions that is not empty has a greatest one.
LEMMA MaxIsGreatest ==
  ASSUME NEW n \in Nat, NEW S \in SUBSET (1..n), S # {}
  PROVE  Max(S) \in S /\ \A i \in S : i <= Max(S)
<1> DEFINE Bounds == {b \in Nat : \A i \in S : i <= b}
<1>1. n \in Bounds
  OBVIOUS
<1>2. PICK b \in Bounds : \A c \in Bounds : b <= c
  BY <1>1, LeastNatural
<1>3. b \in S
  <2>1. SUFFICES ASSUME b \notin S PROVE FALSE
    OBVIOUS
  <2>2. \A i \in S : i <= b - 1 /\ 1 <= b
    BY <2>1
  <2>3. b - 1 \in Nat
    <3>1. PICK i \in S : TRUE
      OBVIOUS
    <3> QED BY <2>2, <3>1
  <2>4. b - 1 \in Bounds
    BY <2>2, <2>3
  <2> QED BY <1>2, <2>3, <2>4
<1>4. \E x \in S : \A y \in S : x >= y
  BY <1>3
<1>5. Max(S) \in S /\ \A y \in S : Max(S) >= y
  BY <1>4 DEF Max
<1> QED BY <1>5

\* And a least one.
LEMMA MinIsLeast ==
  ASSUME NEW n \in Nat, NEW S \in SUBSET (1..n), S # {}
  PROVE  Min(S) \in S /\ \A i \in S : Min(S) <= i
<1>1. \E x \in S : \A y \in S : x <= y
  BY LeastNatural
<1> QED BY <1>1 DEF Min

\* The first k positions end with the k-th.
LEMMA MaxOfPrefix ==
  ASSUME NEW k \in Nat \ {0}
  PROVE  Max(1..k) = k /\ (1..k) \ {k} = 1..(k - 1) /\ 1..k # {}
<1>1. k \in 1..k
  OBVIOUS
<1>2. Max(1..k) \in 1..k /\ \A i \in 1..k : i <= Max(1..k)
  BY <1>1, MaxIsGreatest
<1> QED BY <1>1, <1>2

\* Positions are finitely many, and one is taken away at a time.
LEMMA PositionsAreFinite ==
  ASSUME NEW n \in Nat, NEW S \in SUBSET (1..n)
  PROVE  /\ IsFiniteSet(S) /\ Cardinality(S) \in 0..n
         /\ Cardinality(S) = 0 <=> S = {}
         /\ \A i \in S : Cardinality(S \ {i}) = Cardinality(S) - 1
<1>1. IsFiniteSet(1..n) /\ Cardinality(1..n) = n
  BY FS_Interval
<1>2. IsFiniteSet(S) /\ Cardinality(S) <= n
  BY <1>1, FS_Subset
<1>3. Cardinality(S) \in Nat
  BY <1>2, FS_CardinalityType
<1>4. \A i \in S : Cardinality(S \ {i}) = Cardinality(S) - 1
  BY <1>2, FS_RemoveElement
<1>5. Cardinality(S) = 0 <=> S = {}
  BY <1>2, FS_EmptySet
<1>6. Cardinality(S) \in 0..n
  BY <1>2, <1>3
<1> QED BY <1>2, <1>4, <1>5, <1>6

\* An entry of a sequence is one of what the sequence holds.
LEMMA EntryOf == ASSUME NEW S, NEW s \in Seq(S), NEW i \in 1..Len(s) PROVE s[i] \in S
OBVIOUS

-----------------------------------------------------------------------------
(* FoldLeft.                                                               *)

\* f is what FoldLeft computes for every set of positions below n: it takes the
\* greatest position off and applies the step to what the others come to.
FoldsTo(f, n, base, step) ==
  \A S \in SUBSET (1..n) :
    f[S] = IF S = {} THEN base ELSE step[<<f[S \ {Max(S)}], Max(S)>>]

\* Every fold over finitely many positions comes to something.
LEMMA FoldExists ==
  ASSUME NEW n \in Nat, NEW V, NEW base \in V, NEW step \in [V \X (1..n) -> V]
  PROVE  \E f \in [SUBSET (1..n) -> V] : FoldsTo(f, n, base, step)
<1> DEFINE UpTo(m) == {S \in SUBSET (1..n) : Cardinality(S) <= m}
           Value(f, S) == IF S = {} THEN base ELSE step[<<f[S \ {Max(S)}], Max(S)>>]
           Good(f, m) == f \in [UpTo(m) -> V] /\ \A S \in UpTo(m) : f[S] = Value(f, S)
           P == {m \in Nat : \E f : Good(f, m)}
<1>1. 0 \in P
  <2>1. \A S \in UpTo(0) : S = {}
    BY PositionsAreFinite
  <2>2. Good([S \in UpTo(0) |-> base], 0)
    BY <2>1
  <2> QED BY <2>2
<1>2. ASSUME NEW m \in Nat, m \in P PROVE m + 1 \in P
  <2>1. PICK f : Good(f, m)
    BY <1>2
  <2> DEFINE g == [S \in UpTo(m + 1) |-> Value(f, S)]
  <2>2. ASSUME NEW S \in UpTo(m + 1), S # {}
        PROVE  S \ {Max(S)} \in UpTo(m) /\ Max(S) \in 1..n /\ UpTo(m) \subseteq UpTo(m + 1)
    <3>1. Max(S) \in S
      BY <2>2, MaxIsGreatest
    <3>2. Cardinality(S \ {Max(S)}) = Cardinality(S) - 1 /\ Cardinality(S) \in 0..n
      <4>1. S \in SUBSET (1..n)
        OBVIOUS
      <4> QED BY <3>1, <4>1, PositionsAreFinite, Zenon
    <3>3. ASSUME NEW T \in UpTo(m) PROVE T \in UpTo(m + 1)
      <4>1. Cardinality(T) \in 0..n
        BY PositionsAreFinite
      <4> QED BY <4>1
    <3>4. S \ {Max(S)} \in UpTo(m)
      <4>1. Cardinality(S) <= m + 1
        OBVIOUS
      <4>2. Cardinality(S \ {Max(S)}) <= m
        BY <3>2, <4>1
      <4> QED BY <4>2
    <3> QED BY <3>1, <3>3, <3>4
  <2>3. g \in [UpTo(m + 1) -> V]
    <3>1. ASSUME NEW S \in UpTo(m + 1) PROVE Value(f, S) \in V
      <4>1. CASE S = {}
        BY <4>1
      <4>2. CASE S # {}
        <5>1. S \ {Max(S)} \in UpTo(m) /\ Max(S) \in 1..n
          BY <2>2, <4>2
        <5>2. f[S \ {Max(S)}] \in V
          BY <2>1, <5>1
        <5> QED BY <4>2, <5>1, <5>2
      <4> QED BY <4>1, <4>2
    <3> QED BY <3>1
  <2>4. ASSUME NEW S \in UpTo(m + 1) PROVE g[S] = Value(g, S)
    <3>1. CASE S = {}
      BY <3>1
    <3>2. CASE S # {}
      <4>1. S \ {Max(S)} \in UpTo(m) /\ S \ {Max(S)} \in UpTo(m + 1)
        BY <2>2, <3>2
      <4>2. g[S \ {Max(S)}] = f[S \ {Max(S)}]
        BY <2>1, <4>1
      <4> QED BY <3>2, <4>2
    <3> QED BY <3>1, <3>2
  <2>5. Good(g, m + 1)
    BY <2>3, <2>4
  <2> HIDE DEF g, Good
  <2> QED BY <2>5
<1>3. n \in P
  <2> HIDE DEF P
  <2> QED BY <1>1, <1>2, SetInduction
<1>4. PICK f : Good(f, n)
  BY <1>3
<1>5. UpTo(n) = SUBSET (1..n)
  BY PositionsAreFinite
<1> QED BY <1>4, <1>5 DEF FoldsTo

\* A sum over positions comes to something.
LEMMA SumExists ==
  ASSUME NEW n \in Nat, NEW w \in [1..n -> Nat]
  PROVE  \E f \in [SUBSET (1..n) -> Nat] :
           \A S \in SUBSET (1..n) :
             f[S] = IF S = {} THEN 0 ELSE f[S \ {Max(S)}] + w[Max(S)]
<1> DEFINE step == [x \in Nat \X (1..n) |-> x[1] + w[x[2]]]
<1>1. step \in [Nat \X (1..n) -> Nat] /\ 0 \in Nat
  OBVIOUS
<1>2. \A total \in Nat, i \in 1..n : step[<<total, i>>] = total + w[i]
  OBVIOUS
<1> HIDE DEF step
<1>3. PICK f \in [SUBSET (1..n) -> Nat] : FoldsTo(f, n, 0, step)
  BY <1>1, FoldExists
<1>4. ASSUME NEW S \in SUBSET (1..n)
      PROVE  f[S] = IF S = {} THEN 0 ELSE f[S \ {Max(S)}] + w[Max(S)]
  <2>1. CASE S = {}
    BY <1>3, <2>1 DEF FoldsTo
  <2>2. CASE S # {}
    <3>1. Max(S) \in 1..n
      BY <2>2, MaxIsGreatest
    <3>2. f[S \ {Max(S)}] \in Nat
      OBVIOUS
    <3> QED BY <1>2, <1>3, <2>2, <3>1, <3>2 DEF FoldsTo
  <2> QED BY <2>1, <2>2
<1> QED BY <1>4

\* And to no more than if every term were the largest.
LEMMA SumIsBounded ==
  ASSUME NEW n \in Nat, NEW w \in [1..n -> Nat], NEW most \in Nat,
         \A i \in 1..n : w[i] <= most,
         NEW f, f[{}] = 0,
         \A k \in 1..n : f[1..(k - 1)] \in Nat =>
                           f[1..k] = f[(1..k) \ {Max(1..k)}] + w[Max(1..k)]
  PROVE  f[1..n] \in Nat /\ f[1..n] <= n * most
<1> DEFINE P == {k \in 0..n : f[1..k] \in Nat /\ f[1..k] <= k * most}
<1>1. 0 \in P
  <2>1. 1..0 = {} /\ 0 * most = 0
    OBVIOUS
  <2>2. f[1..0] = 0
    BY <2>1, Zenon
  <2> QED BY <2>1, <2>2
<1>2. ASSUME NEW k \in 1..n, k - 1 \in P PROVE k \in P
  <2>1. Max(1..k) = k /\ (1..k) \ {k} = 1..(k - 1)
    <3>1. k \in Nat \ {0}
      OBVIOUS
    <3> QED BY <3>1, MaxOfPrefix, Zenon
  <2>2. f[1..k] = f[1..(k - 1)] + w[k]
    BY <1>2, <2>1
  <2>3. (k - 1) * most + most = k * most
    OBVIOUS
  <2>4. (k - 1) * most \in Nat /\ k * most \in Nat
    OBVIOUS
  <2>5. w[k] \in Nat /\ w[k] <= most /\ f[1..(k - 1)] \in Nat /\ f[1..(k - 1)] <= (k - 1) * most
    BY <1>2
  <2>6. f[1..k] \in Nat /\ f[1..k] <= k * most
    <3> DEFINE a == (k - 1) * most
               b == k * most
    <3>1. a + most = b /\ a \in Nat /\ b \in Nat
      BY <2>3, <2>4
    <3> HIDE DEF a, b
    <3>2. f[1..(k - 1)] <= a
      BY <2>5 DEF a
    <3>3. f[1..k] \in Nat /\ f[1..k] <= b
      BY <2>2, <2>5, <3>1, <3>2
    <3> QED BY <3>3 DEF b
  <2> QED BY <2>6
<1> HIDE DEF P
<1>3. n \in P
  <2>1. \A k \in 0..n : k \in P
    BY <1>1, <1>2, BoundedInduction
  <2> QED BY <2>1
<1> QED BY <1>3 DEF P

=============================================================================
