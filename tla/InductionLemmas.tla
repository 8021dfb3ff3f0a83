-------------------------- MODULE InductionLemmas ---------------------------
(***************************************************************************)
(* Induction without predicates: over a finite set with an order on it,    *)
(* and over the naturals, from the fact that the subsets of a finite set   *)
(* are well-founded.  The components' proofs use it on their data.         *)
(***************************************************************************)
EXTENDS FiniteSetTheorems, FunctionTheorems, WellFoundedInduction, SequencesExt, TLAPS

\* A finite set with a strict partial order R on it has a minimal element.
LEMMA MinimalElement ==
    ASSUME NEW S, IsFiniteSet(S), S # {}, NEW R,
           \A x, y, z \in S : <<x, y>> \in R /\ <<y, z>> \in R => <<x, z>> \in R,
           \A x \in S : <<x, x>> \notin R
    PROVE  \E x \in S : \A y \in S : <<y, x>> \notin R
<1> DEFINE D(x) == {y \in S : <<y, x>> \in R}
           T == {D(x) : x \in S}
<1>1. T \subseteq FiniteSubsetsOf(S) /\ T # {}
  <2>1. \A x \in S : D(x) \in SUBSET S /\ IsFiniteSet(D(x))
    BY FS_Subset
  <2>2. T # {}
    <3>1. PICK x \in S : TRUE
      OBVIOUS
    <3>2. D(x) \in T
      OBVIOUS
    <3> HIDE DEF T
    <3> QED  BY <3>2
  <2>3. ASSUME NEW t \in T PROVE t \in SUBSET S /\ IsFiniteSet(t)
    <3>1. PICK x \in S : t = D(x)
      OBVIOUS
    <3> QED  BY <2>1, <3>1
  <2> HIDE DEF T
  <2> QED
    BY <2>2, <2>3 DEF FiniteSubsetsOf
<1>2. PICK t \in T : \A u \in T : <<u, t>> \notin StrictSubsetOrdering(S)
  BY <1>1, FS_StrictSubsetOrderingWellFounded, WFMin
<1>3. PICK x \in S : t = D(x)
  OBVIOUS
<1>4. ASSUME NEW y \in S, <<y, x>> \in R PROVE FALSE
  <2>1. D(y) \subseteq D(x) /\ y \in D(x) /\ y \notin D(y)
    BY <1>4
  <2>2. D(y) \in SUBSET S /\ D(x) \in SUBSET S
    OBVIOUS
  <2> HIDE DEF D
  <2>3. <<D(y), D(x)>> \in StrictSubsetOrdering(S)
    BY <2>1, <2>2 DEF StrictSubsetOrdering
  <2> QED
    BY <2>3, <1>2, <1>3
<1> QED
  BY <1>4

\* A finite set of integers that is not empty has a least member.
LEMMA LeastNumber ==
    ASSUME NEW S \in SUBSET Int, IsFiniteSet(S), S # {}
    PROVE  \E m \in S : \A n \in S : m <= n
<1> DEFINE R == {p \in S \X S : p[1] < p[2]}
<1>1. \A x, y \in S : <<x, y>> \in R <=> x < y
  OBVIOUS
<1> HIDE DEF R
<1>2. \A x, y, z \in S : <<x, y>> \in R /\ <<y, z>> \in R => <<x, z>> \in R
  BY <1>1
<1>3. \A x \in S : <<x, x>> \notin R
  BY <1>1
<1>4. PICK m \in S : \A n \in S : <<n, m>> \notin R
  BY <1>2, <1>3, MinimalElement
<1>5. \A n \in S : m <= n
  <2> TAKE n \in S
  <2>1. m \in Int /\ n \in Int
    OBVIOUS
  <2>2. <<n, m>> \in R <=> n < m
    BY <1>1
  <2>3. <<n, m>> \notin R
    BY <1>4
  <2> QED  BY <2>1, <2>2, <2>3
<1> QED
  BY <1>5

\* It has a greatest one.
LEMMA GreatestNumber ==
    ASSUME NEW S \in SUBSET Int, IsFiniteSet(S), S # {}
    PROVE  \E m \in S : \A n \in S : m >= n
<1> DEFINE R == {p \in S \X S : p[1] > p[2]}
<1>1. \A x, y \in S : <<x, y>> \in R <=> x > y
  OBVIOUS
<1> HIDE DEF R
<1>2. \A x, y, z \in S : <<x, y>> \in R /\ <<y, z>> \in R => <<x, z>> \in R
  BY <1>1
<1>3. \A x \in S : <<x, x>> \notin R
  BY <1>1
<1>4. PICK m \in S : \A n \in S : <<n, m>> \notin R
  BY <1>2, <1>3, MinimalElement
<1>5. \A n \in S : m >= n
  <2> TAKE n \in S
  <2>1. m \in Int /\ n \in Int
    OBVIOUS
  <2>2. <<n, m>> \in R <=> n > m
    BY <1>1
  <2>3. <<n, m>> \notin R
    BY <1>4
  <2> QED  BY <2>1, <2>2, <2>3
<1> QED
  BY <1>5

\* Induction over the naturals, for a set instead of a predicate.
LEMMA NatSetInduction ==
    ASSUME NEW S, 0 \in S, \A n \in Nat : n \in S => n + 1 \in S
    PROVE  Nat \subseteq S
<1> DEFINE T == {0..n : n \in Nat \ S}
<1> SUFFICES ASSUME T # {} PROVE FALSE
  OBVIOUS
<1>1. T \subseteq FiniteSubsetsOf(Nat)
  <2>1. ASSUME NEW t \in T PROVE t \in SUBSET Nat /\ IsFiniteSet(t)
    <3>1. PICK n \in Nat : t = 0..n
      OBVIOUS
    <3>2. 0 \in Int /\ n \in Int
      OBVIOUS
    <3>3. IsFiniteSet(0..n)
      BY <3>2, FS_Interval
    <3> QED  BY <3>1, <3>3
  <2> HIDE DEF T
  <2> QED
    BY <2>1 DEF FiniteSubsetsOf
<1>2. PICK t \in T : \A u \in T : <<u, t>> \notin StrictSubsetOrdering(Nat)
  BY <1>1, FS_StrictSubsetOrderingWellFounded, WFMin
<1>3. PICK n \in Nat \ S : t = 0..n
  OBVIOUS
<1>4. n - 1 \in Nat /\ n - 1 \notin S
  OBVIOUS
<1>5. 0..(n - 1) \in T
  BY <1>4
<1>6. <<0..(n - 1), 0..n>> \in StrictSubsetOrdering(Nat)
  <2>1. 0..(n - 1) \subseteq 0..n /\ n \in 0..n /\ n \notin 0..(n - 1)
    BY <1>4
  <2>2. 0..(n - 1) \in SUBSET Nat /\ 0..n \in SUBSET Nat
    BY <1>4
  <2> QED
    BY <2>1, <2>2 DEF StrictSubsetOrdering
<1> QED
  BY <1>2, <1>3, <1>5, <1>6

\* In a finite set with a strict total order R, each place 0, 1, ... is that of
\* exactly one element: the one with so many before it.
LEMMA Ranks ==
    ASSUME NEW S, IsFiniteSet(S), NEW R,
           \A x, y, z \in S : <<x, y>> \in R /\ <<y, z>> \in R => <<x, z>> \in R,
           \A x \in S : <<x, x>> \notin R,
           \A x, y \in S : x = y \/ <<x, y>> \in R \/ <<y, x>> \in R
    PROVE  /\ Cardinality(S) \in Nat
           /\ \A x \in S : Cardinality({y \in S : <<y, x>> \in R}) \in 0..(Cardinality(S) - 1)
           /\ \A x, y \in S : <<x, y>> \in R <=> Cardinality({z \in S : <<z, x>> \in R})
                                               < Cardinality({z \in S : <<z, y>> \in R})
           /\ \A p \in 0..(Cardinality(S) - 1) : \E x \in S :
                 Cardinality({y \in S : <<y, x>> \in R}) = p
<1> DEFINE D(x) == {y \in S : <<y, x>> \in R}
           rank == [x \in S |-> Cardinality(D(x))]
           N == 0..(Cardinality(S) - 1)
<1>1. Cardinality(S) \in Nat
  BY FS_CardinalityType
<1>2. \A x \in S : IsFiniteSet(D(x)) /\ Cardinality(D(x)) \in Nat
  BY FS_Subset, FS_CardinalityType
<1>3. \A x \in S : Cardinality(D(x)) \in N
  <2> TAKE x \in S
  <2>1. D(x) \in SUBSET S /\ x \notin D(x)
    OBVIOUS
  <2> HIDE DEF D
  <2>2. Cardinality(D(x)) <= Cardinality(S) /\ Cardinality(D(x)) # Cardinality(S)
    BY <2>1, FS_Subset
  <2> QED
    BY <2>2, <1>1, <1>2
<1>4. ASSUME NEW x \in S, NEW y \in S, <<x, y>> \in R
      PROVE  Cardinality(D(x)) < Cardinality(D(y))
  <2>1. D(x) \in SUBSET D(y) /\ x \in D(y) /\ x \notin D(x)
    BY <1>4
  <2> HIDE DEF D
  <2>2. Cardinality(D(x)) <= Cardinality(D(y)) /\ Cardinality(D(x)) # Cardinality(D(y))
    BY <2>1, <1>2, FS_Subset
  <2> QED
    BY <2>2, <1>2
<1>5. \A x, y \in S : <<x, y>> \in R <=> Cardinality(D(x)) < Cardinality(D(y))
  <2> TAKE x, y \in S
  <2>1. Cardinality(D(x)) \in Nat /\ Cardinality(D(y)) \in Nat
    BY <1>2
  <2>2. <<x, y>> \in R => Cardinality(D(x)) < Cardinality(D(y))
    BY <1>4
  <2>3. <<y, x>> \in R => Cardinality(D(y)) < Cardinality(D(x))
    BY <1>4
  <2> HIDE DEF D
  <2> QED
    BY <2>1, <2>2, <2>3
<1>6. \A p \in N : \E x \in S : Cardinality(D(x)) = p
  <2>1. rank \in [S -> N] /\ \A x \in S : rank[x] = Cardinality(D(x))
    BY <1>3
  <2> HIDE DEF rank, D
  <2>2. ASSUME NEW x \in S, NEW y \in S, rank[x] = rank[y] PROVE x = y
    <3>1. ~ (<<x, y>> \in R) /\ ~ (<<y, x>> \in R)
      BY <2>1, <2>2, <1>2, <1>4
    <3> QED
      BY <3>1
  <2>3. rank \in Injection(S, N)
    BY <2>1, <2>2, Fun_IsInj
  <2>4. IsFiniteSet(N) /\ Cardinality(N) = Cardinality(S)
    <3>1. Cardinality(S) - 1 \in Int /\ 0 \in Int
      BY <1>1
    <3>2. IsFiniteSet(N) /\ Cardinality(N) = IF 0 > Cardinality(S) - 1 THEN 0 ELSE Cardinality(S) - 1 - 0 + 1
      BY <3>1, FS_Interval
    <3> QED
      BY <3>2, <1>1
  <2>5. rank \in Surjection(S, N)
    BY <2>3, <2>4, FS_Injection
  <2>6. \A p \in N : \E x \in S : rank[x] = p
    <3> HIDE DEF N
    <3> QED  BY <2>5, Fun_SurjectionProperties
  <2> QED
    BY <2>6, <2>1
<1> QED
  BY <1>1, <1>3, <1>5, <1>6
=============================================================================
