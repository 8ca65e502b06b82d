--------------------------- MODULE NaturalLemmas ---------------------------
(***************************************************************************)
(* Facts about sets of natural numbers that the other proofs rest on: they *)
(* have a least element, the finite ones a greatest, and their ordinals    *)
(* cover all numbers up to their size.                                     *)
(***************************************************************************)
EXTENDS Integers, FiniteSetsExt, FiniteSetTheorems, WellFoundedInduction, TLAPS

\* A set of natural numbers that is not empty has a least element.
LEMMA LeastElement ==
  ASSUME NEW S, S \subseteq Nat, S # {}
  PROVE  \E i \in S : \A j \in S : i <= j
<1> DEFINE R == {ss \in Nat \X Nat : ss[1] < ss[2]}
<1>1. IsWellFoundedOn(R, Nat)
  BY NatLessThanWellFounded DEF OpToRel
<1>2. \A j, i \in Nat : j < i => <<j, i>> \in R
  OBVIOUS
<1> HIDE DEF R
<1>3. PICK i \in S : \A j \in S : <<j, i>> \notin R
  BY <1>1, WFMin
<1>4. \A j \in S : ~(j < i)
  BY <1>2, <1>3
<1> QED  BY <1>4

\* Min finds it.
LEMMA MinIsLeast ==
  ASSUME NEW S, S \subseteq Nat, S # {}
  PROVE  Min(S) \in S /\ \A j \in S : Min(S) <= j
BY LeastElement DEF Min

\* And some number below a bound is the greatest.
LEMMA MaxIsGreatest ==
  ASSUME NEW n \in Nat, NEW S \in SUBSET (1..n), S # {}
  PROVE  Max(S) \in S /\ \A j \in S : j <= Max(S)
<1> DEFINE below == {n - i : i \in S}
<1>1. below \subseteq Nat /\ below # {}
  <2>1. \A i \in S : n - i \in Nat
    OBVIOUS
  <2> QED  BY <2>1
<1>2. PICK d \in below : \A e \in below : d <= e
  <2> HIDE DEF below
  <2> QED  BY <1>1, LeastElement
<1>3. PICK m \in S : d = n - m
  BY <1>2
<1>4. \A j \in S : m >= j
  <2> TAKE j \in S
  <2>1. n - m <= n - j /\ j \in 1..n /\ m \in 1..n
    BY <1>2, <1>3
  <2> QED  BY <2>1
<1>5. Max(S) \in S /\ \A j \in S : Max(S) >= j
  BY <1>3, <1>4 DEF Max
<1> QED  BY <1>5

\* The ordinal number of an element: how many of the set are not behind it.
Ordinal(S, i) == Cardinality({j \in S : j <= i})

LEMMA OrdinalIncreases ==
  ASSUME NEW n \in Nat, NEW S \in SUBSET (1..n), NEW i \in S, NEW k \in S, i < k
  PROVE  Ordinal(S, i) < Ordinal(S, k)
<1> DEFINE A == {j \in S : j <= i}
           B == {j \in S : j <= k}
<1>1. IsFiniteSet(B)
  <2>1. IsFiniteSet(1..n)
    BY FS_Interval
  <2> QED  BY <2>1, FS_Subset
<1>0. S \subseteq Nat
  OBVIOUS
<1>2. A \in SUBSET B /\ k \in B /\ k \notin A
  <2>1. \A j \in S : j <= i => j <= k
    BY <1>0
  <2>2. k <= k /\ ~(k <= i)
    BY <1>0
  <2> QED  BY <2>1, <2>2
<1> HIDE DEF A, B
<1>3. Cardinality(A) <= Cardinality(B) /\ Cardinality(A) # Cardinality(B)
  BY <1>1, <1>2, FS_Subset
<1>4. Cardinality(A) \in Nat /\ Cardinality(B) \in Nat
  BY <1>1, <1>2, FS_Subset, FS_CardinalityType
<1> QED  BY <1>3, <1>4 DEF A, B, Ordinal

\* Each number up to the size of a set is the ordinal of one of its elements.
LEMMA OrdinalsAreAll ==
  ASSUME NEW n \in Nat, NEW S \in SUBSET (1..n), NEW m \in 1..Cardinality(S)
  PROVE  \E i \in S : Ordinal(S, i) = m
<1>1. IsFiniteSet(S)
  <2>1. IsFiniteSet(1..n)
    BY FS_Interval
  <2> QED  BY <2>1, FS_Subset
<1> DEFINE size == Cardinality(S)
           f == [i \in S |-> Ordinal(S, i)]
<1>2. size \in Nat
  BY <1>1, FS_CardinalityType
<1>3. \A i \in S : Ordinal(S, i) \in 1..size
  <2> SUFFICES ASSUME NEW i \in S PROVE Ordinal(S, i) \in 1..size
    OBVIOUS
  <2> DEFINE A == {j \in S : j <= i}
  <2>1. A \in SUBSET S /\ A # {}
    OBVIOUS
  <2> HIDE DEF A
  <2>2. IsFiniteSet(A) /\ Cardinality(A) <= size
    BY <1>1, <2>1, FS_Subset
  <2>3. Cardinality(A) \in Nat /\ Cardinality(A) # 0
    BY <2>1, <2>2, FS_CardinalityType, FS_EmptySet
  <2>4. Cardinality(A) \in 1..size
    BY <1>2, <2>2, <2>3
  <2> QED  BY <2>4 DEF A, Ordinal
<1>4. \A i, k \in S : f[i] = f[k] => i = k
  <2> SUFFICES ASSUME NEW i \in S, NEW k \in S, Ordinal(S, i) = Ordinal(S, k), i # k
               PROVE  FALSE
    OBVIOUS
  <2>1. Ordinal(S, i) \in Nat /\ Ordinal(S, k) \in Nat
    BY <1>2, <1>3
  <2>2. ASSUME i < k PROVE FALSE
    <3>1. Ordinal(S, i) < Ordinal(S, k)
      BY <2>2, OrdinalIncreases
    <3> QED  BY <2>1, <3>1
  <2>3. ASSUME k < i PROVE FALSE
    <3>1. Ordinal(S, k) < Ordinal(S, i)
      BY <2>3, OrdinalIncreases
    <3> QED  BY <2>1, <3>1
  <2>4. i < k \/ k < i
    OBVIOUS
  <2> QED  BY <2>2, <2>3, <2>4
<1>5. f \in Injection(S, 1..size)
  BY <1>3, <1>4 DEF Injection, IsInjective
<1>6. IsFiniteSet(1..size) /\ Cardinality(1..size) = size
  BY <1>2, FS_Interval
<1>7. f \in Surjection(S, 1..size)
  <2> HIDE DEF f
  <2> QED  BY <1>5, <1>6, FS_Injection
<1> QED  BY <1>7 DEF Surjection
=============================================================================
