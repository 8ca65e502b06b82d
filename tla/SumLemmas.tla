----------------------------- MODULE SumLemmas -----------------------------
(***************************************************************************)
(* Sums over finite functions: SumFunction's recursion has a solution, the *)
(* sum of natural numbers is one, and a sum whose terms are zero but for   *)
(* one is that term.  Each is an induction on the size of a set of         *)
(* indices, by a least counterexample.                                     *)
(***************************************************************************)
EXTENDS Functions, NaturalLemmas

Pick(s) == CHOOSE x \in s : TRUE

\* What the sum over a set of indices is, by the sums over smaller sets.
SumOver(t, sums, s) == IF s = {} THEN 0 ELSE t[Pick(s)] + sums[s \ {Pick(s)}]
Solution(t, sums) == sums = [s \in SUBSET DOMAIN t |-> SumOver(t, sums, s)]

LEMMA PickSmaller ==
  ASSUME NEW D, IsFiniteSet(D), NEW s \in SUBSET D, s # {}
  PROVE  /\ Pick(s) \in s /\ s \ {Pick(s)} \in SUBSET D
         /\ Cardinality(s) \in Nat /\ Cardinality(s \ {Pick(s)}) = Cardinality(s) - 1
<1>1. Pick(s) \in s
  BY DEF Pick
<1>2. IsFiniteSet(s) /\ Cardinality(s) \in Nat
  BY FS_Subset, FS_CardinalityType
<1>3. Cardinality(s \ {Pick(s)}) = Cardinality(s) - 1
  BY <1>1, <1>2, FS_RemoveElement
<1> QED  BY <1>1, <1>2, <1>3

\* The recursion of the sums has a solution, whatever the terms are.
LEMMA SolutionExists ==
  ASSUME NEW t, IsFiniteSet(DOMAIN t)
  PROVE  \E sums : Solution(t, sums)
<1> DEFINE D == DOMAIN t
           Upto(n, g) == \A s \in SUBSET D : Cardinality(s) <= n => g[s] = SumOver(t, g, s)
           Missing == {n \in Nat : ~\E g : Upto(n, g)}
<1>1. Missing = {}
  <2> SUFFICES ASSUME Missing # {} PROVE FALSE
    OBVIOUS
  <2>1. PICK m \in Missing : \A j \in Missing : m <= j
    BY LeastElement
  <2>2. m \in Nat /\ ~\E g : Upto(m, g)
    OBVIOUS
  <2> SUFFICES \E g : Upto(m, g)
    BY <2>2
  <2>3. CASE m = 0
    <3> DEFINE g == [s \in SUBSET D |-> 0]
    <3>1. ASSUME NEW s \in SUBSET D, Cardinality(s) <= m PROVE g[s] = SumOver(t, g, s)
      <4>1. s = {}
        BY <2>3, <3>1, PickSmaller, FS_Subset, FS_CardinalityType, FS_EmptySet
      <4> QED  BY <4>1 DEF SumOver
    <3> QED  BY <3>1
  <2>4. CASE m # 0
    <3>1. m - 1 \in Nat /\ m - 1 \notin Missing
      BY <2>1, <2>2, <2>4
    <3>2. PICK f : Upto(m - 1, f)
      BY <3>1
    <3> DEFINE g == [s \in SUBSET D |-> SumOver(t, f, s)]
    <3>3. \A s \in SUBSET D : g[s] = SumOver(t, f, s)
      OBVIOUS
    <3>4. ASSUME NEW s \in SUBSET D, Cardinality(s) <= m - 1 PROVE g[s] = f[s]
      BY <3>2, <3>3, <3>4
    <3> HIDE DEF g
    <3>5. ASSUME NEW s \in SUBSET D, Cardinality(s) <= m PROVE g[s] = SumOver(t, g, s)
      <4>1. CASE s = {}
        BY <3>3, <4>1 DEF SumOver
      <4>2. CASE s # {}
        <5> DEFINE less == s \ {Pick(s)}
        <5>1. less \in SUBSET D /\ Cardinality(less) = Cardinality(s) - 1 /\ Cardinality(s) \in Nat
          BY <4>2, PickSmaller
        <5>2. Cardinality(less) <= m - 1
          BY <2>2, <3>5, <5>1
        <5>3. g[less] = f[less]
          BY <3>4, <5>1, <5>2
        <5> QED  BY <3>3, <4>2, <5>3 DEF SumOver
      <4> QED  BY <4>1, <4>2
    <3> QED  BY <3>5
  <2> QED  BY <2>3, <2>4
<1>2. Cardinality(D) \in Nat
  BY FS_CardinalityType
<1>3. PICK g : Upto(Cardinality(D), g)
  BY <1>1, <1>2
<1> DEFINE sums == [s \in SUBSET D |-> g[s]]
<1>4. ASSUME NEW s \in SUBSET D PROVE g[s] = SumOver(t, sums, s)
  <2>1. Cardinality(s) <= Cardinality(D)
    BY FS_Subset
  <2>2. g[s] = SumOver(t, g, s)
    BY <1>3, <2>1
  <2>3. CASE s = {}
    BY <2>2, <2>3 DEF SumOver
  <2>4. CASE s # {}
    <3>1. sums[s \ {Pick(s)}] = g[s \ {Pick(s)}]
      OBVIOUS
    <3> HIDE DEF sums
    <3> QED  BY <2>2, <2>4, <3>1 DEF SumOver
  <2> QED  BY <2>3, <2>4
<1>5. Solution(t, sums)
  BY <1>4 DEF Solution
<1> QED  BY <1>5

\* SumFunction is a solution's value at the set of all indices.
LEMMA SumUnfolds ==
  ASSUME NEW t, IsFiniteSet(DOMAIN t)
  PROVE  \E sums : /\ \A s \in SUBSET DOMAIN t : sums[s] = SumOver(t, sums, s)
                   /\ SumFunction(t) = sums[DOMAIN t]
<1> DEFINE sums == CHOOSE it : Solution(t, it)
<1>1. SumFunction(t) = sums[DOMAIN t]
  BY DEF SumFunction, SumFunctionOnSet, FoldFunctionOnSet, MapThenFoldSet, Pick, SumOver, Solution
<1>2. Solution(t, sums)
  BY SolutionExists
<1> HIDE DEF sums
<1>3. \A s \in SUBSET DOMAIN t : sums[s] = SumOver(t, sums, s)
  BY <1>2 DEF Solution
<1> QED  BY <1>1, <1>3

\* A property of the sums that each set has when the smaller one has it.
\* (The library's induction theorem takes it as a parameter: here it is a set of
\* sets of indices.)
LEMMA AllSubsets ==
  ASSUME NEW D, IsFiniteSet(D), NEW Good, {} \in Good,
         \A s \in SUBSET D : s # {} /\ s \ {Pick(s)} \in Good => s \in Good
  PROVE  SUBSET D \subseteq Good
<1> DEFINE Sizes == {n \in Nat : \E s \in SUBSET D : Cardinality(s) = n /\ s \notin Good}
<1>1. \A s \in SUBSET D : Cardinality(s) \in Nat
  BY FS_Subset, FS_CardinalityType
<1> SUFFICES ASSUME Sizes # {} PROVE FALSE
  BY <1>1
<1>2. PICK m \in Sizes : \A j \in Sizes : m <= j
  BY LeastElement
<1>3. PICK s \in SUBSET D : Cardinality(s) = m /\ s \notin Good
  OBVIOUS
<1>4. s # {} /\ s \ {Pick(s)} \notin Good
  BY <1>3
<1>5. s \ {Pick(s)} \in SUBSET D /\ Cardinality(s \ {Pick(s)}) = m - 1
  BY <1>3, <1>4, PickSmaller
<1>6. m - 1 \in Sizes
  BY <1>1, <1>4, <1>5
<1> QED  BY <1>2, <1>6

\* The sum of natural numbers is a natural number.
LEMMA SumIsNatural ==
  ASSUME NEW t, IsFiniteSet(DOMAIN t), \A k \in DOMAIN t : t[k] \in Nat
  PROVE  SumFunction(t) \in Nat
<1>1. PICK sums : /\ \A s \in SUBSET DOMAIN t : sums[s] = SumOver(t, sums, s)
                  /\ SumFunction(t) = sums[DOMAIN t]
  BY SumUnfolds
<1> DEFINE Good == {s \in SUBSET DOMAIN t : sums[s] \in Nat}
<1>2. {} \in Good
  <2>1. {} \in SUBSET DOMAIN t /\ SumOver(t, sums, {}) = 0
    BY DEF SumOver
  <2>2. sums[{}] = 0
    BY <1>1, <2>1
  <2> QED  BY <2>1, <2>2
<1>3. ASSUME NEW s \in SUBSET DOMAIN t, s # {}, s \ {Pick(s)} \in Good
      PROVE  s \in Good
  <2>1. Pick(s) \in DOMAIN t
    BY <1>3, PickSmaller
  <2>2. sums[s] = t[Pick(s)] + sums[s \ {Pick(s)}]
    BY <1>1, <1>3 DEF SumOver
  <2> QED  BY <1>3, <2>1, <2>2
<1> HIDE DEF Good
<1>4. SUBSET DOMAIN t \subseteq Good
  BY <1>2, <1>3, AllSubsets
<1> QED  BY <1>1, <1>4 DEF Good

\* It is no less than any of them.
LEMMA SumIsNoLess ==
  ASSUME NEW t, IsFiniteSet(DOMAIN t), \A j \in DOMAIN t : t[j] \in Nat, NEW k \in DOMAIN t
  PROVE  t[k] <= SumFunction(t)
<1>1. PICK sums : /\ \A s \in SUBSET DOMAIN t : sums[s] = SumOver(t, sums, s)
                  /\ SumFunction(t) = sums[DOMAIN t]
  BY SumUnfolds
<1> DEFINE Good == {s \in SUBSET DOMAIN t : sums[s] \in Nat /\ (k \in s => t[k] <= sums[s])}
<1>2. {} \in Good
  <2>1. {} \in SUBSET DOMAIN t /\ SumOver(t, sums, {}) = 0
    BY DEF SumOver
  <2>2. sums[{}] = 0
    BY <1>1, <2>1
  <2> QED  BY <2>1, <2>2
<1>3. ASSUME NEW s \in SUBSET DOMAIN t, s # {}, s \ {Pick(s)} \in Good
      PROVE  s \in Good
  <2>1. Pick(s) \in DOMAIN t
    BY <1>3, PickSmaller
  <2>2. sums[s] = t[Pick(s)] + sums[s \ {Pick(s)}]
    BY <1>1, <1>3 DEF SumOver
  <2>3. CASE k = Pick(s)
    BY <1>3, <2>1, <2>2, <2>3
  <2>4. CASE k # Pick(s)
    <3>1. k \in s => k \in s \ {Pick(s)}
      BY <2>4
    <3> QED  BY <1>3, <2>1, <2>2, <3>1
  <2> QED  BY <2>3, <2>4
<1> HIDE DEF Good
<1>4. SUBSET DOMAIN t \subseteq Good
  BY <1>2, <1>3, AllSubsets
<1> QED  BY <1>4, <1>1 DEF Good

\* A sum all whose terms but one are zero is that one.
LEMMA SumOfOneTerm ==
  ASSUME NEW t, IsFiniteSet(DOMAIN t), NEW k \in DOMAIN t, t[k] \in Nat,
         \A j \in DOMAIN t \ {k} : t[j] = 0
  PROVE  SumFunction(t) = t[k]
<1>1. PICK sums : /\ \A s \in SUBSET DOMAIN t : sums[s] = SumOver(t, sums, s)
                  /\ SumFunction(t) = sums[DOMAIN t]
  BY SumUnfolds
<1> DEFINE Good == {s \in SUBSET DOMAIN t : sums[s] = IF k \in s THEN t[k] ELSE 0}
<1>2. {} \in Good
  <2>1. {} \in SUBSET DOMAIN t /\ SumOver(t, sums, {}) = 0 /\ k \notin {}
    BY DEF SumOver
  <2>2. sums[{}] = 0
    BY <1>1, <2>1
  <2> QED  BY <2>1, <2>2
<1>3. ASSUME NEW s \in SUBSET DOMAIN t, s # {}, s \ {Pick(s)} \in Good
      PROVE  s \in Good
  <2>1. Pick(s) \in s
    BY <1>3, PickSmaller
  <2>2. sums[s] = t[Pick(s)] + sums[s \ {Pick(s)}]
    BY <1>1, <1>3 DEF SumOver
  <2>3. CASE Pick(s) = k
    BY <1>3, <2>1, <2>2, <2>3
  <2>4. CASE Pick(s) # k
    <3>1. t[Pick(s)] = 0
      BY <2>1, <2>4
    <3>2. k \in s <=> k \in s \ {Pick(s)}
      BY <2>4
    <3> QED  BY <1>3, <2>2, <3>1, <3>2
  <2> QED  BY <2>3, <2>4
<1> HIDE DEF Good
<1>4. SUBSET DOMAIN t \subseteq Good
  BY <1>2, <1>3, AllSubsets
<1> QED  BY <1>1, <1>4 DEF Good
=============================================================================
