------------------------- MODULE SequenceFileProofs -------------------------
(***************************************************************************)
(* Lemmas about loadLine: what Ascending enumerates, and that one call     *)
(* takes the next words of the stream, as many as the line needs.          *)
(***************************************************************************)
EXTENDS SequenceFile, NaturalLemmas, SequenceTheorems

-----------------------------------------------------------------------------
(* Ascending *)

LEMMA OrdinalType ==
  ASSUME NEW n \in Nat, NEW S \in SUBSET (1..n), NEW i \in S
  PROVE  Ordinal(S, i) \in 1..Cardinality(S) /\ Cardinality(S) \in Nat
<1> DEFINE A == {j \in S : j <= i}
<1>1. IsFiniteSet(S)
  <2>1. IsFiniteSet(1..n)
    BY FS_Interval
  <2> QED  BY <2>1, FS_Subset
<1>2. A \in SUBSET S /\ i \in A
  <2>1. i <= i
    OBVIOUS
  <2> QED  BY <2>1
<1> HIDE DEF A
<1>3. IsFiniteSet(A) /\ Cardinality(A) <= Cardinality(S) /\ Cardinality(A) \in Nat
      /\ Cardinality(S) \in Nat /\ Cardinality(A) # 0
  BY <1>1, <1>2, FS_Subset, FS_CardinalityType, FS_EmptySet
<1> QED  BY <1>3 DEF A, Ordinal

\* The entry at k has the ordinal k.
LEMMA AscendingEntries ==
  ASSUME NEW n \in Nat, NEW S \in SUBSET (1..n)
  PROVE  /\ Cardinality(S) \in Nat
         /\ Ascending(S) \in Seq(S) /\ Len(Ascending(S)) = Cardinality(S)
         /\ \A k \in 1..Cardinality(S) : /\ Ascending(S)[k] \in S
                                         /\ Ordinal(S, Ascending(S)[k]) = k
<1>1. Cardinality(S) \in Nat
  <2>1. IsFiniteSet(1..n)
    BY FS_Interval
  <2> QED  BY <2>1, FS_Subset, FS_CardinalityType
<1>2. \A k \in 1..Cardinality(S) : Ascending(S)[k] \in S /\ Ordinal(S, Ascending(S)[k]) = k
  <2> TAKE k \in 1..Cardinality(S)
  <2>1. \E i \in S : Cardinality({j \in S : j <= i}) = k
    BY OrdinalsAreAll DEF Ordinal
  <2>2. Ascending(S)[k] = CHOOSE i \in S : Cardinality({j \in S : j <= i}) = k
    BY DEF Ascending
  <2> QED  BY <2>1, <2>2 DEF Ordinal
<1>3. Ascending(S) \in Seq(S) /\ Len(Ascending(S)) = Cardinality(S)
  <2>1. Ascending(S) \in [1..Cardinality(S) -> S]
    BY <1>2 DEF Ascending
  <2>2. Ascending(S) \in Seq(S)
    BY <1>1, <2>1, SeqDef
  <2> QED  BY <1>1, <2>1, <2>2, LenProperties
<1> QED  BY <1>1, <1>2, <1>3

\* An element is known by its ordinal.
LEMMA OrdinalTells ==
  ASSUME NEW n \in Nat, NEW S \in SUBSET (1..n), NEW i \in S, NEW k \in S,
         Ordinal(S, i) = Ordinal(S, k)
  PROVE  i = k
<1>1. i \in Nat /\ k \in Nat /\ Ordinal(S, i) \in Nat
  <2>1. S \subseteq Nat
    OBVIOUS
  <2>2. Ordinal(S, i) \in 1..Cardinality(S) /\ Cardinality(S) \in Nat
    BY OrdinalType
  <2> QED  BY <2>1, <2>2
<1>2. ASSUME i < k PROVE FALSE
  <2>1. Ordinal(S, i) < Ordinal(S, k)
    BY <1>2, OrdinalIncreases
  <2> QED  BY <1>1, <2>1
<1>3. ASSUME k < i PROVE FALSE
  <2>1. Ordinal(S, k) < Ordinal(S, i)
    BY <1>3, OrdinalIncreases
  <2> QED  BY <1>1, <2>1
<1> QED  BY <1>1, <1>2, <1>3

\* The entries at some places are a sequence of elements.
LEMMA EntriesType ==
  ASSUME NEW X, NEW s \in Seq(X), NEW S \in SUBSET (1..Len(s))
  PROVE  /\ Entries(s, S) \in Seq(X) /\ Len(Entries(s, S)) = Cardinality(S)
         /\ \A k \in 1..Cardinality(S) : Entries(s, S)[k] = s[Ascending(S)[k]]
<1>0. Len(s) \in Nat /\ \A i \in 1..Len(s) : s[i] \in X
  BY LenProperties
<1>1. /\ Cardinality(S) \in Nat /\ Ascending(S) \in Seq(S)
      /\ Len(Ascending(S)) = Cardinality(S)
      /\ \A k \in 1..Cardinality(S) : Ascending(S)[k] \in S
  BY <1>0, AscendingEntries
<1>2. DOMAIN Ascending(S) = 1..Cardinality(S)
  BY <1>1, LenProperties
<1>3. Entries(s, S) = [k \in 1..Cardinality(S) |-> s[Ascending(S)[k]]]
  BY <1>2 DEF Entries
<1>4. \A k \in 1..Cardinality(S) : s[Ascending(S)[k]] \in X
  BY <1>0, <1>1
<1>5. Entries(s, S) \in [1..Cardinality(S) -> X]
  BY <1>3, <1>4
<1>6. Entries(s, S) \in Seq(X)
  BY <1>1, <1>5, SeqDef
<1>7. Len(Entries(s, S)) = Cardinality(S)
  BY <1>1, <1>5, <1>6, LenProperties
<1> QED  BY <1>3, <1>6, <1>7

LEMMA EntriesOfNone ==
  ASSUME NEW X, NEW s \in Seq(X)
  PROVE  Entries(s, {}) = <<>>
<1>1. Cardinality({}) = 0
  BY FS_EmptySet
<1>2. Entries(s, {}) \in Seq(X) /\ Len(Entries(s, {})) = 0
  BY <1>1, EntriesType
<1> QED  BY <1>2, EmptySeq

\* One place more, behind all others, is one entry more.
LEMMA EntriesAppend ==
  ASSUME NEW X, NEW s \in Seq(X), NEW S \in SUBSET (1..Len(s)), NEW e \in 1..Len(s),
         \A i \in S : i < e
  PROVE  Entries(s, S \cup {e}) = Append(Entries(s, S), s[e])
<1> DEFINE n == Len(s)
           R == S \cup {e}
           m == Cardinality(S)
<1>0. n \in Nat
  BY LenProperties
<1>1. /\ R \in SUBSET (1..n) /\ S \in SUBSET (1..n)
      /\ e \notin S /\ S \subseteq Nat /\ e \in Nat
  BY <1>0
<1>2. m \in Nat /\ Cardinality(R) = m + 1
  <2>1. IsFiniteSet(S)
    <3>1. IsFiniteSet(1..n) /\ S \in SUBSET (1..n)
      BY <1>1, FS_Interval
    <3> QED  BY <3>1, FS_Subset
  <2> QED  BY <1>1, <2>1, FS_AddElement, FS_CardinalityType
<1>3. \A i \in S : Ordinal(R, i) = Ordinal(S, i)
  <2> TAKE i \in S
  <2>1. {j \in R : j <= i} = {j \in S : j <= i}
    BY <1>1
  <2> QED  BY <2>1 DEF Ordinal
<1>4. Ordinal(R, e) = m + 1
  <2>1. \A j \in R : j <= e
    BY <1>1
  <2>2. {j \in R : j <= e} = R
    BY <2>1
  <2> QED  BY <1>2, <2>2 DEF Ordinal
<1> HIDE DEF R, m, n
<1>5. /\ \A k \in 1..m : Ascending(S)[k] \in S /\ Ordinal(S, Ascending(S)[k]) = k
      /\ \A k \in 1..m + 1 : Ascending(R)[k] \in R /\ Ordinal(R, Ascending(R)[k]) = k
  <2>1. \A k \in 1..m : Ascending(S)[k] \in S /\ Ordinal(S, Ascending(S)[k]) = k
    BY <1>0, <1>1, AscendingEntries DEF m
  <2>2. \A k \in 1..m + 1 : Ascending(R)[k] \in R /\ Ordinal(R, Ascending(R)[k]) = k
    BY <1>0, <1>1, <1>2, AscendingEntries
  <2> QED  BY <2>1, <2>2
<1>6. \A k \in 1..m : Ascending(R)[k] = Ascending(S)[k]
  <2> TAKE k \in 1..m
  <2>1. k \in 1..m + 1
    BY <1>2
  <2>2. Ascending(S)[k] \in R /\ Ascending(R)[k] \in R
    BY <1>5, <2>1 DEF R
  <2>3. Ordinal(R, Ascending(S)[k]) = Ordinal(R, Ascending(R)[k])
    BY <1>3, <1>5, <2>1
  <2> QED  BY <1>0, <1>1, <2>2, <2>3, OrdinalTells
<1>7. Ascending(R)[m + 1] = e
  <2>1. m + 1 \in 1..m + 1
    BY <1>2
  <2>2. e \in R /\ Ascending(R)[m + 1] \in R
    BY <1>5, <2>1 DEF R
  <2>3. Ordinal(R, Ascending(R)[m + 1]) = Ordinal(R, e)
    BY <1>4, <1>5, <2>1
  <2> QED  BY <1>0, <1>1, <2>2, <2>3, OrdinalTells
<1> DEFINE short == Entries(s, S)
           long == Entries(s, R)
<1>8. /\ short \in Seq(X) /\ Len(short) = m
      /\ \A k \in 1..m : short[k] = s[Ascending(S)[k]]
  BY EntriesType DEF m
<1>9. /\ long \in Seq(X) /\ Len(long) = m + 1
      /\ \A k \in 1..m + 1 : long[k] = s[Ascending(R)[k]]
  <2>1. /\ long \in Seq(X) /\ Len(long) = Cardinality(R)
        /\ \A k \in 1..Cardinality(R) : long[k] = s[Ascending(R)[k]]
    BY <1>1, EntriesType DEF n
  <2> QED  BY <1>2, <2>1
<1> HIDE DEF short, long
<1>10. s[e] \in X
  BY LenProperties
<1>11. /\ Append(short, s[e]) \in Seq(X) /\ Len(Append(short, s[e])) = m + 1
       /\ \A k \in 1..m : Append(short, s[e])[k] = short[k]
       /\ Append(short, s[e])[m + 1] = s[e]
  BY <1>8, <1>10, AppendProperties
<1>12. \A k \in 1..m + 1 : long[k] = Append(short, s[e])[k]
  <2> TAKE k \in 1..m + 1
  <2>1. CASE k \in 1..m
    BY <1>6, <1>8, <1>9, <1>11, <2>1
  <2>2. CASE k = m + 1
    BY <1>7, <1>9, <1>11, <2>2
  <2>3. k \in 1..m \/ k = m + 1
    BY <1>2
  <2> QED  BY <2>1, <2>2, <2>3
<1>13. long = Append(short, s[e])
  BY <1>9, <1>11, <1>12, SeqEqual
<1> QED  BY <1>13 DEF long, short, R

\* What is behind the entry at m: m elements fewer, each of an ordinal less by m.
LEMMA AscendingSuffix ==
  ASSUME NEW n \in Nat, NEW S \in SUBSET (1..n), NEW m \in 1..Cardinality(S),
         NEW R \in SUBSET S, \A i \in S : i \in R <=> i > Ascending(S)[m]
  PROVE  /\ Cardinality(R) = Cardinality(S) - m
         /\ \A k \in 1..Cardinality(R) : Ascending(R)[k] = Ascending(S)[m + k]
<1> DEFINE p == Ascending(S)[m]
           B == {j \in S : j <= p}
<1>0. Cardinality(S) \in Nat /\ S \subseteq Nat
  <2>1. Cardinality(S) \in Nat
    BY AscendingEntries
  <2>2. 1..n \subseteq Nat
    OBVIOUS
  <2> QED  BY <2>1, <2>2
<1>1. p \in S /\ p \in Nat /\ Cardinality(B) = m /\ m \in Nat
  <2>1. p \in S /\ Ordinal(S, p) = m
    BY AscendingEntries
  <2>2. m \in Nat
    BY <1>0
  <2>3. Ordinal(S, p) = Cardinality(B)
    BY DEF Ordinal
  <2> HIDE DEF p, B
  <2> QED  BY <1>0, <2>1, <2>2, <2>3
<1>2. IsFiniteSet(S)
  <2>1. IsFiniteSet(1..n)
    BY FS_Interval
  <2> QED  BY <2>1, FS_Subset
<1>3. R \in SUBSET (1..n) /\ R \in SUBSET S /\ B \in SUBSET S /\ R = S \ B
  <2>1. R = {i \in S : i > p}
    OBVIOUS
  <2>2. \A i \in S : i > p <=> ~(i <= p)
    <3> HIDE DEF p
    <3> QED  BY <1>0, <1>1
  <2> HIDE DEF p
  <2> QED  BY <2>1, <2>2
<1> HIDE DEF p, B
<1>4. Cardinality(R) = Cardinality(S) - m /\ Cardinality(R) \in Nat
  <2>1. S \cap B = B
    BY <1>3
  <2>2. Cardinality(S \ B) = Cardinality(S) - Cardinality(S \cap B)
    BY <1>2, FS_Difference
  <2>3. IsFiniteSet(R)
    BY <1>2, <1>3, FS_Subset
  <2>4. Cardinality(R) \in Nat
    BY <2>3, FS_CardinalityType
  <2> QED  BY <1>1, <1>3, <2>1, <2>2, <2>4
<1>5. ASSUME NEW i \in R PROVE Ordinal(S, i) = m + Ordinal(R, i)
  <2> DEFINE C == {j \in S : j <= i}
             A == {j \in R : j <= i}
  <2>1. C \in SUBSET S /\ B \in SUBSET C /\ A = C \ B
    <3>1. i \in Nat /\ i > p
      BY <1>0 DEF p
    <3>2. \A j \in S : j <= p => j <= i
      BY <1>0, <1>1, <3>1
    <3>3. B \in SUBSET C
      BY <3>2 DEF B
    <3>4. A = C \ B
      BY <1>3
    <3> QED  BY <3>3, <3>4
  <2>2. IsFiniteSet(C) /\ C \cap B = B
    BY <1>2, <2>1, FS_Subset
  <2> HIDE DEF C, A
  <2>3. Cardinality(A) = Cardinality(C) - m /\ Cardinality(C) \in Nat
    BY <1>1, <2>1, <2>2, FS_Difference, FS_CardinalityType
  <2> QED  BY <1>1, <2>3 DEF C, A, Ordinal
<1>6. ASSUME NEW k \in 1..Cardinality(R) PROVE Ascending(R)[k] = Ascending(S)[m + k]
  <2>1. Ascending(R)[k] \in R /\ Ordinal(R, Ascending(R)[k]) = k
    BY <1>3, AscendingEntries
  <2>2. Ordinal(S, Ascending(R)[k]) = m + k /\ Ascending(R)[k] \in S
    BY <1>3, <1>5, <2>1
  <2>3. m + k \in 1..Cardinality(S)
    BY <1>0, <1>1, <1>4
  <2>4. Ascending(S)[m + k] \in S /\ Ordinal(S, Ascending(S)[m + k]) = m + k
    BY <2>3, AscendingEntries
  <2> QED  BY <2>2, <2>4, OrdinalTells
<1> QED  BY <1>4, <1>6

-----------------------------------------------------------------------------
(* The words of a stream *)

LEMMA PlacesAre ==
  ASSUME NEW stream \in Streams, NEW at \in Nat
  PROVE  LET S == {i \in at + 1 .. Len(stream.words) : MayReturn(stream, i)}
         IN /\ Len(stream.words) \in Nat /\ S \in SUBSET (1..Len(stream.words))
            /\ Places(stream, at) = Ascending(S)
            /\ Places(stream, at) \in Seq(1..Len(stream.words))
            /\ Len(Places(stream, at)) = Cardinality(S) /\ Cardinality(S) \in Nat
<1> DEFINE n == Len(stream.words)
           S == {i \in at + 1 .. n : MayReturn(stream, i)}
<1>1. n \in Nat
  BY LenProperties DEF Streams
<1>2. S \in SUBSET (1..n)
  BY <1>1
<1>3. Places(stream, at) = Ascending(S)
  BY DEF Places
<1> HIDE DEF S
<1>4. Ascending(S) \in Seq(S) /\ Len(Ascending(S)) = Cardinality(S) /\ Cardinality(S) \in Nat
  BY <1>1, <1>2, AscendingEntries
<1>5. Ascending(S) \in Seq(1..n)
  <2>1. \A k \in 1..Len(Ascending(S)) : Ascending(S)[k] \in 1..n
    BY <1>2, <1>4, LenProperties
  <2> QED  BY <1>4, <2>1, LenProperties, IsASeq
<1> QED  BY <1>1, <1>2, <1>3, <1>4, <1>5 DEF S

\* After the word at the m-th place the same words are left, but for the first m.
LEMMA PlacesLeft ==
  ASSUME NEW stream \in Streams, NEW at \in Nat, NEW m \in 1..Len(Places(stream, at)),
         NEW to, to = Places(stream, at)[m]
  PROVE  /\ to \in 1..Len(stream.words)
         /\ Len(Places(stream, to)) = Len(Places(stream, at)) - m
         /\ \A k \in 1..Len(Places(stream, to)) :
              Places(stream, to)[k] = Places(stream, at)[m + k]
<1> DEFINE n == Len(stream.words)
           S == {i \in at + 1 .. n : MayReturn(stream, i)}
           R == {i \in to + 1 .. n : MayReturn(stream, i)}
<1>1. /\ n \in Nat /\ S \in SUBSET (1..n) /\ Places(stream, at) = Ascending(S)
      /\ Len(Places(stream, at)) = Cardinality(S) /\ Cardinality(S) \in Nat
  BY PlacesAre
<1>2. to \in S /\ to \in Nat /\ at < to
  <2>1. to \in S
    <3> HIDE DEF S
    <3> QED  BY <1>1, AscendingEntries
  <2> QED  BY <1>1, <2>1
<1>3. Places(stream, to) = Ascending(R) /\ Len(Places(stream, to)) = Cardinality(R)
  BY <1>2, PlacesAre
<1>4. R = {i \in S : i > to}
  <2>1. \A i \in to + 1 .. n : i \in at + 1 .. n /\ i > to
    BY <1>1, <1>2
  <2>2. \A i \in at + 1 .. n : i > to => i \in to + 1 .. n
    BY <1>1, <1>2
  <2> QED  BY <2>1, <2>2
<1> HIDE DEF S, R
<1>5. to = Ascending(S)[m] /\ m \in 1..Cardinality(S)
  BY <1>1
<1>6. R \in SUBSET S /\ \A i \in S : i \in R <=> i > Ascending(S)[m]
  BY <1>4, <1>5
<1>7. /\ Cardinality(R) = Cardinality(S) - m
      /\ \A k \in 1..Cardinality(R) : Ascending(R)[k] = Ascending(S)[m + k]
  <2>1. n \in Nat /\ S \in SUBSET (1..n) /\ m \in 1..Cardinality(S)
    BY <1>1, <1>5
  <2> HIDE DEF n
  <2> QED  BY <1>6, <2>1, AscendingSuffix
<1> QED  BY <1>1, <1>2, <1>3, <1>7

\* Nothing is left at the end.
LEMMA NoPlacesLeft ==
  ASSUME NEW stream \in Streams
  PROVE  Places(stream, Len(stream.words)) = <<>> /\ Len(Places(stream, Len(stream.words))) = 0
<1> DEFINE n == Len(stream.words)
           S == {i \in n + 1 .. n : MayReturn(stream, i)}
<1>1. n \in Nat
  BY LenProperties DEF Streams
<1>2. S = {}
  BY <1>1
<1>3. /\ Len(Places(stream, n)) = Cardinality(S)
      /\ Places(stream, n) \in Seq(1..n)
  BY <1>1, PlacesAre
<1>4. Len(Places(stream, n)) = 0
  BY <1>2, <1>3, FS_EmptySet
<1> QED  BY <1>3, <1>4, EmptySeq

-----------------------------------------------------------------------------
(* loadLine *)

Named(terminals, nameless) ==
  Entries(terminals, {i \in DOMAIN terminals : terminals[i] # nameless})

LEMMA NamedType ==
  ASSUME NEW X, NEW terminals \in Seq(X), NEW nameless
  PROVE  /\ Len(Named(terminals, nameless)) \in Nat
         /\ DOMAIN Named(terminals, nameless) = 1..Len(Named(terminals, nameless))
<1> DEFINE n == Len(terminals)
           S == {i \in DOMAIN terminals : terminals[i] # nameless}
           names == Named(terminals, nameless)
<1>1. n \in Nat /\ DOMAIN terminals = 1..n
  BY LenProperties
<1>2. S \in SUBSET (1..n)
  BY <1>1
<1> HIDE DEF S
<1>3. /\ Cardinality(S) \in Nat /\ DOMAIN Ascending(S) = 1..Cardinality(S)
      /\ \A k \in 1..Cardinality(S) : Ascending(S)[k] \in S
  BY <1>1, <1>2, AscendingEntries, LenProperties
<1>4. names = [k \in 1..Cardinality(S) |-> terminals[Ascending(S)[k]]]
  BY <1>3 DEF Named, Entries, S
<1>5. names \in [1..Cardinality(S) -> {terminals[i] : i \in S}]
  BY <1>3, <1>4
<1>6. names \in Seq({terminals[i] : i \in S})
  BY <1>3, <1>5, SeqDef
<1> HIDE DEF names
<1>7. Len(names) \in Nat /\ DOMAIN names = 1..Len(names)
  BY <1>6, LenProperties
<1> QED  BY <1>7 DEF names

\* The line that the words at some places make
LineOfWords(stream, names, size, places, before) ==
  [j \in 1..Len(names) |->
     Observed(names[j],
              [k \in 1..size |-> stream.words[places[before + size * (j - 1) + k]]])]

\* One call takes the words of one line, or comes to the end.
LineTaken(stream, at, terminals, nameless, simple) ==
  LET size == IF simple THEN 1 ELSE 3
      names == Named(terminals, nameless)
      left == Places(stream, at)
      read == LoadLine(stream, at, terminals, nameless, simple)
  IN /\ read.at \in 0..Len(stream.words)
     /\ read.status \in {"OK", "ERR_EOF", "ERR_READINGFILE"}
     /\ read.status = "OK" =>
          /\ Len(left) >= size * Len(names)
          /\ Len(Places(stream, read.at)) = Len(left) - size * Len(names)
          /\ \A k \in 1..Len(Places(stream, read.at)) :
               Places(stream, read.at)[k] = left[size * Len(names) + k]
          /\ read.line = LineOfWords(stream, names, size, left, 0)
     /\ read.status # "OK" =>
          /\ Len(left) < size * Len(names) /\ read.at = Len(stream.words)
     /\ read.status = "ERR_EOF" => Len(left) = 0
     /\ read.status = "ERR_READINGFILE" => (Len(left) = 0 => terminals[1] = nameless)

LEMMA LineRead ==
  ASSUME NEW stream \in Streams, NEW at \in 0..Len(stream.words),
         NEW X, NEW terminals \in Seq(X), NEW nameless, NEW simple \in BOOLEAN
  PROVE  LineTaken(stream, at, terminals, nameless, simple)
<1> DEFINE size == IF simple THEN 1 ELSE 3
           names == Named(terminals, nameless)
           left == Places(stream, at)
           read == LoadLine(stream, at, terminals, nameless, simple)
<1> SUFFICES
      /\ read.at \in 0..Len(stream.words)
      /\ read.status \in {"OK", "ERR_EOF", "ERR_READINGFILE"}
      /\ read.status = "OK" =>
           /\ Len(left) >= size * Len(names)
           /\ Len(Places(stream, read.at)) = Len(left) - size * Len(names)
           /\ \A k \in 1..Len(Places(stream, read.at)) :
                Places(stream, read.at)[k] = left[size * Len(names) + k]
           /\ read.line = LineOfWords(stream, names, size, left, 0)
      /\ read.status # "OK" =>
           /\ Len(left) < size * Len(names) /\ read.at = Len(stream.words)
      /\ read.status = "ERR_EOF" => Len(left) = 0
      /\ read.status = "ERR_READINGFILE" => (Len(left) = 0 => terminals[1] = nameless)
  BY DEF LineTaken
<1> DEFINE c == size * Len(names)
           whole == Len(left) >= c
           count == IF whole THEN Len(names) ELSE Len(left) \div size
<1>1. /\ read.status = IF whole THEN "OK"
                        ELSE IF left = <<>> /\ terminals[1] # nameless THEN "ERR_EOF"
                        ELSE "ERR_READINGFILE"
      /\ read.at = IF ~whole THEN Len(stream.words)
                   ELSE IF names = <<>> THEN at ELSE left[size * count]
      /\ read.line = [j \in 1..count |->
                        Observed(names[j],
                                 [k \in 1..size |-> stream.words[left[size * (j - 1) + k]]])]
  BY DEF LoadLine, Named
<1>2. Len(names) \in Nat /\ DOMAIN names = 1..Len(names) /\ size \in {1, 3}
  BY NamedType
<1> HIDE DEF size, names, read
<1>3. c \in Nat /\ (names # <<>> => c > 0) /\ (names = <<>> => c = 0)
  <2>1. Len(names) = 0 <=> names = <<>>
    <3>1. names = <<>> => Len(names) = 0
      BY EmptySeq
    <3>2. Len(names) = 0 => names = <<>>
      BY <1>2
    <3> QED  BY <3>1, <3>2
  <2>2. CASE size = 1
    BY <1>2, <2>1, <2>2
  <2>3. CASE size = 3
    BY <1>2, <2>1, <2>3
  <2> QED  BY <1>2, <2>2, <2>3
<1>4. /\ Len(stream.words) \in Nat /\ at \in Nat /\ left \in Seq(1..Len(stream.words))
      /\ Len(left) \in Nat
  <2>1. Len(stream.words) \in Nat
    BY LenProperties DEF Streams
  <2>2. at \in Nat
    BY <2>1
  <2>3. left \in Seq(1..Len(stream.words))
    BY <2>2, PlacesAre
  <2> QED  BY <2>1, <2>2, <2>3, LenProperties
<1> HIDE DEF left
<1>5. left = <<>> <=> Len(left) = 0
  BY <1>4, EmptySeq
<1> HIDE DEF c
<1>6. CASE ~whole
  <2>1. Len(left) < c
    BY <1>3, <1>4, <1>6
  <2>2. read.at = Len(stream.words)
    BY <1>1, <1>6
  <2>3. read.status = IF left = <<>> /\ terminals[1] # nameless THEN "ERR_EOF"
                      ELSE "ERR_READINGFILE"
    BY <1>1, <1>6
  <2>4. Len(stream.words) \in 0..Len(stream.words)
    BY <1>4
  <2> HIDE DEF whole, count
  <2>5. /\ read.status \in {"ERR_EOF", "ERR_READINGFILE"}
        /\ read.status = "ERR_EOF" => Len(left) = 0
        /\ read.status = "ERR_READINGFILE" => (Len(left) = 0 => terminals[1] = nameless)
    BY <1>5, <2>3
  <2> QED  BY <2>1, <2>2, <2>4, <2>5 DEF c
<1>7. CASE whole
  <2>1. read.status = "OK" /\ count = Len(names)
    BY <1>1, <1>7
  <2>2. read.line = LineOfWords(stream, names, size, left, 0)
    <3>1. \A j \in 1..Len(names), k \in 1..size :
            0 + size * (j - 1) + k = size * (j - 1) + k
      BY <1>2
    <3>2. read.line = [j \in 1..Len(names) |->
                         Observed(names[j],
                           [k \in 1..size |-> stream.words[left[size * (j - 1) + k]]])]
      BY <1>1, <2>1
    <3>3. \A j \in 1..Len(names) :
            [k \in 1..size |-> stream.words[left[size * (j - 1) + k]]]
              = [k \in 1..size |-> stream.words[left[0 + size * (j - 1) + k]]]
      BY <3>1
    <3> QED  BY <3>2, <3>3 DEF LineOfWords
  <2>3. CASE names = <<>>
    <3>1. read.at = at /\ c = 0
      BY <1>1, <1>3, <1>7, <2>3
    <3>2. Places(stream, read.at) = left /\ Len(left) = Len(left) - c
      BY <1>4, <3>1 DEF left
    <3>3. \A k \in 1..Len(left) : left[k] = left[c + k]
      BY <3>1
    <3> QED  BY <1>7, <2>1, <2>2, <3>1, <3>2, <3>3 DEF c
  <2>4. CASE names # <<>>
    <3>1. read.at = left[c] /\ c \in 1..Len(left)
      <4>1. read.at = left[size * count]
        BY <1>1, <1>7, <2>4
      <4>2. c \in 1..Len(left)
        BY <1>3, <1>4, <1>7, <2>4
      <4> HIDE DEF whole, count
      <4> QED  BY <2>1, <4>1, <4>2 DEF c
    <3>2. /\ read.at \in 1..Len(stream.words)
          /\ Len(Places(stream, read.at)) = Len(left) - c
          /\ \A k \in 1..Len(Places(stream, read.at)) :
               Places(stream, read.at)[k] = left[c + k]
      <4>1. c \in 1..Len(Places(stream, at)) /\ read.at = Places(stream, at)[c]
        BY <3>1 DEF left
      <4>2. at \in Nat
        BY <1>4
      <4> HIDE DEF whole, count
      <4>3. /\ read.at \in 1..Len(stream.words)
            /\ Len(Places(stream, read.at)) = Len(Places(stream, at)) - c
            /\ \A k \in 1..Len(Places(stream, read.at)) :
                 Places(stream, read.at)[k] = Places(stream, at)[c + k]
        BY <4>1, <4>2, PlacesLeft
      <4> QED  BY <4>3 DEF left
    <3>3. read.at \in 0..Len(stream.words)
      BY <1>4, <3>2
    <3> QED  BY <1>7, <2>1, <2>2, <3>2, <3>3 DEF c
  <2> QED  BY <2>3, <2>4
<1> QED  BY <1>6, <1>7

-----------------------------------------------------------------------------
(* The loops that call loadLine *)

\* The lines that were read are made of the words of the stream, one after the other,
\* and the words that are left follow them.
ReadSoFar(stream, at, lines, names, size) ==
  LET all == Places(stream, 0)
      left == Places(stream, at)
      used == Len(lines) * (size * Len(names))
  IN /\ at \in 0..Len(stream.words)
     /\ lines \in Seq({LineOfWords(stream, names, size, all, before) : before \in Nat})
     /\ \A p \in 1..Len(lines) :
          lines[p] = LineOfWords(stream, names, size, all, (p - 1) * (size * Len(names)))
     /\ Len(all) = used + Len(left)
     /\ \A k \in 1..Len(left) : left[k] = all[used + k]

LEMMA NothingRead ==
  ASSUME NEW stream \in Streams, NEW names, Len(names) \in Nat, NEW size \in {1, 3}
  PROVE  ReadSoFar(stream, 0, <<>>, names, size)
<1>1. Len(stream.words) \in Nat
  BY LenProperties DEF Streams
<1>2. Len(Places(stream, 0)) \in Nat
  BY PlacesAre, LenProperties
<1>3. 0 \in 0..Len(stream.words)
  BY <1>1
<1> DEFINE c == size * Len(names)
<1>4. c \in Nat
  OBVIOUS
<1>5. Len(<<>>) * c = 0 /\ 1..Len(<<>>) = {}
  BY <1>4
<1> HIDE DEF c
<1>6. Len(Places(stream, 0)) = Len(<<>>) * c + Len(Places(stream, 0))
  BY <1>2, <1>5
<1>7. \A k \in 1..Len(Places(stream, 0)) :
        Places(stream, 0)[k] = Places(stream, 0)[Len(<<>>) * c + k]
  BY <1>2, <1>5
<1>8. \A p \in 1..Len(<<>>) :
        <<>>[p] = LineOfWords(stream, names, size, Places(stream, 0), (p - 1) * c)
  BY <1>5
<1>9. <<>> \in Seq({LineOfWords(stream, names, size, Places(stream, 0), before) : before \in Nat})
  BY EmptySeq
<1> QED  BY <1>3, <1>6, <1>7, <1>8, <1>9 DEF ReadSoFar, c

LEMMA OneMoreRead ==
  ASSUME NEW stream \in Streams, NEW at \in 0..Len(stream.words),
         NEW X, NEW terminals \in Seq(X), NEW nameless, NEW simple \in BOOLEAN,
         NEW size, size = IF simple THEN 1 ELSE 3,
         NEW names, names = Named(terminals, nameless),
         NEW read, read = LoadLine(stream, at, terminals, nameless, simple),
         NEW lines, ReadSoFar(stream, at, lines, names, size), read.status = "OK"
  PROVE  ReadSoFar(stream, read.at, Append(lines, read.line), names, size)
<1> DEFINE all == Places(stream, 0)
           left == Places(stream, at)
           right == Places(stream, read.at)
           c == size * Len(names)
           used == Len(lines) * c
           more == Append(lines, read.line)
           AllLines == {LineOfWords(stream, names, size, all, before) : before \in Nat}
<1>1. /\ read.at \in 0..Len(stream.words)
      /\ Len(left) >= c /\ Len(right) = Len(left) - c
      /\ \A k \in 1..Len(right) : right[k] = left[c + k]
      /\ read.line = LineOfWords(stream, names, size, left, 0)
  <2>1. LineTaken(stream, at, terminals, nameless, simple)
    BY LineRead
  <2>2. /\ names = Named(terminals, nameless) /\ size = (IF simple THEN 1 ELSE 3)
        /\ read = LoadLine(stream, at, terminals, nameless, simple)
    OBVIOUS
  <2> QED  BY <2>1, <2>2 DEF LineTaken
<1>2. Len(names) \in Nat /\ size \in {1, 3} /\ c \in Nat
  <2>1. Len(names) \in Nat
    BY NamedType
  <2>2. size \in {1, 3}
    OBVIOUS
  <2> QED  BY <2>1, <2>2
<1>3. /\ lines \in Seq(AllLines) /\ Len(lines) \in Nat
      /\ \A p \in 1..Len(lines) :
           lines[p] = LineOfWords(stream, names, size, all, (p - 1) * c)
      /\ Len(all) = used + Len(left)
      /\ \A k \in 1..Len(left) : left[k] = all[used + k]
  <2>1. lines \in Seq(AllLines)
    BY DEF ReadSoFar
  <2>2. Len(lines) \in Nat
    BY <2>1, LenProperties
  <2> QED  BY <2>1, <2>2 DEF ReadSoFar
<1>4. Len(left) \in Nat /\ Len(right) \in Nat
  <2>1. Len(stream.words) \in Nat
    BY LenProperties DEF Streams
  <2>2. at \in Nat /\ read.at \in Nat
    BY <1>1, <2>1
  <2> QED  BY <2>2, PlacesAre, LenProperties
<1>5. used \in Nat
  <2> HIDE DEF c
  <2> QED  BY <1>2, <1>3
<1>6. read.line = LineOfWords(stream, names, size, all, used)
  <2>1. ASSUME NEW j \in 1..Len(names), NEW k \in 1..size
        PROVE  left[0 + size * (j - 1) + k] = all[used + size * (j - 1) + k]
    <3> DEFINE i == size * (j - 1) + k
    <3>1. i \in 1..Len(left) /\ 0 + size * (j - 1) + k = i
      <4>1. CASE size = 1
        BY <1>1, <1>2, <1>4, <4>1
      <4>2. CASE size = 3
        BY <1>1, <1>2, <1>4, <4>2
      <4> QED  BY <1>2, <4>1, <4>2
    <3>2. used + size * (j - 1) + k = used + i
      <4>1. size * (j - 1) \in Int /\ k \in Int
        BY <1>2
      <4> HIDE DEF used
      <4> QED  BY <1>5, <4>1
    <3> HIDE DEF used, all, left, i
    <3>3. left[i] = all[used + i]
      BY <1>3, <3>1
    <3> QED  BY <3>1, <3>2, <3>3
  <2> HIDE DEF used, all, left
  <2>2. \A j \in 1..Len(names) :
          [k \in 1..size |-> stream.words[left[0 + size * (j - 1) + k]]]
            = [k \in 1..size |-> stream.words[all[used + size * (j - 1) + k]]]
    BY <2>1
  <2> QED  BY <1>1, <2>2 DEF LineOfWords
<1> HIDE DEF used, all, left, right, AllLines
<1>7. read.line \in AllLines
  BY <1>5, <1>6 DEF AllLines
<1>8. /\ more \in Seq(AllLines) /\ Len(more) = Len(lines) + 1
      /\ \A p \in 1..Len(lines) : more[p] = lines[p]
      /\ more[Len(lines) + 1] = read.line
  BY <1>3, <1>7, AppendProperties
<1> HIDE DEF more
<1>9. Len(more) * c = used + c
  <2> HIDE DEF c
  <2> QED  BY <1>2, <1>3, <1>8 DEF used
<1>10. \A p \in 1..Len(more) :
         more[p] = LineOfWords(stream, names, size, all, (p - 1) * c)
  <2> TAKE p \in 1..Len(more)
  <2>1. CASE p \in 1..Len(lines)
    BY <1>3, <1>8, <2>1
  <2>2. CASE p = Len(lines) + 1
    <3>1. p - 1 = Len(lines)
      BY <1>3, <2>2
    <3> HIDE DEF c
    <3> QED  BY <1>6, <1>8, <2>2, <3>1 DEF used
  <2>3. p \in 1..Len(lines) \/ p = Len(lines) + 1
    BY <1>3, <1>8
  <2> QED  BY <2>1, <2>2, <2>3
<1> HIDE DEF c
<1>11. Len(all) = Len(more) * c + Len(right)
  <2>1. Len(all) = used + Len(left)
    BY <1>3
  <2>2. Len(right) = Len(left) - c
    BY <1>1
  <2>3. c \in Nat
    BY <1>2
  <2> DEFINE total == Len(more) * c
  <2>4. total = used + c
    BY <1>9
  <2> HIDE DEF total
  <2>5. Len(all) = total + Len(right)
    BY <1>4, <1>5, <2>1, <2>2, <2>3, <2>4
  <2> QED  BY <2>5 DEF total
<1>12. ASSUME NEW k \in 1..Len(right) PROVE right[k] = all[Len(more) * c + k]
  <2>1. right[k] = left[c + k]
    BY <1>1
  <2>2. c + k \in 1..Len(left) /\ used + c + k = used + (c + k)
    BY <1>1, <1>2, <1>4, <1>5
  <2> QED  BY <1>3, <1>9, <2>1, <2>2
<1>13. ReadSoFar(stream, read.at, more, names, size)
  BY <1>1, <1>8, <1>10, <1>11, <1>12 DEF ReadSoFar, c, all, right, AllLines
<1> QED  BY <1>13 DEF more

-----------------------------------------------------------------------------
(* What follows for the words of the whole stream *)

LEMMA WordsAre ==
  ASSUME NEW stream \in Streams, NEW at \in Nat
  PROVE  /\ Len(Places(stream, at)) \in Nat
         /\ Len(WordsLeft(stream, at)) = Len(Places(stream, at))
         /\ \A k \in 1..Len(Places(stream, at)) :
              WordsLeft(stream, at)[k] = stream.words[Places(stream, at)[k]]
<1> DEFINE places == Places(stream, at)
           n == Len(places)
           found == {stream.words[i] : i \in 1..Len(stream.words)}
           words == WordsLeft(stream, at)
<1>1. places \in Seq(1..Len(stream.words))
  BY PlacesAre
<1> HIDE DEF places
<1>2. n \in Nat /\ DOMAIN places = 1..n /\ \A k \in 1..n : places[k] \in 1..Len(stream.words)
  BY <1>1, LenProperties
<1>3. words = [k \in 1..n |-> stream.words[places[k]]]
  BY <1>2 DEF WordsLeft, places
<1> HIDE DEF n
<1>4. words \in [1..n -> found]
  BY <1>2, <1>3
<1>5. words \in Seq(found)
  BY <1>2, <1>4, SeqDef
<1>6. Len(words) = n
  BY <1>2, <1>4, <1>5, LenProperties
<1> QED  BY <1>2, <1>3, <1>6 DEF places, n, words

\* The words of an entry of a line
EntryWords(stream, count, size, p, j) ==
  [k \in 1..size |-> WordsLeft(stream, 0)[((p - 1) * count + j - 1) * size + k]]

\* A line is made of its own words.
LineIsWritten(stream, lines, names, size, p) ==
  /\ DOMAIN lines[p] = 1..Len(names)
  /\ \A j \in 1..Len(names) :
       LET words == EntryWords(stream, Len(names), size, p, j)
       IN /\ words \in Seq(Words) /\ Len(words) = size
          /\ lines[p][j] = Observed(names[j], words)

LEMMA EntriesAreTheirs ==
  ASSUME NEW stream \in Streams, NEW at \in 0..Len(stream.words), NEW lines, NEW names,
         NEW size \in {1, 3}, Len(names) \in Nat, ReadSoFar(stream, at, lines, names, size),
         NEW p \in 1..Len(lines)
  PROVE  LineIsWritten(stream, lines, names, size, p)
<1> DEFINE all == Places(stream, 0)
           count == Len(names)
           c == size * count
           line == lines[p]
<1>1. /\ line = LineOfWords(stream, names, size, all, (p - 1) * c)
      /\ Len(all) = Len(lines) * c + Len(Places(stream, at))
      /\ Len(lines) \in Nat
  <2>1. lines \in Seq({LineOfWords(stream, names, size, all, before) : before \in Nat})
    BY DEF ReadSoFar
  <2> QED  BY <2>1, LenProperties DEF ReadSoFar
<1>2. Len(Places(stream, at)) \in Nat /\ Len(all) \in Nat
  <2>1. Len(stream.words) \in Nat
    BY LenProperties DEF Streams
  <2>2. at \in Nat
    BY <2>1
  <2> QED  BY <2>2, WordsAre
<1>3. c \in Nat /\ p \in Nat /\ p <= Len(lines) /\ p >= 1
  BY <1>1
<1>4. p * c <= Len(all) /\ (p - 1) * c \in Nat /\ p * c = (p - 1) * c + c
  <2> HIDE DEF c
  <2>1. (Len(lines) - p) * c \in Nat
    BY <1>1, <1>3
  <2>2. Len(lines) * c = p * c + (Len(lines) - p) * c
    BY <1>1, <1>3
  <2>3. p * c \in Nat /\ (p - 1) * c \in Nat /\ p * c = (p - 1) * c + c
    BY <1>3
  <2> QED  BY <1>1, <1>2, <2>1, <2>2, <2>3
<1>5. ASSUME NEW j \in 1..count, NEW k \in 1..size
      PROVE  /\ stream.words[all[(p - 1) * c + size * (j - 1) + k]]
                  = WordsLeft(stream, 0)[((p - 1) * count + j - 1) * size + k]
             /\ WordsLeft(stream, 0)[((p - 1) * count + j - 1) * size + k] \in Words
  <2> DEFINE i == (p - 1) * c + size * (j - 1) + k
  <2>1. i = ((p - 1) * count + j - 1) * size + k
    <3>1. CASE size = 1
      BY <1>3, <3>1
    <3>2. CASE size = 3
      BY <1>3, <3>2
    <3> QED  BY <3>1, <3>2
  <2>2. i \in 1..Len(all)
    <3>1. size * (j - 1) + k \in 1..c
      <4>1. CASE size = 1
        BY <4>1
      <4>2. CASE size = 3
        BY <4>2
      <4> QED  BY <4>1, <4>2
    <3>2. i = (p - 1) * c + (size * (j - 1) + k)
      <4>1. size * (j - 1) \in Int /\ k \in Int
        OBVIOUS
      <4> HIDE DEF c
      <4> QED  BY <1>4, <4>1
    <3> HIDE DEF c, i
    <3> QED  BY <1>2, <1>3, <1>4, <3>1, <3>2
  <2> HIDE DEF i
  <2>3. WordsLeft(stream, 0)[i] = stream.words[all[i]]
    BY <2>2, WordsAre
  <2>4. stream.words[all[i]] \in Words
    <3>1. all \in Seq(1..Len(stream.words)) /\ stream.words \in Seq(Words)
      BY PlacesAre DEF Streams
    <3> HIDE DEF all
    <3>2. all[i] \in 1..Len(stream.words)
      BY <2>2, <3>1, LenProperties
    <3> QED  BY <3>1, <3>2, LenProperties
  <2> QED  BY <2>1, <2>3, <2>4 DEF i
<1> HIDE DEF c, all
<1>6. \A j \in 1..count :
        line[j] = Observed(names[j],
                    [k \in 1..size |-> stream.words[all[(p - 1) * c + size * (j - 1) + k]]])
  BY <1>1 DEF LineOfWords
<1>7. \A j \in 1..count :
        [k \in 1..size |-> stream.words[all[(p - 1) * c + size * (j - 1) + k]]]
          = EntryWords(stream, count, size, p, j)
        /\ EntryWords(stream, count, size, p, j) \in [1..size -> Words]
  BY <1>5 DEF EntryWords
<1>8. DOMAIN line = 1..count
  BY <1>1 DEF LineOfWords
<1>9. ASSUME NEW j \in 1..count
      PROVE  /\ EntryWords(stream, count, size, p, j) \in Seq(Words)
             /\ Len(EntryWords(stream, count, size, p, j)) = size
  <2>1. EntryWords(stream, count, size, p, j) \in [1..size -> Words] /\ size \in Nat
    BY <1>7
  <2>2. EntryWords(stream, count, size, p, j) \in Seq(Words)
    BY <2>1, SeqDef
  <2>3. DOMAIN EntryWords(stream, count, size, p, j) = 1..size
    BY DEF EntryWords
  <2> QED  BY <2>1, <2>2, <2>3, LenProperties
<1> QED  BY <1>6, <1>7, <1>8, <1>9 DEF LineIsWritten
=============================================================================
