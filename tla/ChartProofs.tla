---------------------------- MODULE ChartProofs ----------------------------
(***************************************************************************)
(* What holds of the chart of every grammar, for every sequence of inputs  *)
(* and queries, whatever its weights are.                                  *)
(***************************************************************************)
EXTENDS Chart, NaturalLemmas, SequenceTheorems

-----------------------------------------------------------------------------
(* The inductive invariant *)

\* Weights are of any kind: of a set that grows as new ones are computed.
Labels == {"scanned", "completed", "predicted"}
Kid == [cell : Nat, item : Item]
State(W) == [item : Item, label : Labels, alpha : W, gamma : W, v : W,
             low : Int, high : Int, kids : Seq(Kid)]
Cell(W) == [states : Seq(State(W)), high : Int]
Typed == \E W : cells \in Seq(Cell(W)) /\ fresh \in Seq(State(W))

\* The symbol before the dot
SymbolBefore(item) == item.rhs[item.dot]
EndsWithNonterminal(item) == item.dot > 0 /\ SymbolBefore(item) \in Nonterminals

\* An item tells how its state came to be; nothing but a prediction or the root
\* starts in its own cell.
LabelOf(item) ==
  IF item.dot = 0 THEN IF item.lhs = Empty THEN "completed" ELSE "predicted"
  ELSE IF SymbolBefore(item) \in Nonterminals THEN "completed" ELSE "scanned"
Shaped(s, at) ==
  /\ s.item.rhs # <<>> /\ s.item.dot <= Len(s.item.rhs)
  /\ IF s.item.dot = 0 THEN s.item.k = at ELSE s.item.k < at
  /\ s.label = LabelOf(s.item)
  /\ \A i \in DOMAIN s.kids : s.kids[i].cell <= at

\* The order of CellOrder
Follows(s, t) ==
  /\ Rank(s) <= Rank(t)
  /\ s.label = "completed" /\ t.label = "completed" => s.item.k >= t.item.k
Sorted(ss) == \A i, j \in DOMAIN ss : i < j => Follows(ss[i], ss[j])

\* A state that Complete looks for parents of
Child(s) == Finished(s) /\ s.item.lhs # Empty

\* What is said of the last child of a state in cell c: it is of the same cell, and it
\* completed the state's item for a parent in the cell where it starts.
CompletedBy(chain, c, item, kid) ==
  \E i \in DOMAIN chain[c].states :
    LET child == chain[c].states[i]
        from  == chain[child.item.k + 1].states
    IN /\ Child(child) /\ kid = [cell |-> c - 1, item |-> child.item]
       /\ \E j \in DOMAIN from : Completes(from[j], child) /\ item = Advance(from[j].item)
Justified(chain, c, s) ==
  EndsWithNonterminal(s.item) =>
    s.kids # <<>> /\ CompletedBy(chain, c, s.item, Last(s.kids))

CellInv(chain, c) ==
  LET ss == chain[c].states
  IN /\ \A i \in DOMAIN ss : Shaped(ss[i], c - 1) /\ Justified(chain, c, ss[i])
     /\ Distinct(ss) /\ Sorted(ss)

\* Complete's loops have come to state n and its parent m in cell c: what they have
\* been at is done.
Done(chain, c, n, m) ==
  \A i \in DOMAIN chain[c].states :
    LET child == chain[c].states[i]
        from  == chain[child.item.k + 1].states
    IN Child(child) =>
         \A j \in DOMAIN from :
           (i < n \/ (i = n /\ j < m)) /\ Completes(from[j], child) =>
             Same(chain[c].states, Advance(from[j].item)) # {}
AllDone(chain, c) == Done(chain, c, Len(chain[c].states) + 1, 1)

ChainInv ==
  /\ Len(cells) > 0
  /\ \A c \in DOMAIN cells : CellInv(cells, c)
  /\ \A c \in DOMAIN cells : c < Len(cells) \/ pc # "complete" => AllDone(cells, c)
  /\ pc = "complete" => /\ Done(cells, Len(cells), x, y)
                        /\ \A i \in DOMAIN Here.states : Here.states[i].label # "predicted"

\* The tokens of a line have distinct names, which are of no nonterminals.
LineOK(tokens) ==
  /\ Len(tokens) \in Nat /\ DOMAIN tokens = 1..Len(tokens)
  /\ \A i \in DOMAIN tokens : /\ tokens[i].name \in Symbols \ Nonterminals
                              /\ tokens[i].low \in Int /\ tokens[i].high \in Int
  /\ \A i, j \in DOMAIN tokens : tokens[i].name = tokens[j].name => i = j

\* Each scanned state comes from a turn of Scan's loops that is over.
ScannedFrom(item) ==
  \E t \in 1..x, i \in DOMAIN Here.states :
    /\ t \in DOMAIN line /\ (t = x => i < y)
    /\ ~Finished(Here.states[i]) /\ After(Here.states[i]) = line[t].name
    /\ item = Advance(Here.states[i].item)
ScanInv ==
  /\ pc # "scan" => fresh = <<>>
  /\ \A i \in DOMAIN fresh : /\ Shaped(fresh[i], Len(cells))
                             /\ fresh[i].label = "scanned"
                             /\ ScannedFrom(fresh[i].item)
  /\ Distinct(fresh)

Control ==
  /\ pc \in {"idle", "scan", "complete", "predict", "read", "dead"}
  /\ purpose \in {"none", "construct", "parse", "prediction", "viterbi"}
  /\ x \in Nat \ {0} /\ y \in Nat \ {0} /\ upto \in 0..Len(Here.states)
  /\ pc \notin {"predict", "read"} => upto = 0
  /\ pc \in {"scan", "complete"} => purpose # "construct"
  /\ pc \in {"complete", "read"} \/ (pc = "predict" /\ purpose # "construct") =>
       Len(cells) > 1
  /\ Len(input) <= MaxParse /\ \E L : input \in Seq(L)

IInv == Typed /\ ChainInv /\ LineOK(line) /\ ScanInv /\ Control

-----------------------------------------------------------------------------
(* Items and states *)

\* The constants, as the provers want them.
LEMMA Grammar ==
  /\ \A r \in DOMAIN Rules : /\ Rules[r].rhs \in Seq(Symbols) /\ Rules[r].rhs # <<>>
                             /\ Rules[r].lhs \in Nonterminals
  /\ Len(Rules) \in Nat /\ DOMAIN Rules = 1..Len(Rules)
  /\ Axiom \in Nonterminals /\ Empty \notin Nonterminals
BY GrammarAssumption DEF Nonterminals

LEMMA AdvanceItem ==
  ASSUME NEW a \in Item
  PROVE  /\ Advance(a).k = a.k /\ Advance(a).lhs = a.lhs /\ Advance(a).rhs = a.rhs
         /\ Advance(a).dot = a.dot + 1 /\ Advance(a) \in Item
BY DEF Advance, Item

LEMMA AdvanceInjective ==
  ASSUME NEW a \in Item, NEW b \in Item, Advance(a) = Advance(b)
  PROVE  a = b
<1>1. a.k = b.k /\ a.lhs = b.lhs /\ a.rhs = b.rhs /\ a.dot = b.dot
  <2>1. a.dot + 1 = b.dot + 1 /\ a.dot \in Nat /\ b.dot \in Nat
    BY AdvanceItem DEF Item
  <2> QED  BY <2>1, AdvanceItem
<1> QED  BY <1>1 DEF Item

LEMMA StateTyped ==
  ASSUME NEW W, NEW s \in State(W)
  PROVE  /\ s.item \in Item /\ s.label \in Labels /\ s.low \in Int /\ s.high \in Int
         /\ s.item.k \in Nat /\ s.item.dot \in Nat /\ s.item.lhs \in Nonterminals \cup {Empty}
         /\ s.item.rhs \in Seq(Symbols) /\ s.kids \in Seq(Kid)
         /\ Len(s.item.rhs) \in Nat /\ DOMAIN s.item.rhs = 1..Len(s.item.rhs)
<1>1. s.item \in Item /\ s.label \in Labels /\ s.low \in Int /\ s.high \in Int
      /\ s.kids \in Seq(Kid)
  BY DEF State
<1>2. s.item.k \in Nat /\ s.item.dot \in Nat /\ s.item.lhs \in Nonterminals \cup {Empty}
      /\ s.item.rhs \in Seq(Symbols)
  BY <1>1 DEF Item
<1> QED  BY <1>1, <1>2, LenProperties

\* More weights, the same states
LEMMA StatesGrow ==
  ASSUME NEW V, NEW W, V \subseteq W
  PROVE  /\ State(V) \subseteq State(W)
         /\ Seq(State(V)) \subseteq Seq(State(W))
         /\ Cell(V) \subseteq Cell(W)
         /\ Seq(Cell(V)) \subseteq Seq(Cell(W))
<1>1. State(V) \subseteq State(W)
  BY DEF State
<1>2. Seq(State(V)) \subseteq Seq(State(W))
  BY <1>1, SeqMonotonic
<1>3. Cell(V) \subseteq Cell(W)
  BY <1>2 DEF Cell
<1> QED  BY <1>1, <1>2, <1>3, SeqMonotonic

\* In a cell without duplicates, the state of an item is the one that has it.
LEMMA StateFound ==
  ASSUME NEW ss, Distinct(ss), NEW i \in DOMAIN ss, i \in Int
  PROVE  /\ Same(ss, ss[i].item) = {i} /\ Min(Same(ss, ss[i].item)) = i
         /\ StateOf(ss, ss[i].item) = ss[i]
<1>1. Same(ss, ss[i].item) = {i}
  BY DEF Same, Distinct
<1>2. Min({i}) = i
  BY DEF Min
<1> QED  BY <1>1, <1>2 DEF StateOf

-----------------------------------------------------------------------------
(* AddState *)

\* r is ss with new at place p, or with s in the place of a state.
Inserts(ss, r, p, new) ==
  /\ p \in 1..Len(ss) + 1 /\ Len(r) = Len(ss) + 1
  /\ \A j \in 1..Len(r) : r[j] = IF j < p THEN ss[j] ELSE IF j = p THEN new ELSE ss[j - 1]
Replaces(ss, r, q, s) ==
  /\ q \in 1..Len(ss) /\ Len(r) = Len(ss)
  /\ \A j \in 1..Len(r) : r[j] = IF j = q THEN s ELSE ss[j]

\* All but the weights and the children
Like(s, t) == s.item = t.item /\ s.label = t.label /\ s.low = t.low /\ s.high = t.high

LEMMA InsertAtInserts ==
  ASSUME NEW S, NEW ss \in Seq(S), NEW new \in S, NEW p \in 1..Len(ss) + 1
  PROVE  InsertAt(ss, p, new) \in Seq(S) /\ Inserts(ss, InsertAt(ss, p, new), p, new)
<1> DEFINE a == SubSeq(ss, 1, p - 1)
           b == SubSeq(ss, p, Len(ss))
           r == InsertAt(ss, p, new)
<1>1. Len(ss) \in Nat /\ p \in Nat /\ \A i \in 1..Len(ss) : ss[i] \in S
  BY LenProperties, ElementOfSeq
<1>2. /\ a \in Seq(S) /\ Len(a) = p - 1
      /\ \A i \in 1..p - 1 : a[i] = ss[i]
  <2>1. \A i \in 1..p - 1 : ss[i] \in S
    BY <1>1
  <2>2. /\ a \in Seq(S) /\ Len(a) = IF 1 <= p - 1 THEN (p - 1) - 1 + 1 ELSE 0
        /\ \A i \in 1..(p - 1) - 1 + 1 : a[i] = ss[1 + i - 1]
    BY <1>1, <2>1, SubSeqProperties
  <2> HIDE DEF a
  <2>3. Len(a) = p - 1
    BY <1>1, <2>2
  <2>4. \A i \in 1..p - 1 : a[i] = ss[i]
    <3> TAKE i \in 1..p - 1
    <3>1. i \in 1..(p - 1) - 1 + 1 /\ 1 + i - 1 = i
      BY <1>1
    <3> QED  BY <2>2, <3>1
  <2> QED  BY <2>2, <2>3, <2>4
<1>3. /\ b \in Seq(S) /\ Len(b) = Len(ss) - p + 1
      /\ \A i \in 1..Len(ss) - p + 1 : b[i] = ss[p + i - 1]
  <2>1. \A i \in p..Len(ss) : ss[i] \in S
    BY <1>1
  <2>2. /\ b \in Seq(S) /\ Len(b) = IF p <= Len(ss) THEN Len(ss) - p + 1 ELSE 0
        /\ \A i \in 1..Len(ss) - p + 1 : b[i] = ss[p + i - 1]
    BY <1>1, <2>1, SubSeqProperties
  <2> HIDE DEF b
  <2> QED  BY <1>1, <2>2
<1>4. r = a \o <<new>> \o b
  BY DEF InsertAt
<1> HIDE DEF a, b, r
<1>5. <<new>> \in Seq(S) /\ Len(<<new>>) = 1 /\ <<new>>[1] = new
  OBVIOUS
<1> DEFINE ab == a \o <<new>>
<1>6. /\ ab \in Seq(S) /\ Len(ab) = p
      /\ \A i \in 1..p : ab[i] = IF i < p THEN ss[i] ELSE new
  <2>1. /\ ab \in Seq(S) /\ Len(ab) = Len(a) + 1
        /\ \A i \in 1..Len(a) + 1 : ab[i] = IF i <= Len(a) THEN a[i] ELSE <<new>>[i - Len(a)]
    BY <1>2, <1>5, ConcatProperties
  <2> HIDE DEF ab
  <2>2. Len(ab) = p
    BY <1>1, <1>2, <2>1
  <2>3. ASSUME NEW i \in 1..p PROVE ab[i] = IF i < p THEN ss[i] ELSE new
    <3>1. ab[i] = IF i <= p - 1 THEN a[i] ELSE <<new>>[i - (p - 1)]
      BY <1>1, <1>2, <2>1
    <3>2. CASE i < p
      <4>1. i \in 1..p - 1
        BY <1>1, <3>2
      <4> QED  BY <1>1, <1>2, <3>1, <3>2, <4>1
    <3>3. CASE i = p
      <4>1. i - (p - 1) = 1 /\ ~(i <= p - 1)
        BY <1>1, <3>3
      <4> QED  BY <1>5, <3>1, <3>3, <4>1
    <3> QED  BY <1>1, <3>2, <3>3
  <2> QED  BY <2>1, <2>2, <2>3
<1> HIDE DEF ab
<1>7. /\ r \in Seq(S) /\ Len(r) = p + Len(b)
      /\ \A i \in 1..p + Len(b) : r[i] = IF i <= p THEN ab[i] ELSE b[i - p]
  <2>1. r = ab \o b
    BY <1>4 DEF ab
  <2> QED  BY <1>3, <1>6, <2>1, ConcatProperties
<1>8. Len(r) = Len(ss) + 1
  BY <1>1, <1>3, <1>7
<1>9. ASSUME NEW j \in 1..Len(r)
      PROVE  r[j] = IF j < p THEN ss[j] ELSE IF j = p THEN new ELSE ss[j - 1]
  <2>1. CASE j <= p
    <3>1. j \in 1..p /\ j \in 1..p + Len(b)
      BY <1>1, <1>7, <1>3, <2>1
    <3> QED  BY <1>1, <1>6, <1>7, <2>1, <3>1
  <2>2. CASE j > p
    <3>1. j - p \in 1..Len(ss) - p + 1 /\ j \in 1..p + Len(b) /\ p + (j - p) - 1 = j - 1
      BY <1>1, <1>3, <1>8, <2>2
    <3>2. r[j] = b[j - p]
      BY <1>1, <1>7, <2>2, <3>1
    <3> QED  BY <1>1, <1>3, <2>2, <3>1, <3>2
  <2> QED  BY <1>1, <2>1, <2>2
<1> QED  BY <1>7, <1>8, <1>9 DEF Inserts, r

\* In a cell without duplicates, exactly one state has an item that one has.
LEMMA SameFound ==
  ASSUME NEW W, NEW ss \in Seq(State(W)), Distinct(ss), NEW item, Same(ss, item) # {}
  PROVE  /\ Min(Same(ss, item)) \in 1..Len(ss)
         /\ Same(ss, item) = {Min(Same(ss, item))}
         /\ ss[Min(Same(ss, item))].item = item
<1>1. DOMAIN ss = 1..Len(ss)
  BY LenProperties
<1>2. PICK i \in DOMAIN ss : ss[i].item = item
  BY DEF Same
<1>3. i \in Int
  BY <1>1, <1>2
<1>4. Same(ss, item) = {i} /\ Min(Same(ss, item)) = i
  BY <1>2, <1>3, StateFound
<1> QED  BY <1>1, <1>2, <1>4

LEMMA PositionFound ==
  ASSUME NEW W, NEW ss \in Seq(State(W)), NEW k \in Int
  PROVE  /\ Position(ss, k) \in 1..Len(ss) + 1
         /\ Position(ss, k) <= Len(ss) =>
              ss[Position(ss, k)].label = "completed" /\ ss[Position(ss, k)].item.k < k
         /\ \A i \in 1..Len(ss) :
              i < Position(ss, k) => ~(ss[i].label = "completed" /\ ss[i].item.k < k)
<1> DEFINE earlier == {i \in DOMAIN ss : ss[i].label = "completed" /\ ss[i].item.k < k}
           places == {Len(ss) + 1} \cup earlier
<1>1. Len(ss) \in Nat /\ DOMAIN ss = 1..Len(ss)
  BY LenProperties
<1>2. places \subseteq Nat /\ places # {} /\ places \subseteq 1..Len(ss) + 1
  BY <1>1
<1>3. Position(ss, k) = Min(places)
  BY DEF Position
<1>4. \A i \in 1..Len(ss) : i \in places <=> ss[i].label = "completed" /\ ss[i].item.k < k
  BY <1>1
<1> HIDE DEF places
<1>5. Position(ss, k) \in places /\ \A i \in places : Position(ss, k) <= i
  BY <1>2, <1>3, MinIsLeast
<1>6. Position(ss, k) \in 1..Len(ss) + 1
  BY <1>2, <1>5
<1>7. Position(ss, k) <= Len(ss) =>
        ss[Position(ss, k)].label = "completed" /\ ss[Position(ss, k)].item.k < k
  <2> HAVE Position(ss, k) <= Len(ss)
  <2>1. Position(ss, k) \in 1..Len(ss)
    BY <1>1, <1>6
  <2> QED  BY <1>4, <1>5, <2>1
<1>8. \A i \in 1..Len(ss) :
        i < Position(ss, k) => ~(ss[i].label = "completed" /\ ss[i].item.k < k)
  <2> SUFFICES ASSUME NEW i \in 1..Len(ss), i < Position(ss, k), i \in places PROVE FALSE
    BY <1>4
  <2>1. Position(ss, k) <= i /\ Position(ss, k) \in Int /\ i \in Int
    BY <1>5, <1>6
  <2> QED  BY <2>1
<1> QED  BY <1>6, <1>7, <1>8

\* A merged state is of the same item and marks, and its children are those of the
\* one or of the other, or those of the first with the last of the other among them.
LEMMA MergeKeeps ==
  ASSUME NEW W, NEW ss, NEW old \in State(W), NEW new \in State(W),
         old.kids # <<>>, new.kids # <<>>
  PROVE  LET m == Merge(ss, old, new) IN
         /\ Like(m, old) /\ m \in State(W \cup {m.alpha, m.gamma, m.v})
         /\ m.kids # <<>> /\ Last(m.kids) \in {Last(old.kids), Last(new.kids)}
         /\ \A i \in DOMAIN m.kids : m.kids[i] \in Range(old.kids) \cup Range(new.kids)
<1> DEFINE m == Merge(ss, old, new)
           sum == [old EXCEPT !.alpha = Plus(@, new.alpha), !.gamma = Plus(@, new.gamma)]
           kid == StateOf(ss, Last(new.kids).item)
           under == {j \in DOMAIN old.kids : old.kids[j].item = Head(kid.kids).item}
           spliced == [old.kids EXCEPT ![Min(under)] = Last(new.kids)]
<1>1. /\ old.kids \in Seq(Kid) /\ Len(old.kids) \in Nat \ {0}
      /\ DOMAIN old.kids = 1..Len(old.kids)
      /\ new.kids \in Seq(Kid) /\ Len(new.kids) \in Nat \ {0}
      /\ DOMAIN new.kids = 1..Len(new.kids)
  BY StateTyped, LenProperties, EmptySeq
<1>2. Last(new.kids) = new.kids[Len(new.kids)] /\ Last(old.kids) = old.kids[Len(old.kids)]
  BY DEF Last
<1>3. Last(new.kids) \in Kid /\ Last(new.kids) \in Range(new.kids)
  BY <1>1, <1>2, ElementOfSeq DEF Range
<1>4. CASE IsUnit(kid) /\ under # {}
  <2>1. m = [sum EXCEPT !.kids[Min(under)] = Last(new.kids)]
    BY <1>4 DEF Merge
  <2>2. under \subseteq 1..Len(old.kids) /\ under \subseteq Nat
    BY <1>1
  <2> HIDE DEF under, m
  <2>3. Min(under) \in 1..Len(old.kids)
    BY <1>4, <2>2, MinIsLeast
  <2>4. /\ spliced \in Seq(Kid) /\ Len(spliced) = Len(old.kids)
        /\ \A i \in 1..Len(old.kids) :
             spliced[i] = IF i = Min(under) THEN Last(new.kids) ELSE old.kids[i]
    BY <1>1, <1>3, <2>3, ExceptSeq
  <2>5. m.kids = spliced
    BY <2>1 DEF State
  <2> HIDE DEF spliced
  <2>6. Like(m, old)
    BY <2>1 DEF State, Like
  <2>7. m \in State(W \cup {m.alpha, m.gamma, m.v})
    <3> DEFINE V == W \cup {m.alpha, m.gamma, m.v}
    <3>1. m = [item |-> old.item, label |-> old.label, alpha |-> m.alpha, gamma |-> m.gamma,
               v |-> m.v, low |-> old.low, high |-> old.high, kids |-> spliced]
      BY <2>1, <2>5 DEF State
    <3>2. m.alpha \in V /\ m.gamma \in V /\ m.v \in V
      OBVIOUS
    <3> HIDE DEF V
    <3>3. /\ old.item \in Item /\ old.label \in Labels /\ old.low \in Int /\ old.high \in Int
      BY StateTyped
    <3>4. m \in State(V)
      BY <2>4, <3>1, <3>2, <3>3 DEF State
    <3> QED  BY <3>4 DEF V
  <2>8. m.kids # <<>> /\ Last(m.kids) \in {Last(old.kids), Last(new.kids)}
    <3>1. Last(m.kids) = spliced[Len(old.kids)]
      BY <2>4, <2>5 DEF Last
    <3>2. m.kids # <<>>
      BY <1>1, <2>4, <2>5, EmptySeq
    <3> QED  BY <1>1, <1>2, <2>4, <3>1, <3>2
  <2>9. \A i \in DOMAIN m.kids : m.kids[i] \in Range(old.kids) \cup Range(new.kids)
    <3>1. DOMAIN m.kids = DOMAIN old.kids
      BY <1>1, <2>4, <2>5, LenProperties
    <3> QED  BY <1>1, <1>3, <2>4, <2>5, <3>1 DEF Range
  <2> QED  BY <2>6, <2>7, <2>8, <2>9 DEF m
<1>5. CASE ~(IsUnit(kid) /\ under # {}) /\ Less(old.v, new.v)
  <2>1. m = [sum EXCEPT !.v = new.v, !.kids = new.kids]
    BY <1>5 DEF Merge
  <2> HIDE DEF m
  <2>2. m = [item |-> old.item, label |-> old.label, alpha |-> m.alpha, gamma |-> m.gamma,
             v |-> m.v, low |-> old.low, high |-> old.high, kids |-> new.kids]
    BY <2>1 DEF State
  <2>3. m \in State(W \cup {m.alpha, m.gamma, m.v})
    BY <1>1, <2>2, StateTyped DEF State
  <2>4. Like(m, old) /\ m.kids = new.kids
    BY <2>2 DEF Like
  <2> QED  BY <2>3, <2>4 DEF m, Range
<1>6. CASE ~(IsUnit(kid) /\ under # {}) /\ ~Less(old.v, new.v)
  <2>1. m = sum
    BY <1>6 DEF Merge
  <2> HIDE DEF m
  <2>2. m = [item |-> old.item, label |-> old.label, alpha |-> m.alpha, gamma |-> m.gamma,
             v |-> m.v, low |-> old.low, high |-> old.high, kids |-> old.kids]
    BY <2>1 DEF State
  <2>3. m \in State(W \cup {m.alpha, m.gamma, m.v})
    BY <1>1, <2>2, StateTyped DEF State
  <2>4. Like(m, old) /\ m.kids = old.kids
    BY <2>2 DEF Like
  <2> QED  BY <2>3, <2>4 DEF m, Range
<1> QED  BY <1>4, <1>5, <1>6

\* Every state of ss has one like it in rr.
Grown(ss, rr) == \A i \in DOMAIN ss : \E j \in DOMAIN rr : Like(rr[j], ss[i])

LEMMA InsertedCell ==
  ASSUME NEW W, NEW ss \in Seq(State(W)), NEW rr \in Seq(State(W)), NEW new \in State(W),
         NEW p, Inserts(ss, rr, p, new),
         Distinct(ss), Sorted(ss), Same(ss, new.item) = {},
         \A i \in 1..Len(ss) : i < p => Follows(ss[i], new),
         \A i \in 1..Len(ss) : i >= p => Follows(new, ss[i])
  PROVE  /\ Distinct(rr) /\ Sorted(rr) /\ Grown(ss, rr)
         /\ \E j \in DOMAIN rr : rr[j] = new
         /\ \A j \in DOMAIN rr : rr[j] = new \/ \E i \in DOMAIN ss : rr[j] = ss[i]
<1>1. /\ Len(ss) \in Nat /\ DOMAIN ss = 1..Len(ss) /\ DOMAIN rr = 1..Len(rr)
      /\ Len(rr) = Len(ss) + 1 /\ p \in 1..Len(ss) + 1
  BY LenProperties DEF Inserts
<1> DEFINE old(j) == IF j < p THEN j ELSE j - 1
<1>2. \A j \in 1..Len(rr) : rr[j] = IF j = p THEN new ELSE ss[old(j)]
  BY <1>1 DEF Inserts
<1>3. \A j \in 1..Len(rr) : j # p => old(j) \in 1..Len(ss)
  BY <1>1
<1>4. \A j \in 1..Len(ss) : ss[j].item # new.item
  BY <1>1 DEF Same
<1>5. Distinct(rr)
  <2> SUFFICES ASSUME NEW i \in 1..Len(rr), NEW j \in 1..Len(rr), rr[i].item = rr[j].item
               PROVE  i = j
    BY <1>1 DEF Distinct
  <2>0. \A n \in 1..Len(rr) : n # p => rr[n].item # new.item
    BY <1>2, <1>3, <1>4
  <2>1. CASE i = p \/ j = p
    BY <1>2, <2>0, <2>1
  <2>2. CASE i # p /\ j # p
    <3>1. ss[old(i)].item = ss[old(j)].item /\ old(i) \in 1..Len(ss) /\ old(j) \in 1..Len(ss)
      BY <1>2, <1>3, <2>2
    <3> HIDE DEF old
    <3>2. old(i) = old(j)
      BY <1>1, <3>1 DEF Distinct
    <3> QED  BY <1>1, <2>2, <3>2 DEF old
  <2> QED  BY <2>1, <2>2
<1>6. Sorted(rr)
  <2> SUFFICES ASSUME NEW i \in 1..Len(rr), NEW j \in 1..Len(rr), i < j
               PROVE  Follows(rr[i], rr[j])
    BY <1>1 DEF Sorted
  <2>1. CASE j = p
    <3>1. rr[j] = new /\ rr[i] = ss[i] /\ i \in 1..Len(ss) /\ i < p
      BY <1>1, <1>2, <2>1
    <3> QED  BY <3>1
  <2>2. CASE i = p
    <3>1. rr[i] = new /\ rr[j] = ss[j - 1] /\ j - 1 \in 1..Len(ss) /\ j - 1 >= p
      BY <1>1, <1>2, <2>2
    <3> QED  BY <3>1
  <2>3. CASE i # p /\ j # p
    <3>1. rr[i] = ss[old(i)] /\ rr[j] = ss[old(j)] /\ old(i) < old(j)
          /\ old(i) \in 1..Len(ss) /\ old(j) \in 1..Len(ss)
      BY <1>1, <1>2, <1>3, <2>3
    <3> HIDE DEF old
    <3> QED  BY <1>1, <3>1 DEF Sorted
  <2> QED  BY <2>1, <2>2, <2>3
<1>7. Grown(ss, rr)
  <2> SUFFICES ASSUME NEW i \in 1..Len(ss) PROVE \E j \in DOMAIN rr : Like(rr[j], ss[i])
    BY <1>1 DEF Grown
  <2> DEFINE j == IF i < p THEN i ELSE i + 1
  <2>1. j \in DOMAIN rr /\ j # p /\ old(j) = i
    BY <1>1
  <2>2. rr[j] = ss[i]
    BY <1>1, <1>2, <2>1
  <2> QED  BY <2>1, <2>2 DEF Like
<1>8. p \in DOMAIN rr /\ rr[p] = new
  BY <1>1, <1>2
<1>9. \A j \in DOMAIN rr : rr[j] = new \/ \E i \in DOMAIN ss : rr[j] = ss[i]
  BY <1>1, <1>2, <1>3
<1> QED  BY <1>5, <1>6, <1>7, <1>8, <1>9

LEMMA ReplacedCell ==
  ASSUME NEW W, NEW ss \in Seq(State(W)), NEW rr \in Seq(State(W)), NEW s,
         NEW q, Replaces(ss, rr, q, s), Like(s, ss[q]),
         Distinct(ss), Sorted(ss)
  PROVE  /\ Distinct(rr) /\ Sorted(rr) /\ Grown(ss, rr)
         /\ DOMAIN rr = DOMAIN ss
         /\ \A j \in DOMAIN rr : Like(rr[j], ss[j]) /\ rr[j] = IF j = q THEN s ELSE ss[j]
<1>1. DOMAIN ss = 1..Len(ss) /\ DOMAIN rr = 1..Len(ss) /\ q \in 1..Len(ss)
  BY LenProperties DEF Replaces
<1>2. \A j \in 1..Len(ss) : rr[j] = IF j = q THEN s ELSE ss[j]
  BY DEF Replaces
<1>3. \A j \in 1..Len(ss) : Like(rr[j], ss[j])
  BY <1>2 DEF Like
<1>4. Distinct(rr)
  BY <1>1, <1>3 DEF Distinct, Like
<1>5. Sorted(rr)
  <2> SUFFICES ASSUME NEW i \in 1..Len(ss), NEW j \in 1..Len(ss), i < j
               PROVE  Follows(rr[i], rr[j])
    BY <1>1 DEF Sorted
  <2>1. Follows(ss[i], ss[j])
    BY <1>1 DEF Sorted
  <2> QED  BY <1>3, <2>1 DEF Follows, Like, Rank
<1> QED  BY <1>1, <1>2, <1>3, <1>4, <1>5 DEF Grown

-----------------------------------------------------------------------------
(* Cells that stay and cells that grow *)

\* What Complete asks of a child is of its item and its start mark.
LEMMA LikeChild ==
  ASSUME NEW s, NEW t, Like(s, t)
  PROVE  /\ Child(s) <=> Child(t)
         /\ \A parent : Completes(parent, s) <=> Completes(parent, t)
BY DEF Like, Child, Finished, Completes, Filter

\* A state that completes others does so for parents in an earlier cell.
LEMMA ChildIsEarlier ==
  ASSUME NEW W, NEW s \in State(W), NEW c \in Nat, Shaped(s, c - 1), Child(s)
  PROVE  /\ s.item.dot > 0 /\ s.item.k < c - 1 /\ s.item.k + 1 \in 1..c - 1
<1>1. s.item.k \in Nat /\ s.item.dot \in Nat /\ Len(s.item.rhs) \in Nat
      /\ s.item.rhs \in Seq(Symbols)
  BY StateTyped
<1>2. s.item.dot = Len(s.item.rhs) /\ s.item.rhs # <<>>
  BY DEF Child, Finished, Shaped
<1>3. s.item.dot > 0
  BY <1>1, <1>2, EmptySeq
<1> QED  BY <1>1, <1>3 DEF Shaped

\* What holds of a cell is of it and of those before it.
LEMMA CellKept ==
  ASSUME NEW W, NEW a \in Seq(Cell(W)), NEW b, NEW c \in 1..Len(a),
         \A d \in 1..c : b[d] = a[d], CellInv(a, c)
  PROVE  CellInv(b, c) /\ (AllDone(a, c) => AllDone(b, c))
<1>1. a[c].states \in Seq(State(W)) /\ b[c] = a[c] /\ c \in Nat
  <2>1. a[c] \in Cell(W) /\ Len(a) \in Nat
    BY ElementOfSeq, LenProperties
  <2>2. c \in 1..c
    BY <2>1
  <2> QED  BY <2>1, <2>2 DEF Cell
<1>2. \A i \in DOMAIN a[c].states :
        LET child == a[c].states[i]
        IN Child(child) => b[child.item.k + 1] = a[child.item.k + 1]
  <2> SUFFICES ASSUME NEW i \in DOMAIN a[c].states, Child(a[c].states[i])
               PROVE  b[a[c].states[i].item.k + 1] = a[a[c].states[i].item.k + 1]
    OBVIOUS
  <2>1. a[c].states[i] \in State(W) /\ Shaped(a[c].states[i], c - 1)
    BY <1>1, LenProperties, ElementOfSeq DEF CellInv
  <2>2. a[c].states[i].item.k + 1 \in 1..c - 1
    BY <1>1, <2>1, ChildIsEarlier
  <2>3. a[c].states[i].item.k + 1 \in 1..c
    BY <1>1, <2>2
  <2> QED  BY <2>3
<1>3. \A item, kid : CompletedBy(a, c, item, kid) => CompletedBy(b, c, item, kid)
  BY <1>1, <1>2 DEF CompletedBy
<1>4. CellInv(b, c)
  BY <1>1, <1>3 DEF CellInv, Justified
<1>5. ASSUME AllDone(a, c) PROVE AllDone(b, c)
  BY <1>1, <1>2, <1>5 DEF AllDone, Done
<1> QED  BY <1>4, <1>5

\* What completed a state goes on being there when the last cell grows.
LEMMA CompletedByKept ==
  ASSUME NEW W, NEW a \in Seq(Cell(W)), NEW b, NEW c \in 1..Len(a),
         \A d \in 1..c - 1 : b[d] = a[d],
         \A i \in DOMAIN a[c].states : Shaped(a[c].states[i], c - 1),
         Grown(a[c].states, b[c].states),
         NEW item, NEW kid, CompletedBy(a, c, item, kid)
  PROVE  CompletedBy(b, c, item, kid)
<1>1. a[c].states \in Seq(State(W)) /\ c \in Nat
  <2>1. a[c] \in Cell(W)
    BY ElementOfSeq
  <2> QED  BY <2>1 DEF Cell
<1>2. PICK i \in DOMAIN a[c].states :
        /\ Child(a[c].states[i]) /\ kid = [cell |-> c - 1, item |-> a[c].states[i].item]
        /\ \E j \in DOMAIN a[a[c].states[i].item.k + 1].states :
             LET parent == a[a[c].states[i].item.k + 1].states[j]
             IN Completes(parent, a[c].states[i]) /\ item = Advance(parent.item)
  BY DEF CompletedBy
<1> DEFINE child == a[c].states[i]
<1>3. PICK n \in DOMAIN b[c].states : Like(b[c].states[n], child)
  BY DEF Grown
<1>4. b[child.item.k + 1] = a[child.item.k + 1]
  <2>1. child \in State(W) /\ Shaped(child, c - 1)
    BY <1>1, LenProperties, ElementOfSeq
  <2>2. child.item.k + 1 \in 1..c - 1
    BY <1>1, <1>2, <2>1, ChildIsEarlier
  <2> QED  BY <2>2
<1>5. /\ Child(b[c].states[n]) /\ b[c].states[n].item = child.item
      /\ \A parent : Completes(parent, child) => Completes(parent, b[c].states[n])
  <2>1. b[c].states[n].item = child.item
    BY <1>3 DEF Like
  <2> QED  BY <1>2, <1>3, <2>1, LikeChild
<1>6. PICK j \in DOMAIN a[child.item.k + 1].states :
        LET parent == a[child.item.k + 1].states[j]
        IN Completes(parent, child) /\ item = Advance(parent.item)
  BY <1>2
<1> DEFINE other == b[c].states[n]
<1>7. /\ j \in DOMAIN b[other.item.k + 1].states
      /\ Completes(b[other.item.k + 1].states[j], other)
      /\ item = Advance(b[other.item.k + 1].states[j].item)
      /\ Child(other) /\ kid = [cell |-> c - 1, item |-> other.item]
  BY <1>2, <1>4, <1>5, <1>6
<1> QED  BY <1>7 DEF CompletedBy

-----------------------------------------------------------------------------
(* What Complete adds *)

\* The state that a child makes of a parent: it is completed, starts no later than the
\* child, and when it starts where the child does the child is its first symbol.
LEMMA NewCompleted ==
  ASSUME NEW W, NEW here \in Nat,
         NEW child \in State(W), Shaped(child, here), Child(child),
         NEW parent \in State(W), Shaped(parent, child.item.k), Completes(parent, child)
  PROVE  LET new == Completed(parent, child, [cell |-> here, item |-> child.item]) IN
         /\ new \in State(W \cup {new.alpha, new.gamma, new.v})
         /\ new.item = Advance(parent.item) /\ new.label = "completed"
         /\ EndsWithNonterminal(new.item) /\ Shaped(new, here)
         /\ new.item.k <= child.item.k
         /\ new.item.k = child.item.k => new.item.dot = 1
         /\ new.kids # <<>> /\ Last(new.kids) = [cell |-> here, item |-> child.item]
<1> DEFINE ref == [cell |-> here, item |-> child.item]
           at == child.item.k
           new == Completed(parent, child, ref)
<1>1. child.item \in Item /\ child.low \in Int /\ child.high \in Int /\ at \in Nat
      /\ child.item.dot > 0 /\ at < here
  <2>1. here + 1 \in Nat /\ here + 1 - 1 = here
    OBVIOUS
  <2>2. child.item.dot > 0 /\ at < here
    BY <2>1, ChildIsEarlier
  <2> QED  BY <2>2, StateTyped
<1>2. /\ parent.item \in Item /\ parent.item.k \in Nat /\ parent.item.dot \in Nat
      /\ Len(parent.item.rhs) \in Nat /\ parent.kids \in Seq(Kid)
      /\ parent.low \in Int
  BY StateTyped
<1>3. /\ new.item = Advance(parent.item) /\ new.label = "completed"
      /\ new.kids = Append(parent.kids, ref)
      /\ new.low = (IF parent.label = "predicted" THEN child.low ELSE parent.low)
      /\ new.high = child.high
      /\ new = [item |-> new.item, label |-> new.label, alpha |-> new.alpha,
                gamma |-> new.gamma, v |-> new.v, low |-> new.low, high |-> new.high,
                kids |-> new.kids]
  BY DEF Completed
<1> HIDE DEF new
<1>4. /\ new.item \in Item /\ new.item.dot = parent.item.dot + 1
      /\ new.item.rhs = parent.item.rhs /\ new.item.k = parent.item.k
  BY <1>2, <1>3, AdvanceItem
<1>5. ref \in Kid
  BY <1>1 DEF Kid
<1> HIDE DEF ref
<1>6. /\ new.kids \in Seq(Kid) /\ Len(new.kids) = Len(parent.kids) + 1
      /\ Len(parent.kids) \in Nat /\ new.kids # <<>>
      /\ \A m \in 1..Len(parent.kids) : new.kids[m] = parent.kids[m]
      /\ new.kids[Len(parent.kids) + 1] = ref
  BY <1>2, <1>3, <1>5, AppendProperties, LenProperties
<1>7. Last(new.kids) = ref
  BY <1>6 DEF Last
<1>8. EndsWithNonterminal(new.item)
  <2>1. new.item.rhs[parent.item.dot + 1] \in Nonterminals
    BY <1>4 DEF Completes, After
  <2> QED  BY <1>2, <1>4, <2>1 DEF EndsWithNonterminal, SymbolBefore
<1>9. parent.item.dot < Len(parent.item.rhs) /\ parent.item.k <= at
      /\ (parent.item.k = at => parent.item.dot = 0)
  <2>1. parent.item.dot # Len(parent.item.rhs) /\ parent.item.dot <= Len(parent.item.rhs)
    BY DEF Shaped, Completes, Finished
  <2>2. IF parent.item.dot = 0 THEN parent.item.k = at ELSE parent.item.k < at
    BY DEF Shaped
  <2> QED  BY <1>1, <1>2, <2>1, <2>2
<1>10. Shaped(new, here)
  <2>1. new.item.rhs # <<>> /\ new.item.dot <= Len(new.item.rhs) /\ new.item.dot # 0
        /\ new.item.k < here
    <3>1. new.item.rhs # <<>>
      BY <1>4 DEF Shaped
    <3> QED  BY <1>1, <1>2, <1>4, <1>9, <3>1
  <2>2. new.label = LabelOf(new.item)
    BY <1>3, <1>8, <2>1 DEF LabelOf, EndsWithNonterminal
  <2>3. ASSUME NEW m \in DOMAIN new.kids PROVE new.kids[m].cell <= here
    <3>1. m \in 1..Len(parent.kids) + 1
      BY <1>6, LenProperties
    <3>2. CASE m = Len(parent.kids) + 1
      BY <1>6, <3>2 DEF ref
    <3>3. CASE m # Len(parent.kids) + 1
      <4>1. m \in 1..Len(parent.kids)
        BY <1>6, <3>1, <3>3
      <4>2. m \in DOMAIN parent.kids /\ parent.kids[m] \in Kid
        BY <1>2, <4>1, LenProperties, ElementOfSeq
      <4>3. parent.kids[m].cell \in Nat /\ parent.kids[m].cell <= at
        BY <4>2 DEF Kid, Shaped
      <4>4. new.kids[m] = parent.kids[m]
        BY <1>6, <4>1
      <4> QED  BY <1>1, <4>3, <4>4
    <3> QED  BY <3>2, <3>3
  <2> QED  BY <2>1, <2>2, <2>3 DEF Shaped
<1>11. new \in State(W \cup {new.alpha, new.gamma, new.v})
  <2> DEFINE V == W \cup {new.alpha, new.gamma, new.v}
  <2>1. new.alpha \in V /\ new.gamma \in V /\ new.v \in V
    OBVIOUS
  <2>2. new.low \in Int /\ new.high \in Int /\ new.label \in Labels
    BY <1>1, <1>2, <1>3 DEF Labels
  <2> HIDE DEF V
  <2>3. new \in State(V)
    BY <1>3, <1>4, <1>6, <2>1, <2>2 DEF State
  <2> QED  BY <2>3 DEF V
<1>12. new.item.k <= at /\ (new.item.k = at => new.item.dot = 1)
  BY <1>2, <1>4, <1>9
<1> QED  BY <1>3, <1>6, <1>7, <1>8, <1>10, <1>11, <1>12 DEF new, ref

\* It goes behind the child in the order of the cell.
LEMMA CompletedPlace ==
  ASSUME NEW W, NEW ss \in Seq(State(W)), NEW new \in State(W),
         Distinct(ss), Sorted(ss), \A i \in DOMAIN ss : ss[i].label # "predicted",
         new.label = "completed"
  PROVE  LET p == Position(ss, new.item.k) IN
         /\ p \in 1..Len(ss) + 1
         /\ \A i \in 1..Len(ss) : i < p => Follows(ss[i], new)
         /\ \A i \in 1..Len(ss) : i >= p => Follows(new, ss[i])
         /\ \A i \in 1..Len(ss) : new.item.k <= ss[i].item.k => i < p
<1> DEFINE p == Position(ss, new.item.k)
<1>1. /\ Len(ss) \in Nat /\ DOMAIN ss = 1..Len(ss) /\ new.item.k \in Int
      /\ \A i \in 1..Len(ss) : ss[i].item.k \in Int /\ ss[i].label \in {"scanned", "completed"}
  <2>1. Len(ss) \in Nat /\ DOMAIN ss = 1..Len(ss) /\ new.item.k \in Int
    BY LenProperties, StateTyped
  <2>2. ASSUME NEW i \in 1..Len(ss)
        PROVE  ss[i].item.k \in Int /\ ss[i].label \in {"scanned", "completed"}
    <3>1. ss[i] \in State(W)
      BY ElementOfSeq
    <3>2. ss[i].item.k \in Nat /\ ss[i].label \in Labels
      BY <3>1, StateTyped
    <3> QED  BY <2>1, <3>2 DEF Labels
  <2> QED  BY <2>1, <2>2
<1>2. /\ p \in 1..Len(ss) + 1
      /\ p <= Len(ss) => ss[p].label = "completed" /\ ss[p].item.k < new.item.k
      /\ \A i \in 1..Len(ss) :
           i < p => ~(ss[i].label = "completed" /\ ss[i].item.k < new.item.k)
  BY <1>1, PositionFound
<1> HIDE DEF p
<1>3. ASSUME NEW i \in 1..Len(ss), i < p PROVE Follows(ss[i], new)
  BY <1>1, <1>2, <1>3 DEF Follows, Rank
<1>4. ASSUME NEW i \in 1..Len(ss), i >= p
      PROVE  /\ ss[i].label = "completed" /\ ss[i].item.k < new.item.k
  <2>1. p \in 1..Len(ss) /\ ss[p].label = "completed" /\ ss[p].item.k < new.item.k
    BY <1>1, <1>2, <1>4
  <2>2. CASE i = p
    BY <2>1, <2>2
  <2>3. CASE i # p
    <3>1. Follows(ss[p], ss[i])
      BY <1>1, <1>2, <1>4, <2>1, <2>3 DEF Sorted
    <3>2. ss[i].label = "completed"
      BY <1>1, <2>1, <3>1 DEF Follows, Rank
    <3> QED  BY <1>1, <2>1, <3>1, <3>2 DEF Follows
  <2> QED  BY <2>2, <2>3
<1>5. ASSUME NEW i \in 1..Len(ss), i >= p PROVE Follows(new, ss[i])
  BY <1>1, <1>4, <1>5 DEF Follows, Rank
<1>6. ASSUME NEW i \in 1..Len(ss), new.item.k <= ss[i].item.k PROVE i < p
  BY <1>1, <1>2, <1>4, <1>6
<1> QED  BY <1>2, <1>3, <1>5, <1>6 DEF p

\* What r may be when new is added to ss: as ordered as it was, with the states up to
\* one that starts no earlier where they are, and all but the one that new is merged
\* into what they are.
Takes(W, ss, new, r) ==
  /\ \E V : W \subseteq V /\ r \in Seq(State(V))
  /\ Distinct(r) /\ Sorted(r) /\ Grown(ss, r)
  /\ \E j \in DOMAIN r : r[j].item = new.item
  /\ \A j \in DOMAIN r :
       \/ r[j] = new
       \/ \E i \in DOMAIN ss : r[j] = ss[i]
       \/ \E i \in DOMAIN ss : ss[i].item = new.item /\ r[j] = Merge(ss, ss[i], new)
  /\ \A i \in DOMAIN ss : new.item.k <= ss[i].item.k =>
       \A j \in 1..i : /\ j \in DOMAIN r /\ Like(r[j], ss[j])
                       /\ ss[j].item # new.item => r[j] = ss[j]

LEMMA AddedCompleted ==
  ASSUME NEW W, NEW ss \in Seq(State(W)), NEW new \in State(W),
         Distinct(ss), Sorted(ss), \A i \in DOMAIN ss : ss[i].label # "predicted",
         new.label = "completed", new.kids # <<>>,
         \A i \in DOMAIN ss : ss[i].item = new.item => ss[i].kids # <<>>
  PROVE  Takes(W, ss, new, AddCompleted(ss, new))
<1> DEFINE rr == AddCompleted(ss, new)
           same == Same(ss, new.item)
<1>1. Len(ss) \in Nat /\ DOMAIN ss = 1..Len(ss)
  BY LenProperties
<1>2. CASE same = {}
  <2> DEFINE p == Position(ss, new.item.k)
  <2>1. rr = InsertAt(ss, p, new)
    BY <1>2 DEF AddCompleted
  <2>2. /\ p \in 1..Len(ss) + 1
        /\ \A i \in 1..Len(ss) : i < p => Follows(ss[i], new)
        /\ \A i \in 1..Len(ss) : i >= p => Follows(new, ss[i])
        /\ \A i \in 1..Len(ss) : new.item.k <= ss[i].item.k => i < p
    BY CompletedPlace
  <2> HIDE DEF p
  <2>3. InsertAt(ss, p, new) \in Seq(State(W)) /\ Inserts(ss, InsertAt(ss, p, new), p, new)
    BY <2>2, InsertAtInserts
  <2>4. rr \in Seq(State(W)) /\ Inserts(ss, rr, p, new)
    BY <2>1, <2>3
  <2> HIDE DEF rr
  <2>5. /\ Distinct(rr) /\ Sorted(rr) /\ Grown(ss, rr)
        /\ \E j \in DOMAIN rr : rr[j] = new
        /\ \A j \in DOMAIN rr : rr[j] = new \/ \E i \in DOMAIN ss : rr[j] = ss[i]
    BY <1>2, <2>2, <2>4, InsertedCell
  <2>6. ASSUME NEW i \in DOMAIN ss, new.item.k <= ss[i].item.k, NEW j \in 1..i
        PROVE  j \in DOMAIN rr /\ rr[j] = ss[j] /\ Like(rr[j], ss[j])
    <3>1. i \in 1..Len(ss) /\ i < p /\ j < p /\ j \in 1..Len(rr) /\ DOMAIN rr = 1..Len(rr)
      BY <1>1, <2>2, <2>4, <2>6, LenProperties DEF Inserts
    <3>2. rr[j] = ss[j]
      BY <2>4, <3>1 DEF Inserts
    <3> QED  BY <3>1, <3>2 DEF Like
  <2>7. Takes(W, ss, new, rr)
    BY <2>4, <2>5, <2>6 DEF Takes
  <2> QED  BY <2>7 DEF rr
<1>3. CASE same # {}
  <2> DEFINE q == Min(same)
             m == Merge(ss, ss[q], new)
             V == W \cup {m.alpha, m.gamma, m.v}
  <2>1. rr = [ss EXCEPT ![q] = m]
    BY <1>3 DEF AddCompleted
  <2>2. q \in 1..Len(ss) /\ ss[q].item = new.item
    BY <1>3, SameFound
  <2> HIDE DEF q
  <2>3. ss[q] \in State(W) /\ ss[q].kids # <<>>
    BY <1>1, <2>2, ElementOfSeq
  <2>4. Like(m, ss[q]) /\ m \in State(V)
    BY <2>3, MergeKeeps
  <2>5. ss \in Seq(State(V)) /\ W \subseteq V
    BY StatesGrow
  <2> HIDE DEF V
  <2>6. rr \in Seq(State(V)) /\ Replaces(ss, rr, q, m)
    <3> HIDE DEF m
    <3>1. /\ rr \in Seq(State(V)) /\ Len(rr) = Len(ss)
          /\ \A j \in 1..Len(ss) : rr[j] = IF j = q THEN m ELSE ss[j]
      BY <2>1, <2>2, <2>4, <2>5, ExceptSeq
    <3> QED  BY <2>2, <3>1 DEF Replaces
  <2> HIDE DEF rr, m
  <2>7. /\ Distinct(rr) /\ Sorted(rr) /\ Grown(ss, rr) /\ DOMAIN rr = DOMAIN ss
        /\ \A j \in DOMAIN rr : Like(rr[j], ss[j]) /\ rr[j] = IF j = q THEN m ELSE ss[j]
    BY <2>4, <2>5, <2>6, ReplacedCell
  <2>8. \E j \in DOMAIN rr : rr[j].item = new.item
    <3>1. q \in DOMAIN rr /\ Like(rr[q], ss[q])
      BY <1>1, <2>2, <2>7
    <3> QED  BY <2>2, <3>1 DEF Like
  <2>9. \A j \in DOMAIN rr :
          \/ \E i \in DOMAIN ss : rr[j] = ss[i]
          \/ \E i \in DOMAIN ss : ss[i].item = new.item /\ rr[j] = Merge(ss, ss[i], new)
    BY <1>1, <2>2, <2>7 DEF m
  <2>10. ASSUME NEW i \in DOMAIN ss, NEW j \in 1..i
         PROVE  /\ j \in DOMAIN rr /\ Like(rr[j], ss[j])
                /\ ss[j].item # new.item => rr[j] = ss[j]
    <3>1. j \in DOMAIN ss
      BY <1>1
    <3> QED  BY <2>2, <2>7, <3>1
  <2>11. Takes(W, ss, new, rr)
    BY <2>5, <2>6, <2>7, <2>8, <2>9, <2>10 DEF Takes
  <2> QED  BY <2>11 DEF rr
<1> QED  BY <1>2, <1>3

-----------------------------------------------------------------------------
(* The chain when its last cell grows *)

LEMMA ChainFacts ==
  ASSUME NEW W, cells \in Seq(Cell(W)), ChainInv
  PROVE  /\ Len(cells) \in Nat \ {0} /\ Here = cells[Len(cells)] /\ Here.high \in Int
         /\ DOMAIN cells = 1..Len(cells)
         /\ \A c \in 1..Len(cells) :
              /\ cells[c] \in Cell(W) /\ cells[c].states \in Seq(State(W)) /\ CellInv(cells, c)
              /\ Len(cells[c].states) \in Nat
              /\ DOMAIN cells[c].states = 1..Len(cells[c].states)
              /\ \A i \in 1..Len(cells[c].states) :
                   cells[c].states[i] \in State(W) /\ Shaped(cells[c].states[i], c - 1)
<1>1. Len(cells) \in Nat \ {0} /\ DOMAIN cells = 1..Len(cells)
  BY LenProperties DEF ChainInv
<1>2. \A c \in 1..Len(cells) : cells[c] \in Cell(W) /\ cells[c].states \in Seq(State(W))
  <2>1. \A c \in 1..Len(cells) : cells[c] \in Cell(W)
    BY ElementOfSeq
  <2> QED  BY <2>1 DEF Cell
<1>3. Here = cells[Len(cells)] /\ Here.high \in Int
  <2>1. Here = cells[Len(cells)] /\ Len(cells) \in 1..Len(cells)
    BY <1>1 DEF Here, Last
  <2>2. Here \in Cell(W)
    BY <1>2, <2>1
  <2> QED  BY <2>1, <2>2 DEF Cell
<1>4. \A c \in 1..Len(cells) : CellInv(cells, c)
  BY <1>1 DEF ChainInv
<1>5. ASSUME NEW c \in 1..Len(cells)
      PROVE  /\ Len(cells[c].states) \in Nat
             /\ DOMAIN cells[c].states = 1..Len(cells[c].states)
             /\ \A i \in 1..Len(cells[c].states) :
                  cells[c].states[i] \in State(W) /\ Shaped(cells[c].states[i], c - 1)
  <2>1. cells[c].states \in Seq(State(W)) /\ CellInv(cells, c)
    BY <1>2, <1>4
  <2>2. /\ Len(cells[c].states) \in Nat
        /\ DOMAIN cells[c].states = 1..Len(cells[c].states)
        /\ \A i \in 1..Len(cells[c].states) : cells[c].states[i] \in State(W)
    BY <2>1, LenProperties, ElementOfSeq
  <2> QED  BY <2>1, <2>2 DEF CellInv
<1> QED  BY <1>1, <1>2, <1>3, <1>4, <1>5

\* Where the parents of a child are looked for.
LEMMA FromFacts ==
  ASSUME NEW W, cells \in Seq(Cell(W)), ChainInv, NEW c \in 1..Len(cells),
         NEW i \in DOMAIN cells[c].states, Child(cells[c].states[i])
  PROVE  LET child == cells[c].states[i]
             from  == cells[child.item.k + 1].states
         IN /\ child \in State(W) /\ Shaped(child, c - 1)
            /\ child.item.k + 1 \in 1..c - 1
            /\ Len(from) \in Nat /\ DOMAIN from = 1..Len(from)
            /\ \A j \in 1..Len(from) :
                 from[j] \in State(W) /\ Shaped(from[j], child.item.k)
<1> DEFINE child == cells[c].states[i]
           at == child.item.k
<1>1. /\ Len(cells) \in Nat \ {0}
      /\ \A d \in 1..Len(cells) :
           /\ Len(cells[d].states) \in Nat
           /\ DOMAIN cells[d].states = 1..Len(cells[d].states)
           /\ \A j \in 1..Len(cells[d].states) :
                cells[d].states[j] \in State(W) /\ Shaped(cells[d].states[j], d - 1)
  BY ChainFacts
<1>2. child \in State(W) /\ Shaped(child, c - 1)
  BY <1>1
<1> HIDE DEF child
<1>3. at + 1 \in 1..c - 1 /\ at \in Nat
  <2>1. c \in Nat
    BY <1>1
  <2>2. Child(child)
    BY DEF child
  <2> QED  BY <1>2, <2>1, <2>2, ChildIsEarlier, StateTyped
<1> DEFINE d == at + 1
<1>4. d \in 1..Len(cells) /\ d - 1 = at
  BY <1>1, <1>3
<1> HIDE DEF d
<1>5. /\ Len(cells[d].states) \in Nat
      /\ DOMAIN cells[d].states = 1..Len(cells[d].states)
      /\ \A j \in 1..Len(cells[d].states) :
           cells[d].states[j] \in State(W) /\ Shaped(cells[d].states[j], at)
  BY <1>1, <1>4
<1> QED  BY <1>2, <1>3, <1>5 DEF child, d

LEMMA LastCellReplaced ==
  ASSUME NEW W, NEW a \in Seq(Cell(W)), Len(a) > 0, NEW V, W \subseteq V,
         NEW rr \in Seq(State(V))
  PROVE  LET b == [a EXCEPT ![Len(a)].states = rr] IN
         /\ b \in Seq(Cell(V)) /\ Len(b) = Len(a)
         /\ b[Len(a)].states = rr /\ \A d \in 1..Len(a) - 1 : b[d] = a[d]
<1> DEFINE cell == [a[Len(a)] EXCEPT !.states = rr]
           b == [a EXCEPT ![Len(a)].states = rr]
<1>1. Len(a) \in Nat /\ Len(a) \in 1..Len(a)
  BY LenProperties
<1>2. a \in Seq(Cell(V))
  BY StatesGrow
<1>3. a[Len(a)] \in Cell(V)
  BY <1>1, <1>2, ElementOfSeq
<1>4. cell \in Cell(V) /\ cell.states = rr
  BY <1>3 DEF Cell
<1>5. b = [a EXCEPT ![Len(a)] = cell]
  OBVIOUS
<1> HIDE DEF cell
<1> DEFINE n == Len(a)
           r == [a EXCEPT ![n] = cell]
<1>6. /\ r \in Seq(Cell(V)) /\ Len(r) = Len(a)
      /\ \A d \in 1..Len(a) : r[d] = IF d = n THEN cell ELSE a[d]
  <2>1. n \in 1..Len(a)
    BY <1>1
  <2> HIDE DEF n
  <2> QED  BY <1>2, <1>4, <2>1, ExceptSeq
<1>7. b = r
  BY <1>5
<1> HIDE DEF r, b
<1>8. \A d \in 1..Len(a) - 1 : b[d] = a[d]
  BY <1>1, <1>6, <1>7
<1>9. b[Len(a)].states = rr
  BY <1>1, <1>4, <1>6, <1>7
<1> QED  BY <1>6, <1>7, <1>8, <1>9 DEF b

LEMMA LastCellGrows ==
  ASSUME NEW W, NEW a \in Seq(Cell(W)), Len(a) > 0,
         \A c \in 1..Len(a) : CellInv(a, c),
         NEW b, \A d \in 1..Len(a) - 1 : b[d] = a[d],
         NEW rr, rr = b[Len(a)].states, Distinct(rr), Sorted(rr),
         Grown(a[Len(a)].states, rr),
         \A j \in DOMAIN rr :
           /\ Shaped(rr[j], Len(a) - 1)
           /\ Justified(a, Len(a), rr[j]) \/ Justified(b, Len(a), rr[j])
  PROVE  /\ \A c \in 1..Len(a) : CellInv(b, c)
         /\ \A c \in 1..Len(a) - 1 : AllDone(a, c) => AllDone(b, c)
<1>1. Len(a) \in Nat /\ Len(a) \in 1..Len(a)
  BY LenProperties
<1>2. ASSUME NEW c \in 1..Len(a) - 1
      PROVE  CellInv(b, c) /\ (AllDone(a, c) => AllDone(b, c))
  <2>1. c \in 1..Len(a) /\ \A d \in 1..c : b[d] = a[d]
    BY <1>1
  <2> QED  BY <2>1, CellKept
<1>3. \A i \in DOMAIN a[Len(a)].states : Shaped(a[Len(a)].states[i], Len(a) - 1)
  BY <1>1 DEF CellInv
<1>4. \A item, kid : CompletedBy(a, Len(a), item, kid) => CompletedBy(b, Len(a), item, kid)
  BY <1>1, <1>3, CompletedByKept
<1>5. \A j \in DOMAIN rr : Shaped(rr[j], Len(a) - 1) /\ Justified(b, Len(a), rr[j])
  BY <1>4 DEF Justified
<1>6. CellInv(b, Len(a))
  BY <1>5 DEF CellInv
<1>7. \A c \in 1..Len(a) : c \in 1..Len(a) - 1 \/ c = Len(a)
  BY <1>1
<1> QED  BY <1>2, <1>6, <1>7

-----------------------------------------------------------------------------
(* The steps of Complete *)

\* A call's step that leaves the chain and the tokens alone keeps what is said of them.
LEMMA EmptyFresh ==
  ASSUME IInv, pc # "scan", pc' # "scan", UNCHANGED fresh
  PROVE  ScanInv'
<1>1. fresh' = <<>>
  BY DEF IInv, ScanInv
<1>2. DOMAIN fresh' = {}
  BY <1>1
<1> QED  BY <1>1, <1>2 DEF ScanInv, Distinct

\* Where the cursor of Complete stands.
LEMMA AtChild ==
  ASSUME IInv, pc = "complete", CanComplete,
         NEW W, cells \in Seq(Cell(W))
  PROVE  LET ss    == cells[Len(cells)].states
             child == ss[x]
             from  == cells[child.item.k + 1].states
         IN /\ x \in 1..Len(ss) /\ Here.states = ss /\ Child(child)
            /\ child \in State(W) /\ Shaped(child, Len(cells) - 1)
            /\ child.item.k + 1 \in 1..Len(cells) - 1
            /\ \A j \in 1..Len(from) :
                 from[j] \in State(W) /\ Shaped(from[j], child.item.k)
            /\ DOMAIN from = 1..Len(from) /\ Len(from) \in Nat
            /\ Parents = {j \in y..Len(from) : Completes(from[j], child)}
<1> DEFINE n == Len(cells)
           ss == cells[n].states
           child == ss[x]
           from == cells[child.item.k + 1].states
<1>1. n \in Nat \ {0} /\ n \in 1..n /\ Here = cells[n] /\ ChainInv /\ x \in Nat \ {0}
  BY ChainFacts DEF IInv, Control
<1>2. Len(ss) \in Nat /\ DOMAIN ss = 1..Len(ss)
  <2> HIDE DEF n
  <2> QED  BY <1>1, ChainFacts DEF n
<1>3. x \in 1..Len(ss) /\ x \in DOMAIN ss /\ Child(child) /\ Here.states = ss
  BY <1>1, <1>2 DEF CanComplete, Child
<1>4. /\ child \in State(W) /\ Shaped(child, n - 1)
      /\ child.item.k + 1 \in 1..n - 1
      /\ Len(from) \in Nat /\ DOMAIN from = 1..Len(from)
      /\ \A j \in 1..Len(from) : from[j] \in State(W) /\ Shaped(from[j], child.item.k)
  BY <1>1, <1>3, FromFacts
<1>5. Parents = {j \in y..Len(from) : Completes(from[j], child)}
  BY <1>3 DEF Parents
<1> QED  BY <1>3, <1>4, <1>5

\* A turn of Complete's inner loop for the parent at j: new is the state that it makes,
\* the cell it adds it to keeps its order and all up to its cursor, and of the other
\* cells nothing changes.
TurnAdds(W, j, new) ==
  LET n     == Len(cells)
      ss    == cells[n].states
      child == ss[x]
      from  == cells[child.item.k + 1].states
      rr    == cells'[n].states
  IN /\ j \in 1..Len(from) /\ Completes(from[j], child) /\ y' = j + 1
     /\ \A i \in y..j - 1 : ~Completes(from[i], child)
     /\ new.item = Advance(from[j].item) /\ EndsWithNonterminal(new.item)
     /\ Shaped(new, n - 1) /\ new.item.k <= child.item.k
     /\ new.item.k = child.item.k => new.item.dot = 1
     /\ new.kids # <<>> /\ Last(new.kids) = [cell |-> n - 1, item |-> child.item]
     /\ new.kids = Append(from[j].kids, [cell |-> n - 1, item |-> child.item])
     /\ new.label = "completed"
     /\ Distinct(rr) /\ Sorted(rr) /\ Grown(ss, rr)
     /\ \E i \in DOMAIN rr : rr[i].item = new.item
     /\ \A i \in DOMAIN rr :
          \/ rr[i] = new
          \/ \E m \in DOMAIN ss : rr[i] = ss[m]
          \/ \E m \in DOMAIN ss : ss[m].item = new.item /\ rr[i] = Merge(ss, ss[m], new)
     /\ \A i \in 1..x : /\ i \in DOMAIN rr /\ Like(rr[i], ss[i])
                        /\ ss[i].item # new.item => rr[i] = ss[i]
     /\ \E V : /\ W \subseteq V /\ cells' \in Seq(Cell(V)) /\ rr \in Seq(State(V))
              /\ new \in State(V)
     /\ Len(cells') = n /\ \A d \in 1..n - 1 : cells'[d] = cells[d]

LEMMA CompleteParentAdds ==
  ASSUME IInv, CompleteParent,
         NEW W, cells \in Seq(Cell(W))
  PROVE  \E j, new : TurnAdds(W, j, new)
<1> DEFINE n == Len(cells)
           ss == cells[n].states
           child == ss[x]
           at == child.item.k
           from == cells[at + 1].states
           ref == [cell |-> n - 1, item |-> child.item]
<1>0. pc = "complete" /\ CanComplete
  BY DEF CompleteParent
<1>1. /\ n \in Nat \ {0} /\ ss \in Seq(State(W)) /\ CellInv(cells, n)
      /\ Len(ss) \in Nat /\ DOMAIN ss = 1..Len(ss)
      /\ \A i \in 1..Len(ss) : ss[i] \in State(W) /\ Shaped(ss[i], n - 1)
  <2>1. n \in Nat \ {0}
    BY ChainFacts DEF IInv
  <2>2. n \in 1..n
    BY <2>1
  <2> HIDE DEF n
  <2> QED  BY <2>1, <2>2, ChainFacts DEF IInv, n
<1>2. /\ x \in 1..Len(ss) /\ Here.states = ss /\ Child(child)
      /\ child \in State(W) /\ Shaped(child, n - 1)
      /\ at + 1 \in 1..n - 1
      /\ \A j \in 1..Len(from) : from[j] \in State(W) /\ Shaped(from[j], at)
      /\ DOMAIN from = 1..Len(from) /\ Len(from) \in Nat
      /\ Parents = {j \in y..Len(from) : Completes(from[j], child)}
  BY <1>0, AtChild
<1>3. PICK j \in First(Parents) :
        /\ cells' = [cells EXCEPT ![n].states =
                       AddCompleted(ss, Completed(cells[Here.states[x].item.k + 1].states[j],
                                                  Here.states[x],
                                                  [cell |-> n - 1, item |-> Here.states[x].item]))]
        /\ y' = j + 1
  BY DEF CompleteParent
<1> DEFINE new == Completed(from[j], child, ref)
           rr == AddCompleted(ss, new)
<1>4. cells' = [cells EXCEPT ![n].states = rr]
  BY <1>2, <1>3
<1>5. /\ j \in 1..Len(from) /\ Completes(from[j], child)
      /\ \A i \in y..j - 1 : ~Completes(from[i], child)
  <2>1. y \in Nat \ {0}
    BY DEF IInv, Control
  <2>2. j \in Parents /\ \A i \in Parents : j <= i
    BY <1>3 DEF First
  <2> HIDE DEF from, child
  <2>3. j \in 1..Len(from) /\ Completes(from[j], child)
    BY <1>2, <2>1, <2>2
  <2>4. ASSUME NEW i \in y..j - 1, Completes(from[i], child) PROVE FALSE
    <3>1. i \in y..Len(from) /\ ~(j <= i)
      BY <1>2, <2>1, <2>3
    <3>2. i \in Parents
      BY <1>2, <2>4, <3>1
    <3> QED  BY <2>2, <3>1, <3>2
  <2> QED  BY <2>3, <2>4
<1> DEFINE V1 == W \cup {new.alpha, new.gamma, new.v}
<1>6. /\ new \in State(V1)
      /\ new.item = Advance(from[j].item) /\ new.label = "completed"
      /\ EndsWithNonterminal(new.item) /\ Shaped(new, n - 1)
      /\ new.item.k <= at
      /\ new.item.k = at => new.item.dot = 1
      /\ new.kids # <<>> /\ Last(new.kids) = ref
  <2>1. n - 1 \in Nat
    BY <1>1
  <2>2. from[j] \in State(W) /\ Shaped(from[j], at)
    BY <1>2, <1>5
  <2> DEFINE parent == from[j]
  <2> HIDE DEF n, ss, child, from, parent
  <2>3. parent \in State(W) /\ Shaped(parent, child.item.k) /\ Completes(parent, child)
    BY <1>5, <2>2 DEF parent
  <2>4. child \in State(W) /\ Shaped(child, n - 1) /\ Child(child)
    BY <1>2
  <2> DEFINE here == n - 1
  <2>5. here \in Nat /\ Shaped(child, here)
    BY <2>1, <2>4
  <2> HIDE DEF here
  <2>6. LET made == Completed(parent, child, [cell |-> here, item |-> child.item]) IN
        /\ made \in State(W \cup {made.alpha, made.gamma, made.v})
        /\ made.item = Advance(parent.item) /\ made.label = "completed"
        /\ EndsWithNonterminal(made.item) /\ Shaped(made, here)
        /\ made.item.k <= child.item.k
        /\ made.item.k = child.item.k => made.item.dot = 1
        /\ made.kids # <<>> /\ Last(made.kids) = [cell |-> here, item |-> child.item]
    BY <2>3, <2>4, <2>5, NewCompleted
  <2> QED  BY <2>6 DEF parent, here
<1> HIDE DEF n, ss, child, from, new
<1>7. W \subseteq V1 /\ ss \in Seq(State(V1)) /\ cells \in Seq(Cell(V1))
  BY <1>1, StatesGrow
<1> HIDE DEF V1
<1>8. /\ \E V : V1 \subseteq V /\ rr \in Seq(State(V))
      /\ Distinct(rr) /\ Sorted(rr) /\ Grown(ss, rr)
      /\ \E i \in DOMAIN rr : rr[i].item = new.item
      /\ \A i \in DOMAIN rr :
           \/ rr[i] = new
           \/ \E m \in DOMAIN ss : rr[i] = ss[m]
           \/ \E m \in DOMAIN ss : ss[m].item = new.item /\ rr[i] = Merge(ss, ss[m], new)
      /\ \A i \in DOMAIN ss : new.item.k <= ss[i].item.k =>
           \A m \in 1..i : /\ m \in DOMAIN rr /\ Like(rr[m], ss[m])
                           /\ ss[m].item # new.item => rr[m] = ss[m]
  <2>1. Distinct(ss) /\ Sorted(ss) /\ \A i \in DOMAIN ss : Justified(cells, n, ss[i])
    BY <1>1 DEF CellInv, ss
  <2>2. \A i \in DOMAIN ss : ss[i].label # "predicted"
    BY <1>0, <1>2 DEF IInv, ChainInv
  <2>3. \A i \in DOMAIN ss : ss[i].item = new.item => ss[i].kids # <<>>
    BY <1>6, <2>1 DEF Justified
  <2>4. new \in State(V1) /\ new.label = "completed" /\ new.kids # <<>>
    BY <1>6
  <2>5. ss \in Seq(State(V1)) /\ Distinct(ss) /\ Sorted(ss)
    BY <1>7, <2>1
  <2> HIDE DEF rr
  <2>6. rr = AddCompleted(ss, new)
    BY DEF rr
  <2>7. Takes(V1, ss, new, rr)
    BY <2>2, <2>3, <2>4, <2>5, <2>6, AddedCompleted
  <2> QED  BY <2>7 DEF Takes
<1>9. \A i \in 1..x : /\ i \in DOMAIN rr /\ Like(rr[i], ss[i])
                      /\ ss[i].item # new.item => rr[i] = ss[i]
  <2>1. x \in DOMAIN ss /\ new.item.k <= ss[x].item.k
    BY <1>1, <1>2, <1>6 DEF child
  <2> QED  BY <1>8, <2>1
<1> HIDE DEF rr
<1>10. PICK V : V1 \subseteq V /\ rr \in Seq(State(V))
  BY <1>8
<1>11. /\ cells' \in Seq(Cell(V)) /\ Len(cells') = n
       /\ cells'[n].states = rr /\ \A d \in 1..n - 1 : cells'[d] = cells[d]
  <2> DEFINE b == [cells EXCEPT ![Len(cells)].states = rr]
  <2>1. cells \in Seq(Cell(V1)) /\ Len(cells) > 0
    BY <1>1, <1>7 DEF n
  <2>2. /\ b \in Seq(Cell(V)) /\ Len(b) = Len(cells)
        /\ b[Len(cells)].states = rr /\ \A d \in 1..Len(cells) - 1 : b[d] = cells[d]
    BY <1>10, <2>1, LastCellReplaced
  <2>3. cells' = b
    BY <1>4 DEF n
  <2> HIDE DEF b
  <2> QED  BY <2>2, <2>3 DEF n
<1>12. W \subseteq V /\ new \in State(V)
  BY <1>6, <1>7, <1>10, StatesGrow
<1>13. /\ Completes(from[j], child) /\ y' = j + 1
       /\ \A i \in y..j - 1 : ~Completes(from[i], child)
       /\ new.item = Advance(from[j].item) /\ EndsWithNonterminal(new.item)
       /\ Shaped(new, n - 1) /\ new.item.k <= child.item.k
       /\ new.item.k = child.item.k => new.item.dot = 1
       /\ new.kids # <<>> /\ Last(new.kids) = [cell |-> n - 1, item |-> child.item]
       /\ new.label = "completed"
  BY <1>3, <1>5, <1>6
<1>14. new.kids = Append(from[j].kids, ref)
  BY DEF new, Completed
<1>15. TurnAdds(W, j, new)
  BY <1>5, <1>8, <1>9, <1>10, <1>11, <1>12, <1>13, <1>14 DEF TurnAdds, n, ss, child, from
<1> QED  BY <1>15

LEMMA CompleteParentKeeps ==
  ASSUME IInv, CompleteParent
  PROVE  IInv' /\ StaysSettled
<1>0. /\ pc = "complete" /\ CanComplete /\ y \in Nat \ {0}
      /\ UNCHANGED <<fresh, pc, purpose, line, x, upto, input, answer>>
  BY DEF CompleteParent, IInv, Control
<1>1. PICK W : cells \in Seq(Cell(W)) /\ fresh \in Seq(State(W))
  BY DEF IInv, Typed
<1> DEFINE n == Len(cells)
           ss == cells[n].states
           child == ss[x]
           from == cells[child.item.k + 1].states
           rr == cells'[n].states
<1>2a. PICK j, new : TurnAdds(W, j, new)
  BY <1>1, CompleteParentAdds
<1>2.   /\ j \in 1..Len(from)
        /\ Completes(from[j], child) /\ y' = j + 1
        /\ \A i \in y..j - 1 : ~Completes(from[i], child)
        /\ new.item = Advance(from[j].item) /\ EndsWithNonterminal(new.item)
        /\ Shaped(new, n - 1) /\ new.item.k <= child.item.k
        /\ new.item.k = child.item.k => new.item.dot = 1
        /\ new.kids # <<>> /\ Last(new.kids) = [cell |-> n - 1, item |-> child.item]
        /\ new.label = "completed"
        /\ Distinct(rr) /\ Sorted(rr) /\ Grown(ss, rr)
        /\ \E i \in DOMAIN rr : rr[i].item = new.item
        /\ \A i \in DOMAIN rr :
             \/ rr[i] = new
             \/ \E m \in DOMAIN ss : rr[i] = ss[m]
             \/ \E m \in DOMAIN ss : ss[m].item = new.item /\ rr[i] = Merge(ss, ss[m], new)
        /\ \A i \in 1..x : /\ i \in DOMAIN rr /\ Like(rr[i], ss[i])
                           /\ ss[i].item # new.item => rr[i] = ss[i]
        /\ \E V : W \subseteq V /\ cells' \in Seq(Cell(V)) /\ rr \in Seq(State(V))
                  /\ new \in State(V)
        /\ Len(cells') = n /\ \A d \in 1..n - 1 : cells'[d] = cells[d]
  BY <1>2a DEF TurnAdds
<1>2b. /\ j \in 1..Len(from) /\ Completes(from[j], child)
       /\ \A m \in y..j - 1 : ~Completes(from[m], child)
  BY <1>2
<1>2c. /\ new.label = "completed" /\ EndsWithNonterminal(new.item)
       /\ \A i \in DOMAIN rr :
            \/ rr[i] = new
            \/ \E m \in DOMAIN ss : rr[i] = ss[m]
            \/ \E m \in DOMAIN ss : ss[m].item = new.item /\ rr[i] = Merge(ss, ss[m], new)
  BY <1>2
<1>3. PICK V : /\ W \subseteq V /\ cells' \in Seq(Cell(V)) /\ rr \in Seq(State(V))
               /\ new \in State(V)
  BY <1>2
<1>4. /\ x \in 1..Len(ss) /\ Here.states = ss /\ Child(child)
      /\ child \in State(W) /\ Shaped(child, n - 1)
      /\ child.item.k + 1 \in 1..n - 1
      /\ \A i \in 1..Len(from) : from[i] \in State(W) /\ Shaped(from[i], child.item.k)
      /\ DOMAIN from = 1..Len(from) /\ Len(from) \in Nat
  BY <1>0, <1>1, AtChild
<1>5. /\ n \in Nat \ {0} /\ ss \in Seq(State(W)) /\ n \in 1..n
      /\ Len(ss) \in Nat /\ DOMAIN ss = 1..Len(ss)
      /\ \A c \in 1..n : CellInv(cells, c)
      /\ \A i \in 1..Len(ss) : ss[i] \in State(V) /\ Shaped(ss[i], n - 1)
      /\ DOMAIN cells = 1..n
  <2>1. n \in Nat \ {0} /\ \A c \in 1..n : CellInv(cells, c)
    BY <1>1, ChainFacts DEF IInv
  <2>2. n \in 1..n
    BY <2>1
  <2> HIDE DEF n
  <2>3. /\ ss \in Seq(State(W)) /\ Len(ss) \in Nat /\ DOMAIN ss = 1..Len(ss)
        /\ \A i \in 1..Len(ss) : ss[i] \in State(W) /\ Shaped(ss[i], n - 1)
        /\ DOMAIN cells = 1..n
    BY <1>1, <2>2, ChainFacts DEF IInv, n
  <2>4. State(W) \subseteq State(V)
    BY <1>3, StatesGrow
  <2> QED  BY <2>1, <2>2, <2>3, <2>4
<1> HIDE DEF n, ss, child, from, rr
<1>5a. ASSUME NEW m \in DOMAIN ss, ss[m].item = new.item
       PROVE  LET merged == Merge(ss, ss[m], new) IN
              /\ CompletedBy(cells, n, ss[m].item, Last(ss[m].kids))
              /\ Like(merged, ss[m]) /\ merged.kids # <<>>
              /\ Last(merged.kids) \in {Last(ss[m].kids), Last(new.kids)}
              /\ \A k \in DOMAIN merged.kids :
                   merged.kids[k] \in Range(ss[m].kids) \cup Range(new.kids)
  <2> DEFINE old == ss[m]
  <2>1. old \in State(V) /\ Justified(cells, n, old)
    BY <1>5 DEF CellInv, ss
  <2>2. old.kids # <<>> /\ CompletedBy(cells, n, old.item, Last(old.kids))
    BY <1>2, <1>5a, <2>1 DEF Justified
  <2> DEFINE merged == Merge(ss, old, new)
  <2> HIDE DEF old
  <2>3. new.kids # <<>> /\ new \in State(V) /\ old.kids # <<>>
    BY <1>2, <1>3, <2>2
  <2>4. /\ Like(merged, old) /\ merged.kids # <<>>
        /\ Last(merged.kids) \in {Last(old.kids), Last(new.kids)}
        /\ \A k \in DOMAIN merged.kids :
             merged.kids[k] \in Range(old.kids) \cup Range(new.kids)
    BY <2>1, <2>3, MergeKeeps
  <2> QED  BY <2>2, <2>4 DEF old
<1>6. \A i \in DOMAIN rr :
        Shaped(rr[i], n - 1) /\ (Justified(cells, n, rr[i]) \/ Justified(cells', n, rr[i]))
  <2>1. CompletedBy(cells', n, new.item, Last(new.kids))
    <3>1. CompletedBy(cells, n, new.item, Last(new.kids))
      <4>1. x \in DOMAIN cells[n].states /\ cells[n].states[x] = child
        BY <1>4, <1>5 DEF ss, child
      <4>2. j \in DOMAIN from
        BY <1>2, <1>4
      <4> QED  BY <1>2, <1>4, <4>1, <4>2 DEF CompletedBy, from
    <3>2. \A i \in DOMAIN cells[n].states : Shaped(cells[n].states[i], n - 1)
      BY <1>5 DEF ss
    <3>3. n \in 1..Len(cells) /\ Grown(cells[n].states, cells'[n].states)
      BY <1>2, <1>5 DEF n, ss, rr
    <3> QED  BY <1>1, <1>2, <3>1, <3>2, <3>3, CompletedByKept
  <2>2. Justified(cells', n, new)
    BY <1>2, <2>1 DEF Justified
  <2> SUFFICES ASSUME NEW i \in DOMAIN rr
               PROVE  /\ Shaped(rr[i], n - 1)
                      /\ Justified(cells, n, rr[i]) \/ Justified(cells', n, rr[i])
    OBVIOUS
  <2>3. CASE rr[i] = new
    BY <1>2, <2>2, <2>3
  <2>4. ASSUME NEW m \in DOMAIN ss, rr[i] = ss[m]
        PROVE  Shaped(rr[i], n - 1) /\ Justified(cells, n, rr[i])
    BY <1>5, <2>4 DEF CellInv, ss
  <2>5. ASSUME NEW m \in DOMAIN ss, ss[m].item = new.item, rr[i] = Merge(ss, ss[m], new)
        PROVE  /\ Shaped(rr[i], n - 1)
               /\ Justified(cells, n, rr[i]) \/ Justified(cells', n, rr[i])
    <3>1. Shaped(ss[m], n - 1)
      BY <1>5
    <3>2. CompletedBy(cells, n, ss[m].item, Last(ss[m].kids))
      BY <1>5a, <2>5
    <3>3. /\ Like(rr[i], ss[m]) /\ rr[i].kids # <<>>
          /\ Last(rr[i].kids) \in {Last(ss[m].kids), Last(new.kids)}
          /\ \A k \in DOMAIN rr[i].kids :
               rr[i].kids[k] \in Range(ss[m].kids) \cup Range(new.kids)
      BY <1>5a, <2>5
    <3>4. ASSUME NEW k \in DOMAIN rr[i].kids PROVE rr[i].kids[k].cell <= n - 1
      <4>1. \A kid \in Range(ss[m].kids) \cup Range(new.kids) : kid.cell <= n - 1
        BY <1>2, <3>1 DEF Shaped, Range
      <4> QED  BY <3>3, <4>1
    <3>5. Shaped(rr[i], n - 1)
      BY <3>1, <3>3, <3>4 DEF Shaped, Like
    <3>6. Justified(cells, n, rr[i]) \/ Justified(cells', n, rr[i])
      BY <2>1, <2>5, <3>2, <3>3 DEF Justified, Like
    <3> QED  BY <3>5, <3>6
  <2> QED  BY <1>2, <2>3, <2>4, <2>5
<1>7. /\ \A c \in 1..n : CellInv(cells', c)
      /\ \A c \in 1..n - 1 : AllDone(cells, c) => AllDone(cells', c)
  <2>1. Len(cells) > 0 /\ \A c \in 1..Len(cells) : CellInv(cells, c)
    BY <1>5 DEF n
  <2>2. \A i \in DOMAIN rr :
          /\ Shaped(rr[i], Len(cells) - 1)
          /\ Justified(cells, Len(cells), rr[i]) \/ Justified(cells', Len(cells), rr[i])
    BY <1>6 DEF n
  <2> QED  BY <1>1, <1>2, <2>1, <2>2, LastCellGrows DEF n, ss, rr
<1>8. DOMAIN cells' = 1..n
  BY <1>2, <1>3, LenProperties
<1>9. Done(cells', n, x, j + 1)
  <2> SUFFICES ASSUME NEW i \in DOMAIN rr, Child(rr[i]),
                      NEW k \in DOMAIN cells'[rr[i].item.k + 1].states,
                      i < x \/ (i = x /\ k < j + 1),
                      Completes(cells'[rr[i].item.k + 1].states[k], rr[i])
               PROVE  Same(rr, Advance(cells'[rr[i].item.k + 1].states[k].item)) # {}
    BY DEF Done, rr
  <2>1. i \in 1..x /\ i \in DOMAIN ss
    <3>1. DOMAIN rr = 1..Len(rr) /\ Len(rr) \in Nat
      BY <1>3, LenProperties
    <3> QED  BY <1>4, <1>5, <3>1
  <2>2. Like(rr[i], ss[i])
    BY <1>2, <2>1
  <2>3. Child(ss[i]) /\ ss[i].item = rr[i].item
        /\ \A parent : Completes(parent, ss[i]) <=> Completes(parent, rr[i])
    <3>1. ss[i].item = rr[i].item
      BY <2>2 DEF Like
    <3> QED  BY <2>2, <3>1, LikeChild
  <2>4. cells'[rr[i].item.k + 1] = cells[ss[i].item.k + 1]
        /\ ss[i].item.k + 1 \in 1..n - 1
    <3>1. ss[i] \in State(V) /\ Shaped(ss[i], n - 1)
      BY <1>5, <2>1
    <3>2. ss[i].item.k + 1 \in 1..n - 1
      BY <1>5, <2>3, <3>1, ChildIsEarlier
    <3> QED  BY <1>2, <2>3, <3>2
  <2> DEFINE item == Advance(cells[ss[i].item.k + 1].states[k].item)
  <2>5. k \in DOMAIN cells[ss[i].item.k + 1].states
        /\ Completes(cells[ss[i].item.k + 1].states[k], ss[i])
    BY <2>3, <2>4
  <2>6. CASE i < x \/ (i = x /\ k < y)
    <3>1. Same(ss, item) # {}
      BY <1>0, <2>1, <2>3, <2>5, <2>6 DEF IInv, ChainInv, Done, n, ss
    <3>2. PICK m \in DOMAIN ss : ss[m].item = item
      BY <3>1 DEF Same
    <3>3. PICK l \in DOMAIN rr : Like(rr[l], ss[m])
      BY <1>2 DEF Grown
    <3>4. rr[l].item = item
      BY <3>2, <3>3 DEF Like
    <3> QED  BY <2>4, <3>4 DEF Same
  <2>7. CASE i = x /\ ~(k < y)
    <3>1. child = ss[i] /\ k \in 1..Len(from) /\ Completes(from[k], child)
      BY <1>4, <2>5, <2>7 DEF child, from
    <3>2. k = j
      <4>1. j \in Nat /\ k \in Nat /\ y \in Nat /\ k < j + 1 /\ ~(k < y)
        BY <1>0, <1>2b, <1>4, <2>1, <2>7, <3>1
      <4>2. k \notin y..j - 1
        BY <1>2b, <3>1
      <4> QED  BY <4>1, <4>2
    <3>3. item = new.item
      BY <1>2, <3>1, <3>2 DEF from
    <3> QED  BY <1>2, <2>4, <3>3 DEF Same
  <2> QED  BY <2>6, <2>7
<1>10. \A i \in DOMAIN rr : rr[i].label # "predicted"
  <2>1. \A m \in DOMAIN ss : ss[m].label # "predicted"
    BY <1>0, <1>4 DEF IInv, ChainInv
  <2>2. ASSUME NEW i \in DOMAIN rr, NEW m \in DOMAIN ss, ss[m].item = new.item,
               rr[i] = Merge(ss, ss[m], new)
        PROVE  rr[i].label # "predicted"
    <3>1. EndsWithNonterminal(rr[i].item)
      BY <1>2c, <1>5a, <2>2 DEF Like
    <3>2. rr[i].label = LabelOf(rr[i].item)
      BY <1>6 DEF Shaped
    <3> QED  BY <3>1, <3>2 DEF LabelOf, EndsWithNonterminal
  <2> QED  BY <1>2c, <2>1, <2>2
<1>11. Here'.states = rr /\ Len(rr) \in Nat
  <2>1. Here' = cells'[n]
    BY <1>2 DEF Here, Last
  <2> QED  BY <1>3, <2>1, LenProperties DEF rr
<1>12. ChainInv'
  <2>1. Len(cells') > 0 /\ \A c \in DOMAIN cells' : CellInv(cells', c)
    BY <1>2, <1>5, <1>7, <1>8
  <2>2. ASSUME NEW c \in DOMAIN cells', c < Len(cells') \/ pc' # "complete"
        PROVE  AllDone(cells', c)
    <3>1. c \in 1..n - 1 /\ c \in DOMAIN cells /\ c < Len(cells)
      BY <1>0, <1>2, <1>5, <1>8, <2>2 DEF n
    <3>2. AllDone(cells, c)
      BY <3>1 DEF IInv, ChainInv
    <3> QED  BY <1>7, <3>1, <3>2
  <2>3. Done(cells', Len(cells'), x', y')
    BY <1>0, <1>2, <1>9
  <2>4. \A i \in DOMAIN Here'.states : Here'.states[i].label # "predicted"
    BY <1>10, <1>11
  <2> QED  BY <2>1, <2>2, <2>3, <2>4 DEF ChainInv
<1>13. Typed'
  <2>1. fresh' \in Seq(State(V))
    BY <1>0, <1>1, <1>3, StatesGrow
  <2> QED  BY <1>3, <2>1 DEF Typed
<1>14. LineOK(line)' /\ ScanInv'
  <2>1. LineOK(line)'
    BY <1>0 DEF IInv, LineOK
  <2> QED  BY <1>0, <2>1, EmptyFresh
<1>15. Control'
  <2>1. upto' = 0 /\ Len(cells') = Len(cells)
    BY <1>0, <1>2 DEF IInv, Control, n
  <2>2. upto' \in 0..Len(Here'.states)
    BY <1>11, <2>1
  <2>3. y' \in Nat \ {0}
    BY <1>2, <1>4
  <2>4. input' = input /\ Len(input) <= MaxParse /\ \E L : input \in Seq(L)
    BY <1>0 DEF IInv, Control
  <2>5. x' \in Nat \ {0} /\ purpose' # "construct"
        /\ purpose' \in {"none", "construct", "parse", "prediction", "viterbi"}
        /\ Len(cells') > 1
    BY <1>0, <2>1 DEF IInv, Control
  <2> QED  BY <1>0, <2>1, <2>2, <2>3, <2>4, <2>5 DEF Control
<1>16. StaysSettled
  <2> SUFFICES ASSUME NEW i \in 1..x
               PROVE  /\ rr[i].item = ss[i].item
                      /\ Finished(ss[i]) /\ ~IsUnit(ss[i]) =>
                           /\ rr[i].alpha = ss[i].alpha /\ rr[i].gamma = ss[i].gamma
                           /\ rr[i].v = ss[i].v
    <3>1. Here.states = ss /\ Last(cells').states = rr
      BY <1>4, <1>11 DEF Here
    <3> QED  BY <3>1 DEF StaysSettled
  <2>1. rr[i].item = ss[i].item
    BY <1>2 DEF Like
  <2>2. CASE ss[i].item # new.item
    BY <1>2, <2>2
  <2>3. CASE ss[i].item = new.item
    <3>1. i \in 1..Len(ss) /\ ss[i] \in State(V) /\ Shaped(ss[i], n - 1)
      BY <1>4, <1>5
    <3>2. ss[i].label = "completed"
      BY <1>2, <2>3, <3>1 DEF Shaped
    <3>3. child.label = "completed" /\ ss[i].item.k >= child.item.k
      <4>1. child.label # "predicted" /\ child.label \in Labels
        BY <1>0, <1>4, <1>5, StateTyped DEF IInv, ChainInv, child
      <4>2. CASE i = x
        <5>1. child.item.k \in Int
          BY <1>4, StateTyped
        <5> QED  BY <3>2, <4>2, <5>1 DEF child
      <4>3. CASE i # x
        <5>1. i < x /\ i \in DOMAIN ss /\ x \in DOMAIN ss
          BY <1>4, <1>5, <3>1, <4>3
        <5>2. Follows(ss[i], child)
          BY <1>5, <5>1 DEF CellInv, Sorted, ss, child
        <5>3. child.label = "completed"
          BY <3>2, <4>1, <5>2 DEF Follows, Rank, Labels
        <5> QED  BY <3>2, <5>2, <5>3 DEF Follows
      <4> QED  BY <4>2, <4>3
    <3>4. new.item.dot = 1
      <4>1. child.item.k \in Int /\ new.item.k \in Int
        BY <1>3, <1>4, StateTyped
      <4> QED  BY <1>2, <2>3, <3>3, <4>1
    <3>5. Finished(ss[i]) => IsUnit(ss[i])
      BY <1>2, <2>3, <3>4 DEF Finished, IsUnit, EndsWithNonterminal, SymbolBefore
    <3> QED  BY <2>1, <3>5
  <2> QED  BY <2>1, <2>2, <2>3
<1> QED  BY <1>12, <1>13, <1>14, <1>15, <1>16 DEF IInv

\* A step that leaves the chain alone keeps what is said of it, unless Complete leaves
\* its loops early.
LEMMA ChainStays ==
  ASSUME IInv, UNCHANGED cells, pc' # "complete",
         pc = "complete" => x > Len(Here.states)
  PROVE  ChainInv'
<1>1. PICK W : cells \in Seq(Cell(W))
  BY DEF IInv, Typed
<1>2. /\ Len(cells) \in Nat \ {0} /\ DOMAIN cells = 1..Len(cells)
      /\ Here.states = cells[Len(cells)].states
      /\ DOMAIN cells[Len(cells)].states = 1..Len(cells[Len(cells)].states)
      /\ Len(cells[Len(cells)].states) \in Nat
  <2>1. Len(cells) \in Nat \ {0} /\ DOMAIN cells = 1..Len(cells) /\ Here = cells[Len(cells)]
    BY <1>1, ChainFacts DEF IInv
  <2>2. Len(cells) \in 1..Len(cells)
    BY <2>1
  <2> QED  BY <1>1, <2>1, <2>2, ChainFacts DEF IInv
<1>3. ASSUME NEW c \in DOMAIN cells PROVE AllDone(cells, c)
  <2>1. CASE c < Len(cells) \/ pc # "complete"
    BY <2>1 DEF IInv, ChainInv
  <2>2. CASE c = Len(cells) /\ pc = "complete"
    <3>1. Done(cells, c, x, y) /\ x > Len(cells[c].states) /\ x \in Nat
      BY <1>2, <2>2 DEF IInv, ChainInv, Control
    <3>2. \A i \in DOMAIN cells[c].states : i < x
      BY <1>2, <2>2, <3>1
    <3> QED  BY <3>1, <3>2 DEF Done, AllDone
  <2> QED  BY <1>2, <2>1, <2>2
<1> QED  BY <1>3 DEF IInv, ChainInv

LEMMA CompleteNextKeeps ==
  ASSUME IInv, CompleteNext
  PROVE  IInv'
<1>0. /\ pc = "complete" /\ (CanComplete => Parents = {}) /\ x <= Len(Here.states)
      /\ x' = x + 1 /\ y' = 1
      /\ UNCHANGED <<cells, fresh, pc, purpose, line, upto, input, answer>>
  BY DEF CompleteNext
<1>1. PICK W : cells \in Seq(Cell(W))
  BY DEF IInv, Typed
<1> DEFINE n == Len(cells)
           ss == cells[n].states
<1>2. /\ n \in Nat \ {0} /\ n \in 1..Len(cells) /\ Here.states = ss
      /\ DOMAIN ss = 1..Len(ss) /\ Len(ss) \in Nat
  <2>1. n \in Nat \ {0} /\ n \in 1..n /\ Here = cells[n]
    BY <1>1, ChainFacts DEF IInv
  <2> HIDE DEF n
  <2> QED  BY <1>1, <2>1, ChainFacts DEF IInv, n
<1> DEFINE from(i) == cells[ss[i].item.k + 1].states
<1>3. /\ x \in Nat \ {0} /\ y \in Nat \ {0}
      /\ \A i \in DOMAIN ss : Child(ss[i]) =>
           \A k \in DOMAIN from(i) :
             /\ i < x \/ (i = x /\ k < y) => 
                  (Completes(from(i)[k], ss[i]) => Same(ss, Advance(from(i)[k].item)) # {})
             /\ i = x => k < y \/ ~Completes(from(i)[k], ss[i])
             /\ i \in Nat /\ k \in Nat \ {0}
  <2>0. x \in Nat \ {0} /\ y \in Nat \ {0} /\ Done(cells, n, x, y)
    BY <1>0 DEF IInv, ChainInv, Control
  <2> SUFFICES ASSUME NEW i \in DOMAIN ss, Child(ss[i])
               PROVE  \A k \in DOMAIN from(i) :
                 /\ i < x \/ (i = x /\ k < y) => 
                      (Completes(from(i)[k], ss[i]) =>
                         Same(ss, Advance(from(i)[k].item)) # {})
                 /\ i = x => k < y \/ ~Completes(from(i)[k], ss[i])
                 /\ i \in Nat /\ k \in Nat \ {0}
    BY <2>0
  <2>1. Len(from(i)) \in Nat /\ DOMAIN from(i) = 1..Len(from(i))
    BY <1>1, <1>2, FromFacts DEF IInv
  <2>2. \A k \in DOMAIN from(i) : i < x \/ (i = x /\ k < y) => 
          (Completes(from(i)[k], ss[i]) => Same(ss, Advance(from(i)[k].item)) # {})
    BY <2>0 DEF Done
  <2>3. i = x => Parents = {} /\ Parents = {k \in y..Len(from(i)) : Completes(from(i)[k], ss[i])}
    <3> HAVE i = x
    <3>1. CanComplete
      BY <1>0, <1>2 DEF CanComplete, Child
    <3> QED  BY <1>0, <1>1, <3>1, AtChild
  <2> HIDE DEF n, ss, from
  <2>4. \A k \in DOMAIN from(i) : i = x => k < y \/ ~Completes(from(i)[k], ss[i])
    BY <2>0, <2>1, <2>3
  <2>5. i \in Nat /\ \A k \in DOMAIN from(i) : k \in Nat \ {0}
    BY <1>2, <2>1
  <2> QED  BY <2>2, <2>4, <2>5
<1> HIDE DEF n, ss, from
<1>4. \A i \in DOMAIN ss : Child(ss[i]) => \A k \in DOMAIN from(i) :
        (i < x + 1 \/ (i = x + 1 /\ k < 1)) /\ Completes(from(i)[k], ss[i]) =>
          Same(ss, Advance(from(i)[k].item)) # {}
  BY <1>3
<1>5. Done(cells, n, x + 1, 1)
  BY <1>4 DEF Done, ss, from
<1>6. ChainInv'
  BY <1>0, <1>5 DEF IInv, ChainInv, Here, n
<1>7. Typed' /\ LineOK(line)' /\ ScanInv'
  <2>1. pc # "scan" /\ pc' # "scan"
    BY <1>0
  <2>2. ScanInv'
    BY <1>0, <2>1, EmptyFresh
  <2> QED  BY <1>0, <2>2 DEF IInv, Typed, LineOK
<1>8. Control'
  BY <1>0 DEF IInv, Control, Here
<1> QED  BY <1>6, <1>7, <1>8 DEF IInv

LEMMA CompleteDoneKeeps ==
  ASSUME IInv, CompleteDone
  PROVE  IInv'
<1>0. /\ pc = "complete" /\ pc' = "predict" /\ x > Len(Here.states)
      /\ x' = 1 /\ y' = 1 /\ upto' = Len(Here.states)
      /\ UNCHANGED <<cells, fresh, purpose, line, input, answer>>
  BY DEF CompleteDone
<1>1. PICK W : cells \in Seq(Cell(W))
  BY DEF IInv, Typed
<1>2. Len(Here.states) \in Nat
  <2>1. Len(cells) \in Nat \ {0} /\ Here = cells[Len(cells)] /\ Len(cells) \in 1..Len(cells)
    BY <1>1, ChainFacts DEF IInv
  <2> QED  BY <1>1, <2>1, ChainFacts DEF IInv
<1>3. ChainInv' /\ ScanInv'
  BY <1>0, ChainStays, EmptyFresh
<1>4. Typed' /\ LineOK(line)'
  BY <1>0 DEF IInv, Typed, LineOK
<1>5. Control'
  BY <1>0, <1>2 DEF IInv, Control, Here
<1> QED  BY <1>3, <1>4, <1>5 DEF IInv

-----------------------------------------------------------------------------
(* The steps of Predict *)

LEMMA AddedPredicted ==
  ASSUME NEW W, NEW ss \in Seq(State(W)), NEW new \in State(W),
         Distinct(ss), Sorted(ss), new.label = "predicted"
  PROVE  LET rr == AddPredicted(ss, new) IN
         /\ \E V : W \subseteq V /\ rr \in Seq(State(V))
         /\ Distinct(rr) /\ Sorted(rr) /\ Grown(ss, rr) /\ Len(rr) >= Len(ss)
         /\ \A j \in DOMAIN rr :
              rr[j] = new \/ \E i \in DOMAIN ss : Like(rr[j], ss[i]) /\ rr[j].kids = ss[i].kids
<1> DEFINE rr == AddPredicted(ss, new)
           same == Same(ss, new.item)
<1>1. Len(ss) \in Nat /\ DOMAIN ss = 1..Len(ss)
  BY LenProperties
<1>2. CASE same = {}
  <2> DEFINE p == Len(ss) + 1
  <2>1. rr = Append(ss, new)
    BY <1>2 DEF AddPredicted
  <2> HIDE DEF rr
  <2>2. /\ rr \in Seq(State(W)) /\ Len(rr) = Len(ss) + 1
        /\ \A i \in 1..Len(ss) : rr[i] = ss[i]
        /\ rr[Len(ss) + 1] = new
    BY <2>1, AppendProperties
  <2>3. Inserts(ss, rr, p, new)
    <3>1. ASSUME NEW j \in 1..Len(rr)
          PROVE  rr[j] = IF j < p THEN ss[j] ELSE IF j = p THEN new ELSE ss[j - 1]
      <4>1. CASE j \in 1..Len(ss)
        BY <1>1, <2>2, <4>1
      <4>2. CASE j = p
        BY <1>1, <2>2, <4>2
      <4> QED  BY <1>1, <2>2, <4>1, <4>2
    <3>2. p \in 1..Len(ss) + 1
      BY <1>1
    <3> QED  BY <2>2, <3>1, <3>2 DEF Inserts
  <2>4. ASSUME NEW i \in 1..Len(ss) PROVE i < p /\ Follows(ss[i], new)
    <3>1. ss[i].label \in Labels
      <4>1. ss[i] \in State(W)
        BY ElementOfSeq
      <4> QED  BY <4>1, StateTyped
    <3> QED  BY <1>1, <3>1 DEF Follows, Rank, Labels
  <2>5. \A i \in 1..Len(ss) : ~(i >= p)
    BY <1>1
  <2> HIDE DEF p
  <2>6. /\ Distinct(rr) /\ Sorted(rr) /\ Grown(ss, rr)
        /\ \A j \in DOMAIN rr : rr[j] = new \/ \E i \in DOMAIN ss : rr[j] = ss[i]
    BY <1>2, <2>2, <2>3, <2>4, <2>5, InsertedCell
  <2>7. Len(rr) >= Len(ss)
    BY <1>1, <2>2
  <2> QED  BY <2>2, <2>6, <2>7 DEF rr, Like
<1>3. CASE same # {}
  <2> DEFINE q == Min(same)
             m == [ss[q] EXCEPT !.alpha = Plus(@, new.alpha)]
             V == W \cup {m.alpha}
  <2>1. rr = [ss EXCEPT ![q] = m]
    BY <1>3 DEF AddPredicted
  <2>2. q \in 1..Len(ss)
    BY <1>3, SameFound
  <2> HIDE DEF q
  <2>3. ss[q] \in State(W)
    BY <1>1, <2>2, ElementOfSeq
  <2>4. Like(m, ss[q]) /\ m \in State(V) /\ m.kids = ss[q].kids
    BY <2>3 DEF State, Like
  <2>5. ss \in Seq(State(V)) /\ W \subseteq V
    BY StatesGrow
  <2> HIDE DEF V, m
  <2>6. /\ rr \in Seq(State(V)) /\ Len(rr) = Len(ss)
        /\ \A j \in 1..Len(ss) : rr[j] = IF j = q THEN m ELSE ss[j]
    BY <2>1, <2>2, <2>4, <2>5, ExceptSeq
  <2> HIDE DEF rr
  <2>7. Replaces(ss, rr, q, m)
    BY <2>2, <2>6 DEF Replaces
  <2>8. /\ Distinct(rr) /\ Sorted(rr) /\ Grown(ss, rr) /\ DOMAIN rr = DOMAIN ss
        /\ \A j \in DOMAIN rr : Like(rr[j], ss[j]) /\ rr[j] = IF j = q THEN m ELSE ss[j]
    BY <2>4, <2>5, <2>6, <2>7, ReplacedCell
  <2>9. \A j \in DOMAIN rr : Like(rr[j], ss[j]) /\ rr[j].kids = ss[j].kids
    BY <2>4, <2>8
  <2>10. Len(rr) >= Len(ss)
    BY <1>1, <2>6
  <2> QED  BY <2>5, <2>6, <2>8, <2>9, <2>10 DEF rr
<1> QED  BY <1>2, <1>3

\* A prediction starts and ends in the cell it is made for.
LEMMA NewPredicted ==
  ASSUME NEW W, Len(cells) \in Nat \ {0}, Here.high \in Int, NEW s, NEW r \in DOMAIN Rules
  PROVE  LET new == Predicted(s, Rules[r]) IN
         /\ new \in State(W \cup {new.alpha, new.gamma, new.v})
         /\ new.label = "predicted" /\ Shaped(new, Len(cells) - 1)
         /\ ~EndsWithNonterminal(new.item) /\ ~Child(new)
<1> DEFINE new == Predicted(s, Rules[r])
           V == W \cup {new.alpha, new.gamma, new.v}
           here == Len(cells) - 1
<1>1. Rules[r].rhs \in Seq(Symbols) /\ Rules[r].rhs # <<>> /\ Rules[r].lhs \in Nonterminals
      /\ Len(Rules[r].rhs) \in Nat \ {0} /\ Rules[r].lhs # Empty
  BY Grammar, EmptySeq
<1>2. here \in Nat
  OBVIOUS
<1> HIDE DEF here
<1>3. new = [item |-> [k |-> here, dot |-> 0, lhs |-> Rules[r].lhs, rhs |-> Rules[r].rhs],
             label |-> "predicted", alpha |-> new.alpha, gamma |-> new.gamma, v |-> new.v,
             low |-> Here.high, high |-> Here.high, kids |-> <<>>]
  BY DEF Predicted, here
<1>4. new.alpha \in V /\ new.gamma \in V /\ new.v \in V
  OBVIOUS
<1> HIDE DEF new, V
<1>5. new.item \in Item /\ <<>> \in Seq(Kid)
  BY <1>1, <1>2, <1>3 DEF Item
<1>6. new \in State(V)
  <2>1. new.low \in Int /\ new.high \in Int /\ new.label \in Labels /\ new.kids \in Seq(Kid)
    <3>1. new.low = Here.high /\ new.high = Here.high /\ new.label = "predicted"
      BY <1>3
    <3>2. new.kids = <<>>
      BY <1>3
    <3>3. new.kids \in Seq(Kid)
      BY <1>5, <3>2
    <3> QED  BY <3>1, <3>3 DEF Labels
  <2>2. new = [item |-> new.item, label |-> new.label, alpha |-> new.alpha,
               gamma |-> new.gamma, v |-> new.v, low |-> new.low, high |-> new.high,
               kids |-> new.kids]
    BY <1>3
  <2> QED  BY <1>4, <1>5, <2>1, <2>2 DEF State
<1>7. Shaped(new, here) /\ ~EndsWithNonterminal(new.item) /\ ~Child(new)
  BY <1>1, <1>2, <1>3 DEF Shaped, LabelOf, EndsWithNonterminal, Child, Finished
<1> QED  BY <1>3, <1>6, <1>7 DEF new, V, here

\* A turn of Predict's inner loop for rule r: new is the state that it makes, and it is
\* added to the cell, or its weight to the state that has its item.
TurnPredicts(W, r, new) ==
  LET n  == Len(cells)
      ss == cells[n].states
      rr == cells'[n].states
  IN /\ r \in DOMAIN Rules /\ r \in Nat /\ y' = r + 1
     /\ new = Predicted(Here.states[x], Rules[r])
     /\ Shaped(new, n - 1) /\ ~EndsWithNonterminal(new.item) /\ ~Child(new)
     /\ Distinct(rr) /\ Sorted(rr) /\ Grown(ss, rr) /\ Len(rr) >= Len(ss)
     /\ \A j \in DOMAIN rr :
          rr[j] = new \/ \E i \in DOMAIN ss : Like(rr[j], ss[i]) /\ rr[j].kids = ss[i].kids
     /\ \E V : W \subseteq V /\ cells' \in Seq(Cell(V)) /\ rr \in Seq(State(V))
     /\ Len(cells') = n /\ \A d \in 1..n - 1 : cells'[d] = cells[d]

LEMMA PredictRuleAdds ==
  ASSUME IInv, PredictRule,
         NEW W, cells \in Seq(Cell(W))
  PROVE  \E r, new : TurnPredicts(W, r, new)
<1>0. y \in Nat \ {0}
  BY DEF IInv, Control
<1> DEFINE n == Len(cells)
           ss == cells[n].states
<1>2. PICK r \in First(Corners) :
        /\ cells' = [cells EXCEPT ![n].states = AddPredicted(ss, Predicted(Here.states[x], Rules[r]))]
        /\ y' = r + 1
  BY DEF PredictRule
<1>3. r \in DOMAIN Rules /\ r \in Nat
  BY <1>0, <1>2, Grammar DEF First, Corners
<1> DEFINE new == Predicted(Here.states[x], Rules[r])
           rr == AddPredicted(ss, new)
           V1 == W \cup {new.alpha, new.gamma, new.v}
<1>4. /\ n \in Nat \ {0} /\ n \in 1..n /\ Here = cells[n] /\ Here.high \in Int
      /\ DOMAIN cells = 1..n /\ \A c \in 1..n : CellInv(cells, c)
  BY ChainFacts DEF IInv
<1>5. /\ ss \in Seq(State(W)) /\ Len(ss) \in Nat /\ DOMAIN ss = 1..Len(ss)
  <2> HIDE DEF n
  <2> QED  BY <1>4, ChainFacts DEF IInv, n
<1>6. /\ new \in State(V1) /\ new.label = "predicted" /\ Shaped(new, n - 1)
      /\ ~EndsWithNonterminal(new.item) /\ ~Child(new)
  <2> DEFINE s == Here.states[x]
  <2> HIDE DEF s
  <2>1. LET made == Predicted(s, Rules[r]) IN
        /\ made \in State(W \cup {made.alpha, made.gamma, made.v})
        /\ made.label = "predicted" /\ Shaped(made, Len(cells) - 1)
        /\ ~EndsWithNonterminal(made.item) /\ ~Child(made)
    BY <1>3, <1>4, NewPredicted
  <2> QED  BY <2>1 DEF s
<1>7. cells' = [cells EXCEPT ![n].states = rr]
  BY <1>2
<1>8. cells \in Seq(Cell(V1)) /\ ss \in Seq(State(V1)) /\ W \subseteq V1
  <2>1. W \subseteq V1
    OBVIOUS
  <2> HIDE DEF V1, ss
  <2> QED  BY <1>5, <2>1, StatesGrow
<1> HIDE DEF V1, new, ss
<1>9. /\ \E V : V1 \subseteq V /\ rr \in Seq(State(V))
      /\ Distinct(rr) /\ Sorted(rr) /\ Grown(ss, rr) /\ Len(rr) >= Len(ss)
      /\ \A j \in DOMAIN rr :
           rr[j] = new \/ \E i \in DOMAIN ss : Like(rr[j], ss[i]) /\ rr[j].kids = ss[i].kids
  <2>1. Distinct(ss) /\ Sorted(ss)
    BY <1>4 DEF CellInv, ss
  <2> QED  BY <1>6, <1>8, <2>1, AddedPredicted
<1>10. PICK V : V1 \subseteq V /\ rr \in Seq(State(V))
  BY <1>9
<1> HIDE DEF rr
<1>11. /\ cells' \in Seq(Cell(V)) /\ Len(cells') = n
       /\ cells'[n].states = rr /\ \A d \in 1..n - 1 : cells'[d] = cells[d]
  <2> DEFINE b == [cells EXCEPT ![Len(cells)].states = rr]
  <2>1. cells \in Seq(Cell(V1)) /\ Len(cells) > 0
    BY <1>4, <1>8
  <2>2. /\ b \in Seq(Cell(V)) /\ Len(b) = Len(cells)
        /\ b[Len(cells)].states = rr /\ \A d \in 1..Len(cells) - 1 : b[d] = cells[d]
    BY <1>10, <2>1, LastCellReplaced
  <2>3. cells' = b
    BY <1>7
  <2> HIDE DEF b
  <2> QED  BY <2>2, <2>3
<1>12. W \subseteq V
  BY <1>8, <1>10
<1> HIDE DEF n
<1>13. TurnPredicts(W, r, new)
  BY <1>2, <1>3, <1>6, <1>9, <1>10, <1>11, <1>12 DEF TurnPredicts, new, ss, n
<1> QED  BY <1>13

LEMMA PredictRuleKeeps ==
  ASSUME IInv, PredictRule
  PROVE  IInv'
<1>0. /\ pc = "predict" /\ y \in Nat \ {0} /\ CanPredict
      /\ UNCHANGED <<fresh, pc, purpose, line, x, upto, input, answer>>
  BY DEF PredictRule, IInv, Control
<1>1. PICK W : cells \in Seq(Cell(W)) /\ fresh \in Seq(State(W))
  BY DEF IInv, Typed
<1> DEFINE n == Len(cells)
           ss == cells[n].states
           rr == cells'[n].states
<1>2. PICK r, new : TurnPredicts(W, r, new)
  BY <1>1, PredictRuleAdds
<1>3. r \in DOMAIN Rules /\ r \in Nat /\ y' = r + 1
  BY <1>2 DEF TurnPredicts
<1>4. /\ n \in Nat \ {0} /\ n \in 1..n /\ Here = cells[n] /\ Here.high \in Int
      /\ DOMAIN cells = 1..n /\ \A c \in 1..n : CellInv(cells, c)
  BY <1>1, ChainFacts DEF IInv
<1>5. /\ ss \in Seq(State(W)) /\ Len(ss) \in Nat /\ DOMAIN ss = 1..Len(ss)
  <2> HIDE DEF n
  <2> QED  BY <1>1, <1>4, ChainFacts DEF IInv, n
<1>6. Shaped(new, n - 1) /\ ~EndsWithNonterminal(new.item) /\ ~Child(new)
  BY <1>2 DEF TurnPredicts
<1>7. /\ Distinct(rr) /\ Sorted(rr) /\ Grown(ss, rr) /\ Len(rr) >= Len(ss)
      /\ \A j \in DOMAIN rr :
           rr[j] = new \/ \E i \in DOMAIN ss : Like(rr[j], ss[i]) /\ rr[j].kids = ss[i].kids
  BY <1>2 DEF TurnPredicts
<1>8. PICK V : W \subseteq V /\ cells' \in Seq(Cell(V)) /\ rr \in Seq(State(V))
  BY <1>2 DEF TurnPredicts
<1>9. Len(cells') = n /\ cells'[n].states = rr /\ \A d \in 1..n - 1 : cells'[d] = cells[d]
  BY <1>2 DEF TurnPredicts
<1> HIDE DEF n, ss, rr
<1>10. \A j \in DOMAIN rr : Shaped(rr[j], n - 1) /\ Justified(cells, n, rr[j])
  <2> SUFFICES ASSUME NEW j \in DOMAIN rr
               PROVE  Shaped(rr[j], n - 1) /\ Justified(cells, n, rr[j])
    OBVIOUS
  <2>1. CASE rr[j] = new
    BY <1>6, <2>1 DEF Justified
  <2>2. ASSUME NEW i \in DOMAIN ss, Like(rr[j], ss[i]), rr[j].kids = ss[i].kids
        PROVE  Shaped(rr[j], n - 1) /\ Justified(cells, n, rr[j])
    <3>1. Shaped(ss[i], n - 1) /\ Justified(cells, n, ss[i])
      BY <1>4 DEF CellInv, ss
    <3> QED  BY <2>2, <3>1 DEF Shaped, Justified, Like
  <2> QED  BY <1>7, <2>1, <2>2
<1>11. /\ \A c \in 1..n : CellInv(cells', c)
       /\ \A c \in 1..n - 1 : AllDone(cells, c) => AllDone(cells', c)
  <2>1. Len(cells) > 0 /\ \A c \in 1..Len(cells) : CellInv(cells, c)
    BY <1>4 DEF n
  <2>2. \A i \in DOMAIN rr :
          /\ Shaped(rr[i], Len(cells) - 1)
          /\ Justified(cells, Len(cells), rr[i]) \/ Justified(cells', Len(cells), rr[i])
    BY <1>10 DEF n
  <2> QED  BY <1>1, <1>7, <1>9, <2>1, <2>2, LastCellGrows DEF n, ss
<1>12. AllDone(cells', n)
  <2> SUFFICES ASSUME NEW i \in DOMAIN rr, Child(rr[i]),
                      NEW k \in DOMAIN cells'[rr[i].item.k + 1].states,
                      Completes(cells'[rr[i].item.k + 1].states[k], rr[i])
               PROVE  Same(rr, Advance(cells'[rr[i].item.k + 1].states[k].item)) # {}
    BY <1>9 DEF AllDone, Done
  <2>1. PICK m \in DOMAIN ss : Like(rr[i], ss[m])
    BY <1>6, <1>7
  <2>2. Child(ss[m]) /\ ss[m].item = rr[i].item
        /\ \A parent : Completes(parent, ss[m]) <=> Completes(parent, rr[i])
    <3>1. ss[m].item = rr[i].item
      BY <2>1 DEF Like
    <3> QED  BY <2>1, <3>1, LikeChild
  <2> DEFINE from == cells[ss[m].item.k + 1].states
  <2>3. cells'[rr[i].item.k + 1].states = from /\ Len(from) \in Nat /\ DOMAIN from = 1..Len(from)
    <3>1. ss[m].item.k + 1 \in 1..n - 1 /\ Len(from) \in Nat /\ DOMAIN from = 1..Len(from)
      BY <1>1, <1>4, <2>2, FromFacts DEF IInv, ss, n
    <3> QED  BY <1>9, <2>2, <3>1
  <2> HIDE DEF from
  <2>4. k \in DOMAIN from /\ Completes(from[k], ss[m])
    BY <2>2, <2>3
  <2>5. m < Len(ss) + 1
    BY <1>5
  <2>6. Same(ss, Advance(from[k].item)) # {}
    <3>1. AllDone(cells, n)
      BY <1>0, <1>4 DEF IInv, ChainInv
    <3> QED  BY <2>2, <2>4, <2>5, <3>1 DEF AllDone, Done, ss, from
  <2>7. PICK l \in DOMAIN ss : ss[l].item = Advance(from[k].item)
    BY <2>6 DEF Same
  <2>8. PICK h \in DOMAIN rr : Like(rr[h], ss[l])
    BY <1>7 DEF Grown
  <2>9. rr[h].item = Advance(from[k].item)
    BY <2>7, <2>8 DEF Like
  <2> QED  BY <2>3, <2>9 DEF Same
<1>13. DOMAIN cells' = 1..n /\ Here'.states = rr /\ Len(rr) \in Nat
  <2>1. DOMAIN cells' = 1..n /\ Len(rr) \in Nat
    BY <1>8, <1>9, LenProperties
  <2> QED  BY <1>9, <2>1 DEF Here, Last
<1>14. ChainInv'
  <2>1. ASSUME NEW c \in DOMAIN cells' PROVE AllDone(cells', c)
    <3>1. CASE c = n
      BY <1>12, <3>1
    <3>2. CASE c # n
      <4>1. c \in 1..n - 1 /\ c \in DOMAIN cells
        BY <1>4, <1>13, <3>2
      <4>2. AllDone(cells, c)
        BY <1>0, <4>1 DEF IInv, ChainInv
      <4> QED  BY <1>11, <4>1, <4>2
    <3> QED  BY <3>1, <3>2
  <2> QED  BY <1>0, <1>4, <1>9, <1>11, <1>13, <2>1 DEF ChainInv
<1>15. Typed'
  <2>1. fresh' \in Seq(State(V))
    BY <1>0, <1>1, <1>8, StatesGrow
  <2> QED  BY <1>8, <2>1 DEF Typed
<1>16. LineOK(line)' /\ ScanInv'
  <2>1. LineOK(line)'
    BY <1>0 DEF IInv, LineOK
  <2> QED  BY <1>0, <2>1, EmptyFresh
<1>17. Control'
  <2>1. upto' \in 0..Len(Here'.states)
    <3>1. upto \in 0..Len(ss)
      BY <1>4 DEF IInv, Control, ss
    <3> QED  BY <1>0, <1>5, <1>7, <1>13, <3>1
  <2>2. y' \in Nat \ {0} /\ Len(cells') = Len(cells)
    BY <1>3, <1>9 DEF n
  <2> QED  BY <1>0, <2>1, <2>2 DEF IInv, Control
<1> QED  BY <1>14, <1>15, <1>16, <1>17 DEF IInv

LEMMA PredictNextKeeps ==
  ASSUME IInv, PredictNext
  PROVE  IInv'
<1>0. /\ pc = "predict" /\ pc' = "predict" /\ x' = x + 1 /\ y' = 1
      /\ UNCHANGED <<cells, fresh, purpose, line, upto, input, answer>>
  BY DEF PredictNext
<1>1. ChainInv' /\ ScanInv'
  BY <1>0, ChainStays, EmptyFresh
<1>2. Typed' /\ LineOK(line)'
  BY <1>0 DEF IInv, Typed, LineOK
<1>3. Control'
  BY <1>0 DEF IInv, Control, Here
<1> QED  BY <1>1, <1>2, <1>3 DEF IInv

LEMMA EmptyLine == LineOK(<<>>)
BY DEF LineOK

LEMMA PredictDoneKeeps ==
  ASSUME IInv, PredictDone
  PROVE  IInv'
<1>0. pc = "predict" /\ UNCHANGED <<cells, fresh, input>>
  BY DEF PredictDone
<1>1. \/ /\ pc' = "idle" /\ purpose' = "none" /\ line' = <<>>
         /\ x' = 1 /\ y' = 1 /\ upto' = 0
      \/ /\ pc' = "read" /\ purpose # "construct"
         /\ UNCHANGED <<purpose, line, x, y, upto>>
  BY DEF PredictDone, Leave, call
<1>2. ChainInv' /\ ScanInv'
  BY <1>0, <1>1, ChainStays, EmptyFresh
<1>3. Typed' /\ LineOK(line)'
  <2>1. LineOK(line)'
    BY <1>1, EmptyLine DEF IInv, LineOK
  <2> QED  BY <1>0, <2>1 DEF IInv, Typed
<1>4. Control'
  <2>1. Len(Here.states) \in Nat
    <3>1. PICK W : cells \in Seq(Cell(W))
      BY DEF IInv, Typed
    <3>2. Len(cells) \in Nat \ {0} /\ Here = cells[Len(cells)]
          /\ Len(cells) \in 1..Len(cells)
      BY <3>1, ChainFacts DEF IInv
    <3> QED  BY <3>1, <3>2, ChainFacts DEF IInv
  <2> QED  BY <1>0, <1>1, <2>1 DEF IInv, Control, Here
<1> QED  BY <1>2, <1>3, <1>4 DEF IInv

-----------------------------------------------------------------------------
(* The queries and reset, which shorten the chain *)

\* The chain is cut off behind one of its cells.
LEMMA ChainShrinks ==
  ASSUME IInv, pc \notin {"scan", "complete"}, pc' \notin {"scan", "complete"},
         NEW m \in 1..Len(cells), Len(cells') = m,
         \A c \in 1..m : cells'[c] = cells[c],
         \A W : cells \in Seq(Cell(W)) => cells' \in Seq(Cell(W)),
         UNCHANGED fresh
  PROVE  ChainInv' /\ Typed' /\ ScanInv' /\ Len(Here'.states) \in Nat
<1>1. PICK W : cells \in Seq(Cell(W)) /\ fresh \in Seq(State(W))
  BY DEF IInv, Typed
<1>2. cells' \in Seq(Cell(W))
  BY <1>1
<1>3. /\ Len(cells) \in Nat \ {0} /\ DOMAIN cells = 1..Len(cells)
      /\ DOMAIN cells' = 1..m /\ m \in Nat \ {0}
      /\ \A c \in 1..m : c \in 1..Len(cells)
  BY <1>1, <1>2, LenProperties DEF IInv, ChainInv
<1>4. ASSUME NEW c \in 1..m PROVE CellInv(cells', c) /\ AllDone(cells', c)
  <2>1. CellInv(cells, c) /\ AllDone(cells, c)
    BY <1>3 DEF IInv, ChainInv
  <2>2. \A d \in 1..c : cells'[d] = cells[d]
    BY <1>3
  <2> QED  BY <1>1, <1>3, <2>1, <2>2, CellKept
<1>5. ChainInv'
  BY <1>3, <1>4 DEF ChainInv
<1>6. Typed' /\ ScanInv'
  BY <1>1, <1>2, EmptyFresh DEF Typed
<1>7. Len(Here'.states) \in Nat
  <2>1. Here' = cells'[m] /\ m \in 1..Len(cells)
    BY <1>3 DEF Here, Last
  <2>2. Here' = cells[m]
    BY <1>3, <2>1
  <2> QED  BY <1>1, <2>1, <2>2, ChainFacts DEF IInv
<1> QED  BY <1>5, <1>6, <1>7

LEMMA FrontOfChain ==
  ASSUME NEW S, NEW s \in Seq(S), Len(s) > 1
  PROVE  /\ Front(s) \in Seq(S) /\ Len(Front(s)) = Len(s) - 1
         /\ \A i \in 1..Len(s) - 1 : Front(s)[i] = s[i]
<1> DEFINE n == Len(s) - 1
<1>1. Len(s) \in Nat /\ n \in Int /\ 1 \in Int /\ 1 <= n
  BY LenProperties
<1>2. \A i \in 1..n : s[i] \in S
  <2> TAKE i \in 1..n
  <2>1. i \in 1..Len(s)
    BY <1>1
  <2> QED  BY <2>1, ElementOfSeq
<1>3. Front(s) = SubSeq(s, 1, n)
  BY DEF Front
<1> HIDE DEF n
<1>4. /\ SubSeq(s, 1, n) \in Seq(S)
      /\ Len(SubSeq(s, 1, n)) = IF 1 <= n THEN n - 1 + 1 ELSE 0
      /\ \A i \in 1..n - 1 + 1 : SubSeq(s, 1, n)[i] = s[1 + i - 1]
  BY <1>1, <1>2, SubSeqProperties
<1>5. n - 1 + 1 = n /\ \A i \in 1..n : 1 + i - 1 = i
  BY <1>1
<1> QED  BY <1>1, <1>3, <1>4, <1>5 DEF n

LEMMA BacktrackKeeps ==
  ASSUME IInv, pc = "read", cells' = Front(cells), UNCHANGED <<fresh, input>>,
         Leave({"idle", "dead"})
  PROVE  IInv'
<1>1. PICK W : cells \in Seq(Cell(W))
  BY DEF IInv, Typed
<1>2. Len(cells) > 1 /\ Len(cells) \in Nat
  BY <1>1, LenProperties DEF IInv, Control
<1> DEFINE m == Len(cells) - 1
<1>3. m \in 1..Len(cells) /\ Len(cells') = m
      /\ \A c \in 1..m : cells'[c] = cells[c]
  BY <1>1, <1>2, FrontOfChain
<1>4. \A V : cells \in Seq(Cell(V)) => cells' \in Seq(Cell(V))
  BY <1>2, FrontOfChain
<1>5. /\ pc' \in {"idle", "dead"} /\ purpose' = "none" /\ line' = <<>>
      /\ x' = 1 /\ y' = 1 /\ upto' = 0
  BY DEF Leave
<1> HIDE DEF m
<1>6. ChainInv' /\ Typed' /\ ScanInv' /\ Len(Here'.states) \in Nat
  BY <1>3, <1>4, <1>5, ChainShrinks
<1>7. LineOK(line)'
  BY <1>5, EmptyLine
<1>8. Control'
  BY <1>5, <1>6 DEF IInv, Control
<1> QED  BY <1>6, <1>7, <1>8 DEF IInv

LEMMA ResetKeeps ==
  ASSUME IInv, Reset
  PROVE  IInv'
<1>0. /\ pc = "idle" /\ cells' = <<Head(cells)>> /\ input' = <<>>
      /\ UNCHANGED <<fresh, pc, purpose, line, x, y, upto>>
  BY DEF Reset, call
<1>1. PICK W : cells \in Seq(Cell(W))
  BY DEF IInv, Typed
<1>2. Len(cells) > 0 /\ Len(cells) \in Nat /\ 1 \in 1..Len(cells)
  BY <1>1, LenProperties DEF IInv, ChainInv
<1>3. Len(cells') = 1 /\ \A c \in 1..1 : cells'[c] = cells[c]
  <2>1. Head(cells) = cells[1]
    BY <1>1, <1>2
  <2>2. cells'[1] = cells[1] /\ Len(cells') = 1
    BY <1>0, <2>1
  <2> QED  BY <2>2
<1>4. ASSUME NEW V, cells \in Seq(Cell(V)) PROVE cells' \in Seq(Cell(V))
  <2>1. cells # <<>>
    BY <1>2
  <2>2. Head(cells) \in Cell(V)
    BY <1>4, <2>1, HeadTailProperties
  <2> QED  BY <1>0, <2>2
<1>5. ChainInv' /\ Typed' /\ ScanInv' /\ Len(Here'.states) \in Nat
  BY <1>0, <1>2, <1>3, <1>4, ChainShrinks
<1>6. LineOK(line)'
  BY <1>0 DEF IInv, LineOK
<1>7. Control'
  <2>1. input' \in Seq({}) /\ Len(input') = 0
    BY <1>0
  <2>2. MaxParse \in Nat /\ upto = 0
    BY <1>0, MaxParseAssumption DEF IInv, Control
  <2> QED  BY <1>0, <1>5, <2>1, <2>2 DEF IInv, Control
<1> QED  BY <1>5, <1>6, <1>7 DEF IInv

\* Nothing but the answer changes, or nothing at all.
LEMMA StutterKeeps ==
  ASSUME IInv, UNCHANGED <<cells, fresh, pc, call, input>>
  PROVE  IInv'
BY DEF IInv, Typed, ChainInv, LineOK, ScanInv, ScannedFrom, Control, Here, call

-----------------------------------------------------------------------------
(* Lines *)

LEMMA NamesAreDistinct ==
  /\ NamesInOrder \in Seq(Symbols \ Nonterminals)
  /\ Len(NamesInOrder) \in Nat /\ DOMAIN NamesInOrder = 1..Len(NamesInOrder)
  /\ \A i, j \in DOMAIN NamesInOrder : NamesInOrder[i] = NamesInOrder[j] => i = j
<1> DEFINE S == Symbols \ Nonterminals
           N == Len(Terminals)
<1>1. /\ Terminals \in Seq(Range(Terminals)) /\ N \in Nat /\ DOMAIN Terminals = 1..N
      /\ \A i, j \in 1..N : Terminals[i] = Terminals[j] => i = j
      /\ \A i \in 1..N : Terminals[i] \in Range(Terminals)
  BY GrammarAssumption, LenProperties DEF Range
<1>2. Range(Terminals) \subseteq S /\ Empty \in S /\ Empty \notin Range(Terminals)
  BY GrammarAssumption DEF Symbols
<1>3. Terminals \in Seq(S)
  BY <1>1, <1>2, SeqMonotonic
<1>4. <<Empty>> \in Seq(S) /\ Len(<<Empty>>) = 1 /\ <<Empty>>[1] = Empty
  BY <1>2
<1> HIDE DEF S
<1>5. /\ NamesInOrder \in Seq(S) /\ Len(NamesInOrder) = N + 1
      /\ \A i \in 1..N + 1 : NamesInOrder[i] = IF i <= 1 THEN <<Empty>>[i] ELSE Terminals[i - 1]
  <2>1. /\ NamesInOrder \in Seq(S) /\ Len(NamesInOrder) = 1 + N
        /\ \A i \in 1..1 + N :
             NamesInOrder[i] = IF i <= 1 THEN <<Empty>>[i] ELSE Terminals[i - 1]
    BY <1>3, <1>4, ConcatProperties DEF NamesInOrder
  <2> QED  BY <1>1, <2>1
<1>6. DOMAIN NamesInOrder = 1..N + 1
  BY <1>5, LenProperties
<1>7. \A i \in 1..N + 1 : IF i = 1 THEN NamesInOrder[i] = Empty
                          ELSE i - 1 \in 1..N /\ NamesInOrder[i] = Terminals[i - 1]
  BY <1>1, <1>4, <1>5
<1>8. ASSUME NEW i \in 1..N + 1, NEW j \in 1..N + 1, NamesInOrder[i] = NamesInOrder[j]
      PROVE  i = j
  <2>1. CASE i = 1 \/ j = 1
    BY <1>1, <1>2, <1>7, <1>8, <2>1
  <2>2. CASE i # 1 /\ j # 1
    <3>1. i - 1 = j - 1
      BY <1>1, <1>7, <1>8, <2>2
    <3> QED  BY <1>1, <3>1
  <2> QED  BY <2>1, <2>2
<1> QED  BY <1>1, <1>5, <1>6, <1>8 DEF S

LEMMA InOrderNames ==
  ASSUME NEW names
  PROVE  /\ Len(InOrder(names)) \in Nat
         /\ DOMAIN InOrder(names) = 1..Len(InOrder(names))
         /\ \A i \in DOMAIN InOrder(names) :
              InOrder(names)[i] \in names \cap (Symbols \ Nonterminals)
         /\ \A i, j \in DOMAIN InOrder(names) :
              InOrder(names)[i] = InOrder(names)[j] => i = j
<1> DEFINE N == Len(NamesInOrder)
           places == {i \in DOMAIN NamesInOrder : NamesInOrder[i] \in names}
           size == Cardinality(places)
           at(n) == CHOOSE i \in places : Cardinality({j \in places : j <= i}) = n
           order == InOrder(names)
<1>1. /\ N \in Nat /\ places \in SUBSET (1..N)
      /\ \A i \in places : /\ NamesInOrder[i] \in names
                           /\ NamesInOrder[i] \in Symbols \ Nonterminals
      /\ \A i, j \in places : NamesInOrder[i] = NamesInOrder[j] => i = j
  BY NamesAreDistinct, ElementOfSeq
<1>2. order = [n \in 1..size |-> NamesInOrder[at(n)]]
  BY DEF InOrder
<1> HIDE DEF places, order
<1>3. size \in Nat
  <2>1. IsFiniteSet(1..N)
    BY <1>1, FS_Interval
  <2>2. IsFiniteSet(places)
    BY <1>1, <2>1, FS_Subset
  <2> QED  BY <2>2, FS_CardinalityType
<1>4. ASSUME NEW n \in 1..size
      PROVE  at(n) \in places /\ Cardinality({j \in places : j <= at(n)}) = n
  <2>1. \E i \in places : Cardinality({j \in places : j <= i}) = n
    <3>1. \E i \in places : Ordinal(places, i) = n
      BY <1>1, OrdinalsAreAll
    <3> QED  BY <3>1 DEF Ordinal
  <2> QED  BY <2>1
<1> HIDE DEF at, size, N
<1>5. Len(order) = size /\ DOMAIN order = 1..size
  BY <1>2, <1>3
<1>6. \A n \in 1..size : order[n] = NamesInOrder[at(n)]
  BY <1>2
<1>7. ASSUME NEW n \in 1..size, NEW m \in 1..size, order[n] = order[m] PROVE n = m
  <2>1. at(n) = at(m)
    BY <1>1, <1>4, <1>6, <1>7
  <2> QED  BY <1>4, <2>1
<1>8. \A n \in 1..size : order[n] \in names \cap (Symbols \ Nonterminals)
  BY <1>1, <1>4, <1>6
<1> QED  BY <1>3, <1>5, <1>7, <1>8 DEF order

\* parse() hands ParseLine tokens of distinct names, as Scan needs them.
LEMMA LineOfOK ==
  ASSUME NEW obs \in Observations
  PROVE  LineOK(LineOf(obs))
<1> DEFINE of(t) == {i \in DOMAIN obs : obs[i].name = t}
           names == {t \in Range(Terminals) \cup {Empty} : of(t) # {}}
           named == InOrder(names)
           made == LineOf(obs)
<1>1. /\ Len(obs) \in Nat /\ DOMAIN obs = 1..Len(obs)
      /\ \A i \in DOMAIN obs : obs[i].low \in Int /\ obs[i].high \in Int
  BY ObservationsAssumption
<1>2. made = [i \in DOMAIN named |-> obs[Min(of(named[i]))]]
  BY DEF LineOf
<1>3. /\ Len(named) \in Nat /\ DOMAIN named = 1..Len(named)
      /\ \A i \in DOMAIN named : named[i] \in names /\ named[i] \in Symbols \ Nonterminals
      /\ \A i, j \in DOMAIN named : named[i] = named[j] => i = j
  <2> HIDE DEF names
  <2> QED  BY InOrderNames
<1>4. ASSUME NEW t \in names PROVE Min(of(t)) \in DOMAIN obs /\ obs[Min(of(t))].name = t
  <2>1. of(t) \subseteq Nat /\ of(t) # {}
    BY <1>1
  <2>2. Min(of(t)) \in of(t)
    <3> DEFINE S == of(t)
    <3> HIDE DEF S
    <3>1. S \subseteq Nat /\ S # {}
      BY <2>1 DEF S
    <3>2. Min(S) \in S
      BY <3>1, MinIsLeast
    <3> QED  BY <3>2 DEF S
  <2> QED  BY <2>2
<1> HIDE DEF named, made, names, of
<1>5. DOMAIN made = 1..Len(named) /\ Len(made) = Len(named)
  BY <1>2, <1>3
<1>6. \A i \in 1..Len(named) :
        /\ made[i].name = named[i] /\ made[i].low \in Int /\ made[i].high \in Int
  BY <1>1, <1>2, <1>3, <1>4
<1>7. LineOK(made)
  BY <1>3, <1>5, <1>6 DEF LineOK
<1> QED  BY <1>7 DEF made

\* So does getPrediction().
LEMMA PredictedLineOK ==
  ASSUME NEW ss
  PROVE  LineOK(PredictedLine(ss))
<1> DEFINE names == {t \in Range(Terminals) : Positive(Mass(ss, t))}
           likely == InOrder(names)
           made == PredictedLine(ss)
<1>1. made = [i \in DOMAIN likely |->
                [name |-> likely[i], prob |-> Ratio(Mass(ss, likely[i]), TotalMass(ss)),
                 low |-> 0, high |-> 0]]
  BY DEF PredictedLine
<1> HIDE DEF names
<1>2. /\ Len(likely) \in Nat /\ DOMAIN likely = 1..Len(likely)
      /\ \A i \in DOMAIN likely : likely[i] \in Symbols \ Nonterminals
      /\ \A i, j \in DOMAIN likely : likely[i] = likely[j] => i = j
  BY InOrderNames
<1> HIDE DEF likely, made
<1>3. DOMAIN made = 1..Len(likely) /\ Len(made) = Len(likely)
  BY <1>1, <1>2
<1>4. \A i \in 1..Len(likely) :
        made[i].name = likely[i] /\ made[i].low = 0 /\ made[i].high = 0
  BY <1>1, <1>2
<1>5. LineOK(made)
  BY <1>2, <1>3, <1>4 DEF LineOK
<1> QED  BY <1>5 DEF made

\* A call of ParseLine begins.
LEMMA ParseLineKeeps ==
  ASSUME IInv, pc = "idle", NEW tokens, LineOK(tokens),
         NEW for \in {"parse", "prediction", "viterbi"},
         ParseLine(tokens, for), UNCHANGED cells,
         Len(input') <= MaxParse, \E L : input' \in Seq(L)
  PROVE  IInv'
<1>0. /\ pc' = "scan" /\ purpose' = for /\ line' = tokens
      /\ fresh' = <<>> /\ x' = 1 /\ y' = 1 /\ upto' = 0
  BY DEF ParseLine
<1>1. ChainInv'
  BY <1>0, ChainStays
<1>2. Typed'
  <2>1. PICK W : cells \in Seq(Cell(W))
    BY DEF IInv, Typed
  <2>2. fresh' \in Seq(State(W))
    BY <1>0
  <2> QED  BY <2>1, <2>2 DEF Typed
<1>3. ScanInv'
  <2>1. DOMAIN fresh' = {}
    BY <1>0
  <2> QED  BY <1>0, <2>1 DEF ScanInv, Distinct
<1>4. Control'
  <2>1. Len(Here.states) \in Nat
    <3>1. PICK W : cells \in Seq(Cell(W))
      BY DEF IInv, Typed
    <3>2. Len(cells) \in Nat \ {0} /\ Here = cells[Len(cells)]
          /\ Len(cells) \in 1..Len(cells)
      BY <3>1, ChainFacts DEF IInv
    <3> QED  BY <3>1, <3>2, ChainFacts DEF IInv
  <2>2. upto' \in 0..Len(Here'.states)
    BY <1>0, <2>1 DEF Here
  <2> QED  BY <1>0, <2>2 DEF Control
<1>5. LineOK(line)'
  BY <1>0
<1> QED  BY <1>1, <1>2, <1>3, <1>4, <1>5 DEF IInv

LEMMA ParseKeeps ==
  ASSUME IInv, NEW obs \in Observations, Parse(obs)
  PROVE  IInv'
<1>1. CASE \A i \in DOMAIN obs : obs[i].name \in Range(Terminals) \cup {Empty}
  <2>1. /\ pc = "idle" /\ Len(input) < MaxParse /\ UNCHANGED cells
        /\ ParseLine(LineOf(obs), "parse") /\ input' = Append(input, LineOf(obs))
    BY <1>1 DEF Parse
  <2>2. PICK L : input \in Seq(L)
    BY DEF IInv, Control
  <2> DEFINE M == L \cup {LineOf(obs)}
  <2>3. input \in Seq(M) /\ LineOf(obs) \in M
    BY <2>2, SeqMonotonic
  <2> HIDE DEF M
  <2>4. input' \in Seq(M) /\ Len(input') = Len(input) + 1 /\ Len(input) \in Nat
    BY <2>1, <2>3, AppendProperties, LenProperties
  <2>5. Len(input') <= MaxParse
    BY <2>1, <2>4, MaxParseAssumption
  <2> QED  BY <2>1, <2>4, <2>5, LineOfOK, ParseLineKeeps
<1>2. CASE ~\A i \in DOMAIN obs : obs[i].name \in Range(Terminals) \cup {Empty}
  BY <1>2, StutterKeeps DEF Parse
<1> QED  BY <1>1, <1>2

LEMMA GetPredictionKeeps ==
  ASSUME IInv, GetPrediction
  PROVE  IInv'
<1>1. /\ pc = "idle" /\ ParseLine(PredictedLine(Here.states), "prediction")
      /\ UNCHANGED <<cells, input>>
  BY DEF GetPrediction
<1>2. Len(input') <= MaxParse /\ \E L : input' \in Seq(L)
  BY <1>1 DEF IInv, Control
<1> QED  BY <1>1, <1>2, PredictedLineOK, ParseLineKeeps

LEMMA GetViterbiParseKeeps ==
  ASSUME IInv, GetViterbiParse
  PROVE  IInv'
<1> DEFINE tokens == <<[name |-> Empty, prob |-> One, low |-> 0, high |-> 0]>>
<1>1. pc = "idle" /\ ParseLine(tokens, "viterbi") /\ UNCHANGED <<cells, input>>
  BY DEF GetViterbiParse
<1>2. LineOK(tokens)
  <2>1. Empty \in Symbols \ Nonterminals
    BY Grammar DEF Symbols
  <2>2. Len(tokens) = 1 /\ DOMAIN tokens = 1..1
        /\ tokens[1] = [name |-> Empty, prob |-> One, low |-> 0, high |-> 0]
    OBVIOUS
  <2> HIDE DEF tokens
  <2> QED  BY <2>1, <2>2 DEF LineOK
<1>3. Len(input') <= MaxParse /\ \E L : input' \in Seq(L)
  BY <1>1 DEF IInv, Control
<1> HIDE DEF tokens
<1> QED  BY <1>1, <1>2, <1>3, ParseLineKeeps

-----------------------------------------------------------------------------
(* The steps of Scan *)

\* The state that a token makes of one that waits for it
LEMMA NewScanned ==
  ASSUME NEW W, NEW at \in Nat, NEW s \in State(W), Shaped(s, at), ~Finished(s),
         NEW tok, tok.low \in Int, tok.high \in Int,
         After(s) = tok.name, tok.name \notin Nonterminals
  PROVE  LET new == Scanned(s, tok) IN
         /\ new \in State(W \cup {new.alpha, new.gamma, new.v})
         /\ new.item = Advance(s.item) /\ new.label = "scanned" /\ Shaped(new, at + 1)
<1> DEFINE new == Scanned(s, tok)
           V == W \cup {new.alpha, new.gamma, new.v}
<1>1. /\ s.item \in Item /\ s.item.k \in Nat /\ s.item.dot \in Nat
      /\ Len(s.item.rhs) \in Nat /\ s.low \in Int /\ s.high \in Int /\ s.kids \in Seq(Kid)
      /\ s.item.rhs \in Seq(Symbols) /\ DOMAIN s.kids = 1..Len(s.kids)
  BY StateTyped, LenProperties
<1>2. /\ new.item = Advance(s.item) /\ new.label = "scanned" /\ new.kids = s.kids
      /\ new.low = (IF tok.low # 0 THEN tok.low ELSE s.low)
      /\ new.high = (IF tok.high # 0 THEN tok.high ELSE s.high)
      /\ new = [item |-> new.item, label |-> new.label, alpha |-> new.alpha,
                gamma |-> new.gamma, v |-> new.v, low |-> new.low, high |-> new.high,
                kids |-> new.kids]
  <2> DEFINE item == Advance(s.item)
             low == IF tok.low # 0 THEN tok.low ELSE s.low
             high == IF tok.high # 0 THEN tok.high ELSE s.high
             alpha == Times(s.alpha, tok.prob)
             gamma == Times(s.gamma, tok.prob)
             v == Times(s.v, tok.prob)
  <2>1. new = [s EXCEPT !.item = item, !.label = "scanned", !.low = low, !.high = high,
                        !.alpha = alpha, !.gamma = gamma, !.v = v]
    BY DEF Scanned
  <2> HIDE DEF new, item, low, high, alpha, gamma, v
  <2>2. s = [item |-> s.item, label |-> s.label, alpha |-> s.alpha, gamma |-> s.gamma,
             v |-> s.v, low |-> s.low, high |-> s.high, kids |-> s.kids]
    BY DEF State
  <2>3. new = [item |-> item, label |-> "scanned", alpha |-> alpha, gamma |-> gamma,
               v |-> v, low |-> low, high |-> high, kids |-> s.kids]
    BY <2>1, <2>2
  <2> QED  BY <2>3 DEF item, low, high
<1>3. new.alpha \in V /\ new.gamma \in V /\ new.v \in V
  OBVIOUS
<1> HIDE DEF new, V
<1>4. /\ new.item \in Item /\ new.item.dot = s.item.dot + 1
      /\ new.item.rhs = s.item.rhs /\ new.item.k = s.item.k
  BY <1>1, <1>2, AdvanceItem
<1>5. new \in State(V)
  <2>1. new.low \in Int /\ new.high \in Int /\ new.label \in Labels
    BY <1>1, <1>2 DEF Labels
  <2> QED  BY <1>1, <1>2, <1>3, <1>4, <2>1 DEF State
<1>6. new.item.dot <= Len(new.item.rhs) /\ new.item.k < at + 1 /\ new.item.rhs # <<>>
  <2>1. s.item.dot # Len(s.item.rhs) /\ s.item.dot <= Len(s.item.rhs) /\ s.item.rhs # <<>>
        /\ s.item.k <= at
    BY <1>1 DEF Finished, Shaped
  <2> QED  BY <1>1, <1>4, <2>1
<1>7. new.label = LabelOf(new.item)
  <2>1. SymbolBefore(new.item) \notin Nonterminals
    BY <1>1, <1>4 DEF SymbolBefore, After
  <2>2. new.item.dot # 0
    BY <1>1, <1>4
  <2> QED  BY <1>2, <2>1, <2>2 DEF LabelOf
<1>8. \A i \in DOMAIN new.kids : new.kids[i].cell <= at + 1
  <2> SUFFICES ASSUME NEW i \in DOMAIN s.kids PROVE s.kids[i].cell <= at + 1
    BY <1>2
  <2>1. s.kids[i].cell <= at
    BY DEF Shaped
  <2>2. s.kids[i] \in Kid
    BY <1>1, ElementOfSeq
  <2>3. s.kids[i].cell \in Nat
    BY <2>2 DEF Kid
  <2> QED  BY <2>1, <2>3
<1>9. Shaped(new, at + 1)
  <2>1. new.item.dot # 0
    BY <1>1, <1>4
  <2> QED  BY <1>6, <1>7, <1>8, <2>1 DEF Shaped
<1> QED  BY <1>2, <1>5, <1>9 DEF new, V

\* The states of the current cell and of the one being filled.
LEMMA ScanFacts ==
  ASSUME IInv, NEW W, cells \in Seq(Cell(W)), fresh \in Seq(State(W))
  PROVE  /\ Len(cells) \in Nat \ {0} /\ Here = cells[Len(cells)]
         /\ Len(Here.states) \in Nat /\ DOMAIN Here.states = 1..Len(Here.states)
         /\ \A i \in DOMAIN Here.states :
              Here.states[i] \in State(W) /\ Shaped(Here.states[i], Len(cells) - 1)
         /\ Distinct(Here.states)
         /\ Len(fresh) \in Nat /\ DOMAIN fresh = 1..Len(fresh)
         /\ \A i \in DOMAIN fresh : fresh[i] \in State(W)
         /\ x \in Nat \ {0} /\ y \in Nat \ {0}
<1> DEFINE n == Len(cells)
<1>1. n \in Nat \ {0} /\ n \in 1..n /\ Here = cells[n]
  BY ChainFacts DEF IInv
<1>2. /\ Len(fresh) \in Nat /\ DOMAIN fresh = 1..Len(fresh)
      /\ \A i \in DOMAIN fresh : fresh[i] \in State(W)
  BY LenProperties, ElementOfSeq
<1> HIDE DEF n
<1>3. /\ Len(Here.states) \in Nat /\ DOMAIN Here.states = 1..Len(Here.states)
      /\ \A i \in DOMAIN Here.states :
           Here.states[i] \in State(W) /\ Shaped(Here.states[i], n - 1)
      /\ Distinct(Here.states)
  BY <1>1, ChainFacts DEF IInv, CellInv, n
<1> QED  BY <1>1, <1>2, <1>3 DEF n, IInv, Control

LEMMA ScanStateKeeps ==
  ASSUME IInv, ScanState
  PROVE  IInv'
<1>0. /\ pc = "scan" /\ x <= Len(line)
      /\ UNCHANGED <<cells, purpose, line, x, upto, input, answer>>
  BY DEF ScanState
<1>1. PICK W : cells \in Seq(Cell(W)) /\ fresh \in Seq(State(W))
  BY DEF IInv, Typed
<1>2. /\ Len(cells) \in Nat \ {0} /\ Here = cells[Len(cells)]
      /\ Len(Here.states) \in Nat /\ DOMAIN Here.states = 1..Len(Here.states)
      /\ \A i \in DOMAIN Here.states :
           Here.states[i] \in State(W) /\ Shaped(Here.states[i], Len(cells) - 1)
      /\ Distinct(Here.states)
      /\ Len(fresh) \in Nat /\ DOMAIN fresh = 1..Len(fresh)
      /\ \A i \in DOMAIN fresh : fresh[i] \in State(W)
      /\ x \in Nat \ {0} /\ y \in Nat \ {0}
  BY <1>1, ScanFacts
<1>3. PICK i \in First(Scannable) :
        LET new == Scanned(Here.states[i], line[x])
        IN IF Same(fresh, new.item) = {}
             THEN fresh' = Append(fresh, new) /\ y' = i + 1 /\ UNCHANGED pc
             ELSE fresh' = <<>> /\ pc' = "lost" /\ UNCHANGED y
  BY DEF ScanState
<1> DEFINE s == Here.states[i]
           new == Scanned(s, line[x])
           V == W \cup {new.alpha, new.gamma, new.v}
<1>4. /\ i \in DOMAIN Here.states /\ i \in Nat /\ i >= y
      /\ ~Finished(s) /\ After(s) = line[x].name
  BY <1>2, <1>3 DEF First, Scannable
<1>5. /\ x \in DOMAIN line /\ LineOK(line)
      /\ line[x].name \in Symbols \ Nonterminals
      /\ line[x].low \in Int /\ line[x].high \in Int
      /\ \A t \in DOMAIN line : line[t].name = line[x].name => t = x
  <2>1. LineOK(line) /\ x \in DOMAIN line
    BY <1>0, <1>2 DEF IInv, LineOK
  <2> QED  BY <2>1 DEF LineOK
<1>6. /\ s \in State(W) /\ Shaped(s, Len(cells) - 1)
  BY <1>2, <1>4
<1>7. /\ new \in State(V) /\ new.item = Advance(s.item) /\ new.label = "scanned"
      /\ Shaped(new, Len(cells))
  <2> DEFINE tok == line[x]
             at == Len(cells) - 1
  <2>1. at \in Nat /\ at + 1 = Len(cells)
    BY <1>2
  <2>2. tok.low \in Int /\ tok.high \in Int /\ After(s) = tok.name
        /\ tok.name \notin Nonterminals /\ Shaped(s, at) /\ ~Finished(s)
    BY <1>4, <1>5, <1>6
  <2> HIDE DEF tok, s, at
  <2>3. LET made == Scanned(s, tok) IN
        /\ made \in State(W \cup {made.alpha, made.gamma, made.v})
        /\ made.item = Advance(s.item) /\ made.label = "scanned" /\ Shaped(made, at + 1)
    BY <1>6, <2>1, <2>2, NewScanned
  <2> QED  BY <2>1, <2>3 DEF tok
<1>8. fresh \in Seq(State(V)) /\ W \subseteq V
  BY <1>1, StatesGrow
<1> HIDE DEF V, new, s
\* A state that was scanned before came from the same state: not for another token, as
\* tokens have distinct names, and not for this one, as the cursor is past it.
<1>9. Same(fresh, new.item) = {}
  <2> SUFFICES ASSUME NEW f \in DOMAIN fresh, fresh[f].item = new.item PROVE FALSE
    BY DEF Same
  <2>1. ScannedFrom(fresh[f].item)
    BY DEF IInv, ScanInv
  <2>2. PICK t \in 1..x, k \in DOMAIN Here.states :
          /\ t \in DOMAIN line /\ (t = x => k < y)
          /\ ~Finished(Here.states[k]) /\ After(Here.states[k]) = line[t].name
          /\ new.item = Advance(Here.states[k].item)
    BY <2>1 DEF ScannedFrom
  <2>3. Here.states[k].item \in Item /\ s.item \in Item
    BY <1>2, <1>6, StateTyped
  <2>4. Here.states[k].item = s.item
    BY <1>7, <2>2, <2>3, AdvanceInjective
  <2>5. k = i
    BY <1>2, <1>4, <2>4 DEF Distinct, s
  <2>6. t = x
    BY <1>4, <1>5, <2>2, <2>5 DEF s
  <2> QED  BY <1>2, <1>4, <2>2, <2>5, <2>6
<1>10. fresh' = Append(fresh, new) /\ y' = i + 1 /\ pc' = pc
  BY <1>3, <1>9 DEF new, s
<1>11. /\ fresh' \in Seq(State(V)) /\ Len(fresh') = Len(fresh) + 1
       /\ \A f \in 1..Len(fresh) : fresh'[f] = fresh[f]
       /\ fresh'[Len(fresh) + 1] = new
  BY <1>7, <1>8, <1>10, AppendProperties
<1>12. /\ DOMAIN fresh' = 1..Len(fresh) + 1
       /\ \A f \in DOMAIN fresh' : \/ f \in DOMAIN fresh /\ fresh'[f] = fresh[f]
                                   \/ f = Len(fresh) + 1 /\ fresh'[f] = new
  <2>1. DOMAIN fresh' = 1..Len(fresh) + 1
    BY <1>11, LenProperties
  <2> QED  BY <1>2, <1>11, <2>1
<1>13. Here' = Here
  BY <1>0 DEF Here
<1>14. ScanInv'
  <2>1. ASSUME NEW item, ScannedFrom(item) PROVE ScannedFrom(item)'
    <3>1. PICK t \in 1..x, k \in DOMAIN Here.states :
            /\ t \in DOMAIN line /\ (t = x => k < y)
            /\ ~Finished(Here.states[k]) /\ After(Here.states[k]) = line[t].name
            /\ item = Advance(Here.states[k].item)
      BY <2>1 DEF ScannedFrom
    <3>2. t = x => k < y'
      BY <1>2, <1>4, <1>10, <3>1
    <3> QED  BY <1>0, <1>13, <3>1, <3>2 DEF ScannedFrom
  <2>2. ASSUME NEW item, item = new.item PROVE ScannedFrom(item)'
    <3>1. x \in 1..x /\ i < y'
      BY <1>2, <1>4, <1>10
    <3>2. x' \in 1..x' /\ i \in DOMAIN Here'.states /\ x' \in DOMAIN line'
      BY <1>0, <1>4, <1>5, <1>13, <3>1
    <3>3. /\ ~Finished(Here'.states[i]) /\ After(Here'.states[i]) = line'[x'].name
          /\ item = Advance(Here'.states[i].item)
      BY <1>0, <1>4, <1>7, <1>13, <2>2 DEF s
    <3> QED  BY <3>1, <3>2, <3>3 DEF ScannedFrom
  <2>3. ASSUME NEW f \in DOMAIN fresh', NEW item, item = fresh'[f].item
        PROVE  /\ Shaped(fresh'[f], Len(cells')) /\ fresh'[f].label = "scanned"
               /\ ScannedFrom(item)'
    <3>1. CASE f \in DOMAIN fresh /\ fresh'[f] = fresh[f]
      <4>1. Shaped(fresh[f], Len(cells)) /\ fresh[f].label = "scanned" /\ ScannedFrom(item)
        BY <2>3, <3>1 DEF IInv, ScanInv
      <4> QED  BY <1>0, <2>1, <3>1, <4>1
    <3>2. CASE f = Len(fresh) + 1 /\ fresh'[f] = new
      BY <1>0, <1>7, <2>2, <2>3, <3>2
    <3> QED  BY <1>12, <3>1, <3>2
  <2>4. Distinct(fresh')
    <3>1. \A f \in DOMAIN fresh : fresh[f].item # new.item
      BY <1>9 DEF Same
    <3>2. Distinct(fresh)
      BY DEF IInv, ScanInv
    <3> QED  BY <1>12, <3>1, <3>2 DEF Distinct
  <2>5. pc' = "scan"
    BY <1>0, <1>10
  <2> QED  BY <2>3, <2>4, <2>5 DEF ScanInv, ScannedFrom
<1>15. ChainInv' /\ LineOK(line)'
  <2>1. pc' # "complete" /\ pc # "complete"
    BY <1>0, <1>10
  <2> QED  BY <1>0, <1>5, <2>1, ChainStays
<1>16. Typed'
  <2>1. cells' \in Seq(Cell(V))
    BY <1>0, <1>1, <1>8, StatesGrow
  <2> QED  BY <1>11, <2>1 DEF Typed
<1>17. Control'
  BY <1>0, <1>4, <1>10, <1>13 DEF IInv, Control
<1> QED  BY <1>14, <1>15, <1>16, <1>17 DEF IInv

LEMMA ScanNextTokenKeeps ==
  ASSUME IInv, ScanNextToken
  PROVE  IInv'
<1>0. /\ pc = "scan" /\ x' = x + 1 /\ y' = 1
      /\ UNCHANGED <<cells, fresh, pc, purpose, line, upto, input, answer>>
  BY DEF ScanNextToken
<1>1. Here' = Here /\ x \in Nat \ {0}
  BY <1>0 DEF Here, IInv, Control
<1>2. ASSUME NEW item, ScannedFrom(item) PROVE ScannedFrom(item)'
  <2>1. PICK t \in 1..x, k \in DOMAIN Here.states :
          /\ t \in DOMAIN line /\ (t = x => k < y)
          /\ ~Finished(Here.states[k]) /\ After(Here.states[k]) = line[t].name
          /\ item = Advance(Here.states[k].item)
    BY <1>2 DEF ScannedFrom
  <2>2. t \in 1..x' /\ t # x'
    BY <1>0, <1>1
  <2> QED  BY <1>0, <1>1, <2>1, <2>2 DEF ScannedFrom
<1>3. ScanInv'
  <2>1. ASSUME NEW f \in DOMAIN fresh', NEW item, item = fresh'[f].item
        PROVE  /\ Shaped(fresh'[f], Len(cells')) /\ fresh'[f].label = "scanned"
               /\ ScannedFrom(item)'
    <3>1. Shaped(fresh[f], Len(cells)) /\ fresh[f].label = "scanned" /\ ScannedFrom(item)
      BY <1>0, <2>1 DEF IInv, ScanInv
    <3> QED  BY <1>0, <1>2, <3>1
  <2>2. Distinct(fresh')
    BY <1>0 DEF IInv, ScanInv
  <2>3. pc' = "scan"
    BY <1>0
  <2> QED  BY <2>1, <2>2, <2>3 DEF ScanInv, ScannedFrom
<1>4. ChainInv' /\ LineOK(line)' /\ Typed'
  <2>1. pc' # "complete" /\ pc # "complete" /\ LineOK(line)'
    BY <1>0 DEF IInv, LineOK
  <2> QED  BY <1>0, <2>1, ChainStays DEF IInv, Typed
<1>5. Control'
  BY <1>0, <1>1 DEF IInv, Control
<1> QED  BY <1>3, <1>4, <1>5 DEF IInv

LEMMA HighMarkIsInt ==
  ASSUME LineOK(line)
  PROVE  HighMark \in Int
<1> DEFINE marked == {i \in DOMAIN line : Positive(line[i].prob) /\ line[i].name # Empty}
<1>1. marked \subseteq Nat /\ marked \subseteq DOMAIN line
  BY DEF LineOK
<1>2. HighMark = IF marked = {} THEN 0 ELSE line[Min(marked)].high
  BY DEF HighMark
<1> HIDE DEF marked
<1>3. CASE marked # {}
  <2>1. Min(marked) \in DOMAIN line
    BY <1>1, <1>3, MinIsLeast
  <2> QED  BY <1>2, <1>3, <2>1 DEF LineOK
<1> QED  BY <1>2, <1>3

LEMMA LinkCellKeeps ==
  ASSUME IInv, LinkCell
  PROVE  IInv'
<1>0. /\ pc = "scan" /\ pc' = "complete" /\ fresh' = <<>> /\ x' = 1 /\ y' = 1
      /\ cells' = Append(cells, [states |-> fresh, high |-> HighMark])
      /\ UNCHANGED <<purpose, line, upto, input, answer>>
  BY DEF LinkCell
<1>1. PICK W : cells \in Seq(Cell(W)) /\ fresh \in Seq(State(W))
  BY DEF IInv, Typed
<1> DEFINE n == Len(cells)
           made == [states |-> fresh, high |-> HighMark]
<1>2. made \in Cell(W)
  BY <1>1, HighMarkIsInt DEF IInv, Cell
<1> HIDE DEF made
<1>3. /\ cells' \in Seq(Cell(W)) /\ Len(cells') = n + 1 /\ n \in Nat \ {0}
      /\ \A c \in 1..n : cells'[c] = cells[c]
      /\ cells'[n + 1] = made
      /\ DOMAIN cells' = 1..n + 1 /\ DOMAIN cells = 1..n
  <2>1. cells' = Append(cells, made)
    BY <1>0 DEF made
  <2>2. /\ cells' \in Seq(Cell(W)) /\ Len(cells') = n + 1
        /\ \A c \in 1..n : cells'[c] = cells[c]
        /\ cells'[n + 1] = made
    BY <1>1, <1>2, <2>1, AppendProperties
  <2>3. n \in Nat \ {0} /\ DOMAIN cells = 1..n
    BY <1>1, ChainFacts DEF IInv
  <2> QED  BY <2>2, <2>3, LenProperties
<1>4. ASSUME NEW c \in 1..n PROVE CellInv(cells', c) /\ AllDone(cells', c)
  <2>1. CellInv(cells, c) /\ AllDone(cells, c)
    BY <1>0, <1>3 DEF IInv, ChainInv
  <2>2. \A d \in 1..c : cells'[d] = cells[d]
    BY <1>3
  <2> QED  BY <1>1, <2>1, <2>2, CellKept
<1>5. /\ \A i \in DOMAIN fresh : /\ fresh[i] \in State(W)
                                 /\ Shaped(fresh[i], n) /\ fresh[i].label = "scanned"
      /\ Distinct(fresh) /\ DOMAIN fresh = 1..Len(fresh)
  BY <1>1, ScanFacts DEF IInv, ScanInv
<1>6. cells'[n + 1].states = fresh /\ n + 1 - 1 = n /\ Here'.states = fresh
  BY <1>3 DEF made, Here, Last
<1> HIDE DEF n
<1>7. CellInv(cells', n + 1)
  <2>1. Sorted(fresh)
    BY <1>5 DEF Sorted, Follows, Rank
  <2>2. \A i \in DOMAIN fresh : Justified(cells', n + 1, fresh[i])
    <3> SUFFICES ASSUME NEW i \in DOMAIN fresh PROVE ~EndsWithNonterminal(fresh[i].item)
      BY DEF Justified
    <3>1. LabelOf(fresh[i].item) = "scanned" /\ fresh[i].item.dot \in Nat
      BY <1>5, StateTyped DEF Shaped
    <3> QED  BY <3>1 DEF LabelOf, EndsWithNonterminal
  <2> DEFINE c == n + 1
  <2>3. /\ cells'[c].states = fresh /\ \A i \in DOMAIN fresh : Shaped(fresh[i], c - 1)
        /\ \A i \in DOMAIN fresh : Justified(cells', c, fresh[i])
    <3>1. \A i \in DOMAIN fresh : Shaped(fresh[i], c - 1)
      <4>1. n \in Nat
        BY <1>3
      <4>2. c - 1 = n
        BY <4>1 DEF c
      <4> HIDE DEF c
      <4> QED  BY <1>5, <4>2
    <3>2. \A i \in DOMAIN fresh : Justified(cells', c, fresh[i])
      BY <2>2 DEF c
    <3>3. cells'[c].states = fresh
      BY <1>6 DEF c
    <3> QED  BY <3>1, <3>2, <3>3
  <2> HIDE DEF c
  <2>4. CellInv(cells', c)
    BY <1>5, <2>1, <2>3 DEF CellInv
  <2> QED  BY <2>4 DEF c
<1>8. Done(cells', n + 1, 1, 1)
  <2>1. ASSUME NEW i \in DOMAIN fresh, Child(fresh[i])
        PROVE  fresh[i].item.k + 1 \in 1..n
    <3> DEFINE c == n + 1
               s == fresh[i]
    <3>1. c \in Nat /\ Shaped(s, c - 1) /\ s \in State(W) /\ Child(s) /\ c - 1 = n
      BY <1>3, <1>5, <1>6, <2>1
    <3> HIDE DEF c, s
    <3>2. s.item.k + 1 \in 1..c - 1
      BY <3>1, ChildIsEarlier
    <3>3. s.item.k + 1 \in 1..n
      BY <3>1, <3>2
    <3> QED  BY <3>3 DEF s
  <2> SUFFICES ASSUME NEW i \in DOMAIN fresh, Child(fresh[i]),
                      NEW j \in DOMAIN cells'[fresh[i].item.k + 1].states,
                      i < 1 \/ (i = 1 /\ j < 1)
               PROVE  FALSE
    BY <1>6 DEF Done
  <2> DEFINE d == fresh[i].item.k + 1
  <2>2. d \in 1..n
    BY <2>1
  <2>3. j \in DOMAIN cells[d].states
    BY <1>3, <2>2
  <2> HIDE DEF d
  <2>4. j \in 1..Len(cells[d].states)
    BY <1>1, <2>2, <2>3, ChainFacts DEF IInv, n
  <2> QED  BY <1>5, <2>4
<1>9. ChainInv'
  <2>1. \A c \in 1..n + 1 : c \in 1..n \/ c = n + 1
    BY <1>3
  <2>2. \A c \in DOMAIN cells' : CellInv(cells', c)
    BY <1>3, <1>4, <1>7, <2>1
  <2>3. ASSUME NEW c \in DOMAIN cells', c < Len(cells') \/ pc' # "complete"
        PROVE  AllDone(cells', c)
    <3>1. c \in 1..n
      BY <1>0, <1>3, <2>3
    <3> QED  BY <1>4, <3>1
  <2>4. \A i \in DOMAIN Here'.states : Here'.states[i].label # "predicted"
    BY <1>5, <1>6
  <2>5. Len(cells') > 0 /\ Done(cells', Len(cells'), x', y')
    BY <1>0, <1>3, <1>8
  <2> QED  BY <2>2, <2>3, <2>4, <2>5 DEF ChainInv
<1>10. Typed'
  <2>1. fresh' \in Seq(State(W))
    BY <1>0
  <2> QED  BY <1>3, <2>1 DEF Typed
<1>11. ScanInv'
  <2>1. DOMAIN fresh' = {}
    BY <1>0
  <2> QED  BY <1>0, <2>1 DEF ScanInv, Distinct
<1>12. Control'
  <2>1. Len(Here'.states) \in Nat /\ upto = 0 /\ Len(cells') > 1 /\ purpose # "construct"
    BY <1>0, <1>1, <1>3, <1>6, LenProperties DEF IInv, Control
  <2> QED  BY <1>0, <2>1 DEF IInv, Control
<1>13. LineOK(line)'
  BY <1>0 DEF IInv, LineOK
<1> QED  BY <1>9, <1>10, <1>11, <1>12, <1>13 DEF IInv

-----------------------------------------------------------------------------
(* The invariant *)

LEMMA InitInv == Init => IInv
<1> SUFFICES ASSUME Init PROVE IInv
  OBVIOUS
<1> DEFINE W == {One}
<1>1. Root.item \in Item /\ Root.item.rhs = <<Axiom, Empty>> /\ Len(Root.item.rhs) = 2
      /\ Root.item.k = 0 /\ Root.item.dot = 0 /\ Root.item.lhs = Empty
  <2>1. Axiom \in Symbols /\ Empty \in Symbols
    BY Grammar DEF Symbols
  <2>2. <<Axiom, Empty>> \in Seq(Symbols)
    BY <2>1
  <2> QED  BY <2>2 DEF Root, Item
<1>2. Root.label = "completed" /\ Root.kids = <<>> /\ Root.low = 0 /\ Root.high = 0
      /\ Root.alpha = One /\ Root.gamma = One /\ Root.v = One
      /\ Root = [item |-> Root.item, label |-> Root.label, alpha |-> Root.alpha,
                 gamma |-> Root.gamma, v |-> Root.v, low |-> Root.low, high |-> Root.high,
                 kids |-> Root.kids]
  BY DEF Root
<1>3. Root \in State(W)
  <2>1. Root.kids \in Seq(Kid) /\ Root.label \in Labels /\ Root.low \in Int /\ Root.high \in Int
        /\ Root.alpha \in W /\ Root.gamma \in W /\ Root.v \in W
    BY <1>2 DEF Labels
  <2> HIDE DEF W
  <2> QED  BY <1>1, <1>2, <2>1 DEF State
<1> DEFINE ss == <<Root>>
<1>4. ss \in Seq(State(W)) /\ Len(ss) = 1 /\ DOMAIN ss = {1} /\ ss[1] = Root
  <2> HIDE DEF W
  <2> QED  BY <1>3
<1>5. /\ cells = <<[states |-> ss, high |-> 0]>> /\ fresh = <<>>
      /\ pc = "predict" /\ purpose = "construct" /\ line = <<>>
      /\ x = 1 /\ y = 1 /\ upto = 1 /\ input = <<>>
  BY DEF Init
<1> HIDE DEF ss, W
<1>6. /\ cells \in Seq(Cell(W)) /\ Len(cells) = 1 /\ DOMAIN cells = {1}
      /\ cells[1].states = ss /\ Here.states = ss
  <2> DEFINE c == [states |-> ss, high |-> 0]
  <2>1. c \in Cell(W) /\ c.states = ss
    BY <1>4 DEF Cell
  <2> HIDE DEF c
  <2>2. cells = <<c>>
    BY <1>5 DEF c
  <2>3. cells \in Seq(Cell(W)) /\ Len(cells) = 1 /\ DOMAIN cells = {1} /\ cells[1] = c
    BY <2>1, <2>2
  <2> QED  BY <2>1, <2>3 DEF Here, Last
<1>7. Typed
  <2>1. fresh \in Seq(State(W))
    BY <1>5
  <2> QED  BY <1>6, <2>1 DEF Typed
<1>8. CellInv(cells, 1) /\ AllDone(cells, 1)
  <2>1. Shaped(Root, 0) /\ ~EndsWithNonterminal(Root.item) /\ ~Child(Root)
    BY <1>1, <1>2 DEF Shaped, LabelOf, EndsWithNonterminal, Child
  <2>2. Distinct(ss) /\ Sorted(ss)
    BY <1>4 DEF Distinct, Sorted
  <2> QED  BY <1>4, <1>6, <2>1, <2>2 DEF CellInv, Justified, AllDone, Done
<1>9. ChainInv
  BY <1>5, <1>6, <1>8 DEF ChainInv
<1>10. LineOK(line) /\ ScanInv
  <2>1. DOMAIN fresh = {}
    BY <1>5
  <2> QED  BY <1>5, <2>1, EmptyLine DEF ScanInv, Distinct
<1>11. Control
  <2>1. input \in Seq({}) /\ Len(input) = 0 /\ MaxParse \in Nat
    BY <1>5, MaxParseAssumption
  <2>2. upto \in 0..Len(Here.states)
    BY <1>4, <1>5, <1>6
  <2> QED  BY <1>5, <2>1, <2>2 DEF Control
<1> QED  BY <1>7, <1>9, <1>10, <1>11 DEF IInv

LEMMA NextInv == IInv /\ [Next]_vars => IInv'
<1> SUFFICES ASSUME IInv, [Next]_vars PROVE IInv'
  OBVIOUS
<1>1. ASSUME NEW obs \in Observations, Parse(obs) PROVE IInv'
  BY <1>1, ParseKeeps
<1>2. CASE GetCurrentMaxAlpha
  BY <1>2, StutterKeeps DEF GetCurrentMaxAlpha
<1>3. CASE GetPrediction
  BY <1>3, GetPredictionKeeps
<1>4. CASE GetViterbiParse
  BY <1>4, GetViterbiParseKeeps
<1>5. CASE Reset
  BY <1>5, ResetKeeps
<1>6. CASE ScanState
  BY <1>6, ScanStateKeeps
<1>7. CASE ScanNextToken
  BY <1>7, ScanNextTokenKeeps
<1>8. CASE LinkCell
  BY <1>8, LinkCellKeeps
<1>9. CASE CompleteParent
  BY <1>9, CompleteParentKeeps
<1>10. CASE CompleteNext
  BY <1>10, CompleteNextKeeps
<1>11. CASE CompleteDone
  BY <1>11, CompleteDoneKeeps
<1>12. CASE PredictRule
  BY <1>12, PredictRuleKeeps
<1>13. CASE PredictNext
  BY <1>13, PredictNextKeeps
<1>14. CASE PredictDone
  BY <1>14, PredictDoneKeeps
<1>15. CASE ReadPrediction
  BY <1>15, BacktrackKeeps DEF ReadPrediction, Leave
<1>16. CASE ReadViterbi
  BY <1>16, BacktrackKeeps DEF ReadViterbi, Leave
<1>17. CASE Dead \/ UNCHANGED vars
  BY <1>17, StutterKeeps DEF Dead, vars
<1> QED  BY <1>1, <1>2, <1>3, <1>4, <1>5, <1>6, <1>7, <1>8, <1>9, <1>10, <1>11, <1>12, <1>13,
            <1>14, <1>15, <1>16, <1>17 DEF Next, Calls, Steps

\* Every step of a call, whether it fills a cell, reads one or removes it, keeps the
\* chart's cells as SCell's code takes them to be.
THEOREM Invariant == Spec => []IInv
BY InitInv, NextInv, PTL DEF Spec

-----------------------------------------------------------------------------
(* What the runs check *)

LEMMA InvNoDuplicates == IInv => NoDuplicates
<1> SUFFICES ASSUME IInv PROVE NoDuplicates
  OBVIOUS
<1>1. \A c \in DOMAIN cells : Distinct(cells[c].states)
  BY DEF IInv, ChainInv, CellInv
<1>2. Distinct(fresh)
  BY DEF IInv, ScanInv
<1> QED  BY <1>1, <1>2 DEF NoDuplicates, Range

\* SCell::AddState finds the state of an item wherever it is in its cell, and
\* Scan's tokens give items of their own: whatever the grammar and the calls,
\* neither a linked cell nor the one being filled holds an item twice.
THEOREM OneStatePerItem == Spec => []NoDuplicates
BY Invariant, InvNoDuplicates, PTL

\* SCell::Scan never meets the duplicate on which it returns NULL, since the
\* names in a Line are distinct and so are the items of the cell it reads.
THEOREM ScanNeverGivesUp == Spec => []NeverLost
<1>1. IInv => NeverLost
  BY DEF IInv, Control, NeverLost
<1> QED  BY <1>1, Invariant, PTL

LEMMA InvCellOrder == IInv => CellOrder
<1> SUFFICES ASSUME IInv PROVE CellOrder
  OBVIOUS
<1>1. \A c \in DOMAIN cells : Sorted(cells[c].states)
  BY DEF IInv, ChainInv, CellInv
<1>2. \A c \in Range(cells) : Sorted(c.states)
  BY <1>1 DEF Range
<1> QED  BY <1>2 DEF CellOrder, Sorted, Follows

\* SCell::AddState keeps the order its loops rely on: scanned states, completed
\* ones from the latest start to the earliest, predicted ones.
THEOREM CellsAreSorted == Spec => []CellOrder
BY Invariant, InvCellOrder, PTL

LEMMA StepSettled == IInv /\ [Next]_vars => StaysSettled
<1> SUFFICES ASSUME IInv, [Next]_vars, pc = "complete", cells' # cells
             PROVE  StaysSettled
  BY DEF StaysSettled
<1>1. CompleteParent
  BY DEF Next, Calls, Steps, Dead, vars, Parse, GetCurrentMaxAlpha, GetPrediction,
         GetViterbiParse, Reset, ScanState, ScanNextToken, LinkCell, CompleteNext,
         CompleteDone, PredictRule, PredictNext, PredictDone, ReadPrediction, ReadViterbi
<1> QED  BY <1>1, CompleteParentKeeps

\* While SCell::Complete runs over the array that it adds to, nothing moves at or
\* before its cursor, and the weights it has already carried on no longer change:
\* a state it adds, or adds to, starts no earlier than the one it is at.
THEOREM UsedWeightsAreFinal == Spec => Settled
<1>1. IInv /\ [Next]_vars => [StaysSettled]_vars
  BY StepSettled
<1> QED  BY <1>1, Invariant, PTL DEF Spec, Settled

\* A sequence is one of any set that its elements are of.
LEMMA SeqOfElements ==
  ASSUME NEW S, NEW T, NEW seq \in Seq(S), \A i \in DOMAIN seq : seq[i] \in T
  PROVE  seq \in Seq(T)
<1>1. seq \in [1..Len(seq) -> S] /\ Len(seq) \in Nat /\ DOMAIN seq = 1..Len(seq)
  BY LenProperties
<1>2. seq \in [1..Len(seq) -> T]
  BY <1>1
<1> QED  BY <1>1, <1>2, SeqDef

LEMMA InvIsState ==
  ASSUME NEW W, NEW s \in State(W), NEW at \in Nat, Shaped(s, at)
  PROVE  IsState(s, at)
<1>1. /\ s.item \in Item /\ s.item.k \in Nat /\ s.kids \in Seq(Kid)
      /\ s.label \in {"scanned", "completed", "predicted"}
  BY StateTyped DEF Labels
<1>2. s.item.k <= at /\ s.item.dot <= Len(s.item.rhs)
  BY <1>1 DEF Shaped
<1>3. ASSUME NEW i \in DOMAIN s.kids PROVE s.kids[i] \in [cell : 0..at, item : Item]
  <2>1. s.kids[i] \in Kid
    <3>1. DOMAIN s.kids = 1..Len(s.kids)
      BY <1>1, LenProperties
    <3> QED  BY <1>1, <3>1, ElementOfSeq
  <2>2. s.kids[i].cell <= at
    BY DEF Shaped
  <2> QED  BY <2>1, <2>2 DEF Kid
<1>4. s.kids \in Seq([cell : 0..at, item : Item])
  BY <1>1, <1>3, SeqOfElements
<1> QED  BY <1>1, <1>2, <1>4 DEF IsState

LEMMA InvTypeOK == IInv => TypeOK
<1> SUFFICES ASSUME IInv PROVE TypeOK
  OBVIOUS
<1>1. PICK W : cells \in Seq(Cell(W)) /\ fresh \in Seq(State(W))
  BY DEF IInv, Typed
<1> DEFINE U == UNION {Range(c.states) : c \in Range(cells)}
           C == [states : Seq(U), high : Int]
<1>2. /\ DOMAIN cells = 1..Len(cells) /\ Len(cells) \in Nat \ {0}
      /\ \A c \in DOMAIN cells : cells[c] \in Cell(W)
      /\ \A c \in DOMAIN cells : \A i \in DOMAIN cells[c].states :
           cells[c].states[i] \in State(W) /\ Shaped(cells[c].states[i], c - 1)
  BY <1>1, ChainFacts DEF IInv
<1>3. \A c \in DOMAIN cells : cells[c].states \in Seq(U)
  <2> TAKE c \in DOMAIN cells
  <2>1. cells[c].states \in Seq(State(W))
    BY <1>2 DEF Cell
  <2>2. \A i \in DOMAIN cells[c].states : cells[c].states[i] \in U
    BY DEF Range
  <2> HIDE DEF U
  <2> QED  BY <2>1, <2>2, SeqOfElements
<1>4. cells \in Seq([states : Seq(U), high : Int])
  <2> HIDE DEF U
  <2>1. \A c \in DOMAIN cells : cells[c] \in C
    BY <1>2, <1>3 DEF Cell
  <2> HIDE DEF C
  <2>2. cells \in Seq(C)
    BY <1>1, <2>1, SeqOfElements
  <2> QED  BY <2>2 DEF C
<1>5. \A c \in DOMAIN cells : \A s \in Range(cells[c].states) : IsState(s, c - 1)
  <2> SUFFICES ASSUME NEW c \in DOMAIN cells, NEW i \in DOMAIN cells[c].states
               PROVE  IsState(cells[c].states[i], c - 1)
    BY DEF Range
  <2>1. c - 1 \in Nat
    BY <1>2
  <2> QED  BY <1>2, <2>1, InvIsState
<1>6. \A s \in Range(fresh) : IsState(s, Len(cells))
  <2> SUFFICES ASSUME NEW i \in DOMAIN fresh PROVE IsState(fresh[i], Len(cells))
    BY DEF Range
  <2>1. fresh[i] \in State(W) /\ Shaped(fresh[i], Len(cells)) /\ Len(cells) \in Nat
    BY <1>1, <1>2, ScanFacts DEF IInv, ScanInv
  <2> QED  BY <2>1, InvIsState
<1>7. \A i \in DOMAIN line : line[i].name \in Symbols \ Nonterminals
  BY DEF IInv, LineOK
<1>8. cells # <<>>
  BY <1>2
<1>9. /\ pc \in {"idle", "scan", "complete", "predict", "read", "lost", "dead"}
      /\ purpose \in {"none", "construct", "parse", "prediction", "viterbi"}
      /\ x \in Nat \ {0} /\ y \in Nat \ {0} /\ upto \in 0..Len(Here.states)
      /\ Len(input) <= MaxParse
  BY DEF IInv, Control
<1> QED  BY <1>4, <1>5, <1>6, <1>7, <1>8, <1>9 DEF TypeOK

\* Every state is of an item of the grammar that starts no later than its cell and
\* refers to children of cells up to it; the loop variables stay where the code's
\* loops leave them.
THEOREM TypeCorrect == Spec => []TypeOK
BY Invariant, InvTypeOK, PTL

\* An item is the one before its advance.
LEMMA BeforeAdvance ==
  ASSUME NEW a \in Item, NEW b, b = Advance(a)
  PROVE  [b EXCEPT !.dot = @ - 1] = a /\ b.lhs = a.lhs
<1>1. b = [k |-> a.k, dot |-> a.dot + 1, lhs |-> a.lhs, rhs |-> a.rhs] /\ a.dot \in Nat
  BY DEF Advance, Item
<1>2. [b EXCEPT !.dot = @ - 1] = [k |-> a.k, dot |-> a.dot + 1 - 1, lhs |-> a.lhs, rhs |-> a.rhs]
  BY <1>1
<1>3. a.dot + 1 - 1 = a.dot
  BY <1>1
<1>4. [k |-> a.k, dot |-> a.dot, lhs |-> a.lhs, rhs |-> a.rhs] = a
  BY DEF Item
<1> QED  BY <1>1, <1>2, <1>3, <1>4

\* The child that justifies a state, and the parent it was completed from, are those
\* that the state's items name.
LEMMA JustifiedBy ==
  ASSUME IInv, NEW W, cells \in Seq(Cell(W)), NEW c \in DOMAIN cells,
         NEW s, EndsWithNonterminal(s.item), Justified(cells, c, s)
  PROVE  \E child, parent \in State(W) :
           /\ s.kids # <<>> /\ Last(s.kids) = [cell |-> c - 1, item |-> child.item]
           /\ Completes(parent, child)
           /\ s.item = Advance(parent.item)
           /\ StateOf(cells[c].states, child.item) = child
           /\ StateOf(cells[child.item.k + 1].states, parent.item) = parent
<1> DEFINE ss == cells[c].states
<1>1. /\ c \in 1..Len(cells) /\ DOMAIN cells = 1..Len(cells)
      /\ Distinct(ss) /\ DOMAIN ss = 1..Len(ss) /\ Len(ss) \in Nat
      /\ \A i \in DOMAIN ss : ss[i] \in State(W)
  BY ChainFacts DEF IInv, CellInv
<1>2. s.kids # <<>> /\ CompletedBy(cells, c, s.item, Last(s.kids))
  BY DEF Justified
<1>3. PICK i \in DOMAIN cells[c].states :
        LET child == cells[c].states[i]
            from  == cells[child.item.k + 1].states
        IN /\ Child(child) /\ Last(s.kids) = [cell |-> c - 1, item |-> child.item]
           /\ \E j \in DOMAIN from : Completes(from[j], child) /\ s.item = Advance(from[j].item)
  BY <1>2 DEF CompletedBy
<1> DEFINE child == cells[c].states[i]
           d == child.item.k + 1
           from == cells[d].states
<1>4. StateOf(ss, ss[i].item) = ss[i] /\ child \in State(W)
  <2> HIDE DEF ss
  <2>1. i \in DOMAIN ss
    BY <1>3 DEF ss
  <2>2. i \in Int
    BY <1>1, <2>1
  <2>3. StateOf(ss, ss[i].item) = ss[i] /\ ss[i] \in State(W)
    BY <1>1, <2>1, <2>2, StateFound
  <2> QED  BY <2>3 DEF ss
<1>5. /\ d \in 1..Len(cells) /\ Len(from) \in Nat /\ DOMAIN from = 1..Len(from)
      /\ \A j \in DOMAIN from : from[j] \in State(W)
  <2>1. /\ d \in 1..c - 1 /\ Len(from) \in Nat /\ DOMAIN from = 1..Len(from)
        /\ \A j \in 1..Len(from) : from[j] \in State(W)
    BY <1>1, <1>3, FromFacts DEF IInv
  <2> HIDE DEF d
  <2> QED  BY <1>1, <2>1
<1>6. PICK j \in DOMAIN from : Completes(from[j], child) /\ s.item = Advance(from[j].item)
  BY <1>3
<1>7. Distinct(from)
  <2> HIDE DEF d
  <2> QED  BY <1>1, <1>5, ChainFacts DEF IInv, CellInv
<1>8. StateOf(from, from[j].item) = from[j]
  <2> HIDE DEF from
  <2>1. j \in Int
    BY <1>5
  <2> QED  BY <1>7, <2>1, StateFound
<1>9. /\ s.kids # <<>> /\ Last(s.kids) = [cell |-> c - 1, item |-> child.item]
      /\ StateOf(cells[c].states, child.item) = child
  BY <1>2, <1>3, <1>4
<1>10. from[j] \in State(W)
  BY <1>5
<1>11. StateOf(cells[child.item.k + 1].states, from[j].item) = from[j]
  BY <1>8
<1> HIDE DEF child, from
<1> QED  BY <1>4, <1>6, <1>9, <1>10, <1>11

LEMMA InvApartInTime == IInv => ApartInTime
<1> SUFFICES ASSUME IInv, NEW c \in DOMAIN cells, NEW s \in Range(cells[c].states),
                    EndsWithNonterminal(s.item)
             PROVE  LET kid    == Last(s.kids)
                        parent == [s.item EXCEPT !.dot = @ - 1]
                    IN \/ Skip \in {s.item.lhs, kid.item.lhs}
                       \/ StateOf(cells[kid.item.k + 1].states, parent).high
                            - StateOf(cells[kid.cell + 1].states, kid.item).low <= 11
  BY DEF ApartInTime, EndsWithNonterminal, SymbolBefore
<1>1. PICK W : cells \in Seq(Cell(W))
  BY DEF IInv, Typed
<1>2. c \in Nat /\ s \in State(W) /\ Justified(cells, c, s)
  BY <1>1, ChainFacts DEF IInv, CellInv, Range
<1>3. PICK child \in State(W), parent \in State(W) :
        /\ s.kids # <<>> /\ Last(s.kids) = [cell |-> c - 1, item |-> child.item]
        /\ Completes(parent, child)
        /\ s.item = Advance(parent.item)
        /\ StateOf(cells[c].states, child.item) = child
        /\ StateOf(cells[child.item.k + 1].states, parent.item) = parent
  BY <1>1, <1>2, JustifiedBy
<1> DEFINE kid == Last(s.kids)
           earlier == [s.item EXCEPT !.dot = @ - 1]
<1>4. earlier = parent.item /\ s.item.lhs = parent.item.lhs
  BY <1>3, BeforeAdvance, StateTyped
<1>5. kid.item = child.item /\ kid.cell + 1 = c
  BY <1>2, <1>3
<1> HIDE DEF kid, earlier
<1>6. /\ StateOf(cells[kid.cell + 1].states, kid.item) = child
      /\ StateOf(cells[kid.item.k + 1].states, earlier) = parent
  BY <1>3, <1>4, <1>5
<1>7. child.item.lhs = Skip \/ parent.item.lhs = Skip \/ parent.high - child.low <= 11
  <2>1. child.item.lhs = Skip \/ parent.item.lhs = Skip \/ ~(parent.high - child.low > 11)
    BY <1>3 DEF Completes, Filter
  <2>2. child.low \in Int /\ parent.high \in Int
    BY StateTyped
  <2> QED  BY <2>1, <2>2
<1>8. \/ Skip \in {s.item.lhs, kid.item.lhs}
      \/ StateOf(cells[kid.item.k + 1].states, earlier).high
           - StateOf(cells[kid.cell + 1].states, kid.item).low <= 11
  BY <1>4, <1>5, <1>6, <1>7
<1> QED  BY <1>8 DEF kid, earlier

\* SCell::Filter still holds of the marks in the chart whatever was added and merged
\* since it was asked: the marks of a state are those it was added with.
THEOREM SlackIsKept == Spec => []ApartInTime
BY Invariant, InvApartInTime, PTL

\* A parent whose symbol is completed becomes a completed state.
LEMMA AdvancedIsCompleted ==
  ASSUME NEW W, NEW parent \in State(W), NEW child, Completes(parent, child),
         NEW t \in State(W), NEW at, Shaped(t, at), t.item = Advance(parent.item)
  PROVE  t.label = "completed" /\ t.item.dot > 0
<1>1. parent.item \in Item /\ parent.item.dot \in Nat /\ After(parent) \in Nonterminals
  BY StateTyped DEF Completes
<1>2. t.item.dot = parent.item.dot + 1 /\ t.item.rhs = parent.item.rhs
  BY <1>1, AdvanceItem
<1>3. t.item.dot > 0 /\ SymbolBefore(t.item) = After(parent)
  BY <1>1, <1>2 DEF SymbolBefore, After
<1>4. LabelOf(t.item) = "completed"
  BY <1>1, <1>2, <1>3 DEF LabelOf
<1> QED  BY <1>3, <1>4 DEF Shaped

LEMMA InvSaturated == IInv => Saturated
<1> SUFFICES ASSUME IInv, Filled PROVE Saturated
  BY DEF Saturated
<1>1. PICK W : cells \in Seq(Cell(W))
  BY DEF IInv, Typed
<1> DEFINE n == Len(cells)
           ss == cells[n].states
           from(child) == Range(cells[child.item.k + 1].states)
           states == Range(Here.states)
           done == {s.item : s \in {t \in states : t.label = "completed" /\ t.item.dot > 0}}
           children == {t \in states : Finished(t) /\ t.item.lhs # Empty}
           parents(child) == {p \in from(child) : Completes(p, child)}
           due == UNION {{Advance(parent.item) : parent \in parents(child)} :
                           child \in children}
<1>2. /\ n \in Nat \ {0} /\ n \in DOMAIN cells /\ Here = cells[n] /\ DOMAIN cells = 1..n
      /\ Len(ss) \in Nat /\ DOMAIN ss = 1..Len(ss)
      /\ \A i \in DOMAIN ss : /\ ss[i] \in State(W) /\ Shaped(ss[i], n - 1)
                              /\ Justified(cells, n, ss[i])
  <2>1. n \in Nat \ {0} /\ n \in 1..n /\ Here = cells[n] /\ DOMAIN cells = 1..n
    BY <1>1, ChainFacts DEF IInv
  <2> HIDE DEF n
  <2>2. Len(cells) = n
    BY DEF n
  <2> QED  BY <1>1, <2>1, <2>2, ChainFacts DEF IInv, CellInv
<1>3. Done(cells, n, Len(ss) + 1, 1)
  BY <1>2 DEF IInv, ChainInv, AllDone, Filled
<1>4. ASSUME NEW item \in done PROVE item \in due
  <2>1. PICK i \in DOMAIN ss : ss[i].label = "completed" /\ ss[i].item.dot > 0
                                 /\ item = ss[i].item
    BY <1>2, <1>4 DEF Range
  <2>2. EndsWithNonterminal(ss[i].item)
    BY <1>2, <2>1 DEF Shaped, LabelOf, EndsWithNonterminal
  <2>3. CompletedBy(cells, n, item, Last(ss[i].kids))
    BY <1>2, <2>1, <2>2 DEF Justified
  <2>4. PICK k \in DOMAIN ss : LET child == ss[k]
                                   earlier == cells[child.item.k + 1].states
                               IN /\ Child(child)
                                  /\ \E j \in DOMAIN earlier :
                                       /\ Completes(earlier[j], child)
                                       /\ item = Advance(earlier[j].item)
    BY <2>3 DEF CompletedBy
  <2> DEFINE child == ss[k]
  <2>5. child \in children
    BY <1>2, <2>4 DEF Child, Range
  <2>6. \E p \in parents(child) : item = Advance(p.item)
    BY <2>4 DEF Range
  <2> HIDE DEF child, children, parents
  <2> QED  BY <2>5, <2>6
<1>5. ASSUME NEW item \in due PROVE item \in done
  <2>1. PICK child \in children : \E p \in parents(child) : item = Advance(p.item)
    BY <1>5
  <2>2. PICK p \in parents(child) : item = Advance(p.item)
    BY <2>1
  <2>3. PICK i \in DOMAIN ss : child = ss[i]
    BY <1>2, <2>1 DEF Range
  <2>4. Child(ss[i]) /\ i \in 1..Len(ss)
    BY <1>2, <2>1, <2>3 DEF Child
  <2> DEFINE earlier == cells[ss[i].item.k + 1].states
  <2>5. PICK j \in DOMAIN earlier : p = earlier[j] /\ Completes(p, child)
    BY <2>2, <2>3 DEF Range
  <2>6. p \in State(W)
    <3>1. Len(earlier) \in Nat /\ DOMAIN earlier = 1..Len(earlier)
          /\ \A m \in 1..Len(earlier) : earlier[m] \in State(W)
      BY <1>1, <1>2, <2>4, FromFacts DEF IInv
    <3> HIDE DEF earlier
    <3> QED  BY <2>5, <3>1
  <2>7. Same(ss, item) # {}
    <3>1. i < Len(ss) + 1
      BY <1>2, <2>4
    <3>2. \A m \in DOMAIN earlier :
            Completes(earlier[m], ss[i]) => Same(ss, Advance(earlier[m].item)) # {}
      BY <1>3, <2>4, <3>1 DEF Done
    <3> HIDE DEF earlier, ss
    <3> QED  BY <2>2, <2>3, <2>5, <3>2
  <2>8. PICK m \in DOMAIN ss : ss[m].item = item
    BY <2>7 DEF Same
  <2>9. ss[m].label = "completed" /\ ss[m].item.dot > 0
    <3> DEFINE t == ss[m]
               at == n - 1
    <3>1. t \in State(W) /\ Shaped(t, at) /\ t.item = Advance(p.item)
      BY <1>2, <2>2, <2>8
    <3> HIDE DEF t, at
    <3>2. t.label = "completed" /\ t.item.dot > 0
      BY <2>5, <2>6, <3>1, AdvancedIsCompleted
    <3> QED  BY <3>2 DEF t
  <2>10. ss[m] \in states
    BY <1>2, <2>8 DEF Range
  <2> QED  BY <2>8, <2>9, <2>10
<1>6. done = due
  BY <1>4, <1>5
<1> QED  BY <1>6 DEF Saturated

\* A call that returns leaves no completion undone in the cell it filled, and none
\* done that Ru and Filter do not allow: the loop bounds that SCell::Complete reads
\* anew take in the states it adds, and a state that is merged keeps its item.
THEOREM CompletionsAreDone == Spec => []Saturated
BY Invariant, InvSaturated, PTL

-----------------------------------------------------------------------------
(* The children of a state *)

\* An item is of a rule, or of the root.
Ruled(item) ==
  \/ item.lhs = Empty /\ item.rhs = <<Axiom, Empty>>
  \/ \E rule \in Range(Rules) : item.lhs = rule.lhs /\ item.rhs = rule.rhs

\* A child is a finished state of the chain, and not a root.
There(chain, kid) ==
  /\ kid.cell + 1 \in 1..Len(chain) /\ Finished(kid) /\ kid.item.lhs # Empty
  /\ Same(chain[kid.cell + 1].states, kid.item) # {}

\* What holds of the children of every state, in every grammar
Counted(s) == Len(s.kids) = Cardinality(Places(s.item, s.item.dot))
HasKids(chain, s) ==
  /\ Ruled(s.item) /\ Counted(s)
  /\ \A i \in DOMAIN s.kids : There(chain, s.kids[i])

\* What holds of those of a state of the cell at, in a grammar that keeps units apart:
\* they follow each other, and none is empty.
Placed(s, p) ==
  /\ KidAt(s, p).item.k = EndOf(s, p - 1)
  /\ Positive(Ru[s.item.rhs[p]][KidAt(s, p).item.lhs])
SpansTo(s, at) ==
  /\ \A p \in Places(s.item, s.item.dot) : Placed(s, p)
  /\ \A n \in 0..s.item.dot : EndOf(s, n) >= s.item.k + n
  /\ EndOf(s, s.item.dot) = at

TreeOf(chain, s, at) == HasKids(chain, s) /\ (UnitsApart => SpansTo(s, at))
TreeInv ==
  /\ \A c \in DOMAIN cells : \A i \in DOMAIN cells[c].states :
       TreeOf(cells, cells[c].states[i], c - 1)
  /\ \A i \in DOMAIN fresh : TreeOf(cells, fresh[i], Len(cells))

LEMMA PlacesFinite ==
  ASSUME NEW item, NEW n \in Nat
  PROVE  /\ Places(item, n) \in SUBSET (1..n) /\ IsFiniteSet(Places(item, n))
         /\ Cardinality(Places(item, n)) \in Nat
         /\ Cardinality(Places(item, n)) = 0 <=> Places(item, n) = {}
<1>1. Places(item, n) \in SUBSET (1..n)
  BY DEF Places
<1>2. IsFiniteSet(Places(item, n))
  BY <1>1, FS_Interval, FS_Subset
<1> QED  BY <1>1, <1>2, FS_CardinalityType, FS_EmptySet

\* One symbol more
LEMMA PlacesNext ==
  ASSUME NEW item, NEW n \in Nat
  PROVE  /\ item.rhs[n + 1] \in Nonterminals =>
              /\ Places(item, n + 1) = Places(item, n) \cup {n + 1}
              /\ Cardinality(Places(item, n + 1)) = Cardinality(Places(item, n)) + 1
              /\ Max(Places(item, n + 1)) = n + 1
         /\ item.rhs[n + 1] \notin Nonterminals => Places(item, n + 1) = Places(item, n)
<1> DEFINE P == Places(item, n)
           Q == Places(item, n + 1)
<1>1. item.rhs[n + 1] \notin Nonterminals => Q = P
  BY DEF Places
<1>2. ASSUME item.rhs[n + 1] \in Nonterminals
      PROVE  Q = P \cup {n + 1} /\ n + 1 \notin P
  BY <1>2 DEF Places
<1>3. IsFiniteSet(P) /\ n + 1 \in Nat /\ Q \in SUBSET (1..(n + 1))
  BY PlacesFinite
<1> HIDE DEF P, Q
<1>4. ASSUME item.rhs[n + 1] \in Nonterminals
      PROVE  Cardinality(Q) = Cardinality(P) + 1 /\ Max(Q) = n + 1
  <2>1. Cardinality(Q) = Cardinality(P) + 1
    BY <1>2, <1>3, <1>4, FS_AddElement
  <2>2. Max(Q) \in Q /\ n + 1 <= Max(Q)
    BY <1>2, <1>3, <1>4, MaxIsGreatest
  <2>3. Max(Q) \in 1..(n + 1)
    BY <1>3, <2>2
  <2> QED  BY <2>1, <2>2, <2>3
<1> QED  BY <1>1, <1>2, <1>4 DEF P, Q

\* Fewer symbols
LEMMA PlacesGrow ==
  ASSUME NEW item, NEW m \in Nat, NEW n \in Nat, m <= n
  PROVE  /\ Places(item, m) \subseteq Places(item, n)
         /\ Cardinality(Places(item, m)) <= Cardinality(Places(item, n))
<1>1. Places(item, m) \in SUBSET Places(item, n)
  BY DEF Places
<1> QED  BY <1>1, PlacesFinite, FS_Subset

\* A nonterminal's number is less than that of the next.
LEMMA PlacesRise ==
  ASSUME NEW item, NEW m \in Nat, NEW n \in Nat, m < n, item.rhs[n] \in Nonterminals
  PROVE  Cardinality(Places(item, m)) < Cardinality(Places(item, n))
<1>1. n - 1 \in Nat /\ n - 1 + 1 = n /\ m <= n - 1
  OBVIOUS
<1>2. Cardinality(Places(item, n)) = Cardinality(Places(item, n - 1)) + 1
  BY <1>1, PlacesNext
<1>3. Cardinality(Places(item, m)) <= Cardinality(Places(item, n - 1))
  BY <1>1, PlacesGrow
<1> QED  BY <1>1, <1>2, <1>3, PlacesFinite

\* Each child is of one of the nonterminals before the dot.
LEMMA KidHasPlace ==
  ASSUME NEW s, s.item.dot \in Nat, Counted(s), NEW j \in 1..Len(s.kids)
  PROVE  \E p \in Places(s.item, s.item.dot) :
           Cardinality(Places(s.item, p)) = j /\ KidAt(s, p) = s.kids[j]
<1> DEFINE n == s.item.dot
           P == Places(s.item, n)
<1>1. P \in SUBSET (1..n) /\ j \in 1..Cardinality(P) /\ n \in Nat
  BY PlacesFinite DEF Counted
<1> HIDE DEF P
<1>2. PICK p \in P : Ordinal(P, p) = j
  BY <1>1, OrdinalsAreAll
<1>3. {i \in P : i <= p} = Places(s.item, p)
  BY <1>1 DEF P, Places
<1>4. Cardinality(Places(s.item, p)) = j
  BY <1>2, <1>3 DEF Ordinal
<1> QED  BY <1>4 DEF KidAt, P

LEMMA KidTyped ==
  ASSUME NEW W, NEW s \in State(W), Counted(s), NEW n \in 0..s.item.dot
  PROVE  /\ Places(s.item, n) # {} =>
              /\ Cardinality(Places(s.item, n)) \in 1..Len(s.kids)
              /\ KidAt(s, n) \in Kid /\ KidAt(s, n).cell \in Nat
              /\ Max(Places(s.item, n)) \in 1..n
         /\ EndOf(s, n) \in Int
<1>1. /\ s.item.dot \in Nat /\ s.kids \in Seq(Kid) /\ s.item.k \in Nat
      /\ n \in Nat /\ Len(s.kids) \in Nat
  BY StateTyped, LenProperties
<1> DEFINE P == Places(s.item, n)
<1>2. ASSUME P # {}
      PROVE  /\ Cardinality(P) \in 1..Len(s.kids)
             /\ KidAt(s, n) \in Kid /\ KidAt(s, n).cell \in Nat
             /\ Max(P) \in 1..n
  <2>1. Cardinality(P) \in Nat \ {0} /\ P \in SUBSET (1..n)
    BY <1>1, <1>2, PlacesFinite
  <2>2. Cardinality(P) <= Len(s.kids)
    BY <1>1, PlacesGrow DEF Counted
  <2>3. Max(P) \in 1..n
    <3> HIDE DEF P
    <3> QED  BY <1>1, <1>2, <2>1, MaxIsGreatest
  <2> HIDE DEF P
  <2>4. Cardinality(P) \in 1..Len(s.kids)
    BY <1>1, <2>1, <2>2
  <2>5. s.kids[Cardinality(P)] \in Kid
    BY <1>1, <2>4, ElementOfSeq
  <2>6. KidAt(s, n) = s.kids[Cardinality(P)]
    BY DEF KidAt, P
  <2> QED  BY <2>3, <2>4, <2>5, <2>6 DEF Kid
<1>3. EndOf(s, n) \in Int
  <2>1. CASE P = {}
    BY <1>1, <2>1 DEF EndOf
  <2>2. CASE P # {}
    <3>1. EndOf(s, n) = KidAt(s, n).cell + n - Max(P)
      BY <2>2 DEF EndOf
    <3> QED  BY <1>1, <1>2, <2>2, <3>1
  <2> QED  BY <2>1, <2>2
<1> QED  BY <1>2, <1>3

\* Where symbols end is a matter of their children.
LEMMA EndOfSame ==
  ASSUME NEW s, NEW t, NEW n, t.item.k = s.item.k, t.item.rhs = s.item.rhs,
         Places(s.item, n) # {} => KidAt(t, n) = KidAt(s, n)
  PROVE  /\ Places(t.item, n) = Places(s.item, n)
         /\ EndOf(t, n) = EndOf(s, n)
<1>1. Places(t.item, n) = Places(s.item, n)
  BY DEF Places
<1> QED  BY <1>1 DEF EndOf

\* One symbol further
LEMMA EndOfNext ==
  ASSUME NEW W, NEW s \in State(W), Counted(s), NEW n \in Nat, n + 1 <= s.item.dot
  PROVE  /\ s.item.rhs[n + 1] \in Nonterminals => EndOf(s, n + 1) = KidAt(s, n + 1).cell
         /\ s.item.rhs[n + 1] \notin Nonterminals => EndOf(s, n + 1) = EndOf(s, n) + 1
<1>1. s.item.dot \in Nat /\ s.item.k \in Nat /\ n \in 0..s.item.dot /\ n + 1 \in 0..s.item.dot
  BY StateTyped
<1>2. ASSUME s.item.rhs[n + 1] \in Nonterminals PROVE EndOf(s, n + 1) = KidAt(s, n + 1).cell
  <2>1. Places(s.item, n + 1) # {} /\ Max(Places(s.item, n + 1)) = n + 1
    <3> DEFINE P == Places(s.item, n + 1)
    <3>1. P = Places(s.item, n) \cup {n + 1} /\ Max(P) = n + 1
      BY <1>2, PlacesNext
    <3> HIDE DEF P
    <3>2. P # {} /\ Max(P) = n + 1
      BY <3>1
    <3> QED  BY <3>2 DEF P
  <2>2. KidAt(s, n + 1).cell \in Nat
    BY <1>1, <2>1, KidTyped
  <2>3. EndOf(s, n + 1) = KidAt(s, n + 1).cell + (n + 1) - (n + 1)
    BY <2>1 DEF EndOf
  <2> QED  BY <2>2, <2>3
<1>3. ASSUME s.item.rhs[n + 1] \notin Nonterminals PROVE EndOf(s, n + 1) = EndOf(s, n) + 1
  <2>1. Places(s.item, n + 1) = Places(s.item, n)
    BY <1>3, PlacesNext
  <2>2. CASE Places(s.item, n) = {}
    <3>1. EndOf(s, n + 1) = s.item.k + (n + 1) /\ EndOf(s, n) = s.item.k + n
      BY <2>1, <2>2 DEF EndOf
    <3> QED  BY <1>1, <3>1
  <2>3. CASE Places(s.item, n) # {}
    <3>1. KidAt(s, n).cell \in Nat /\ Max(Places(s.item, n)) \in 1..n
      BY <1>1, <2>3, KidTyped
    <3>2. KidAt(s, n + 1) = KidAt(s, n)
      BY <2>1 DEF KidAt
    <3>3. /\ EndOf(s, n + 1) = KidAt(s, n).cell + (n + 1) - Max(Places(s.item, n))
          /\ EndOf(s, n) = KidAt(s, n).cell + n - Max(Places(s.item, n))
      BY <2>1, <2>3, <3>2 DEF EndOf
    <3> QED  BY <1>1, <3>1, <3>3
  <2> QED  BY <2>2, <2>3
<1> QED  BY <1>2, <1>3

\* Only items and children matter.
LEMMA SameTree ==
  ASSUME NEW chain, NEW s, NEW t, NEW at, t.item = s.item, t.kids = s.kids, TreeOf(chain, s, at)
  PROVE  TreeOf(chain, t, at)
<1>1. HasKids(chain, t)
  BY DEF TreeOf, HasKids, Counted
<1>2. \A n : KidAt(t, n) = KidAt(s, n) /\ EndOf(t, n) = EndOf(s, n)
  BY DEF KidAt, EndOf
<1>3. ASSUME SpansTo(s, at) PROVE SpansTo(t, at)
  BY <1>2, <1>3 DEF SpansTo, Placed
<1> QED  BY <1>1, <1>3 DEF TreeOf

\* Children stay when cells grow, and when those behind them go.
LEMMA TreeStays ==
  ASSUME NEW a, NEW b, NEW s, NEW at, TreeOf(a, s, at),
         \A i \in DOMAIN s.kids :
           LET c == s.kids[i].cell + 1
           IN c \in 1..Len(a) => c \in 1..Len(b) /\ Grown(a[c].states, b[c].states)
  PROVE  TreeOf(b, s, at)
<1>1. ASSUME NEW i \in DOMAIN s.kids PROVE There(b, s.kids[i])
  <2> DEFINE kid == s.kids[i]
             c == kid.cell + 1
  <2>1. There(a, kid)
    BY DEF TreeOf, HasKids
  <2>2. c \in 1..Len(a) /\ Same(a[c].states, kid.item) # {}
    BY <2>1 DEF There
  <2>3. c \in 1..Len(b) /\ Grown(a[c].states, b[c].states)
    BY <2>2
  <2> HIDE DEF c
  <2>4. PICK j \in DOMAIN a[c].states : a[c].states[j].item = kid.item
    BY <2>2 DEF Same
  <2>5. PICK m \in DOMAIN b[c].states : Like(b[c].states[m], a[c].states[j])
    BY <2>3, <2>4 DEF Grown
  <2>6. b[c].states[m].item = kid.item
    BY <2>4, <2>5 DEF Like
  <2>7. Same(b[c].states, kid.item) # {}
    BY <2>5, <2>6 DEF Same
  <2> QED  BY <2>1, <2>3, <2>7 DEF There, c
<1> QED  BY <1>1 DEF TreeOf, HasKids

LEMMA GrownSelf ==
  ASSUME NEW ss
  PROVE  Grown(ss, ss)
BY DEF Grown, Like

\* A scanned state has the children of the state before the token, and ends a cell later.
LEMMA TreeScanned ==
  ASSUME NEW W, NEW s \in State(W), NEW new \in State(W), NEW chain, NEW at \in Nat,
         TreeOf(chain, s, at), After(s) \notin Nonterminals,
         new.item = Advance(s.item), new.kids = s.kids
  PROVE  TreeOf(chain, new, at + 1)
<1> DEFINE n == s.item.dot
<1>1. /\ n \in Nat /\ s.item.k \in Nat /\ s.item.rhs[n + 1] \notin Nonterminals
      /\ new.item.k = s.item.k /\ new.item.lhs = s.item.lhs /\ new.item.rhs = s.item.rhs
      /\ new.item.dot = n + 1
  BY StateTyped, AdvanceItem DEF After
<1>2. \A m : Places(new.item, m) = Places(s.item, m) /\ KidAt(new, m) = KidAt(s, m)
  BY <1>1 DEF Places, KidAt
<1>3. \A m : EndOf(new, m) = EndOf(s, m)
  BY <1>1, <1>2, EndOfSame
<1>4. Places(new.item, n + 1) = Places(s.item, n)
  BY <1>1, <1>2, PlacesNext
<1>5. HasKids(chain, new) /\ Counted(new)
  <2>1. Ruled(new.item) /\ Counted(new)
    BY <1>1, <1>4 DEF TreeOf, HasKids, Ruled, Counted
  <2> QED  BY <2>1 DEF TreeOf, HasKids
<1>6. ASSUME SpansTo(s, at) PROVE SpansTo(new, at + 1)
  <2>1. EndOf(new, n + 1) = EndOf(new, n) + 1
    <3>1. n + 1 <= new.item.dot
      BY <1>1
    <3> HIDE DEF n
    <3> QED  BY <1>1, <1>5, <3>1, EndOfNext
  <2>2. EndOf(new, n) = at
    BY <1>3, <1>6 DEF SpansTo
  <2>3. \A p \in Places(new.item, n + 1) : Placed(new, p)
    BY <1>1, <1>2, <1>3, <1>4, <1>6 DEF SpansTo, Placed
  <2>4. ASSUME NEW m \in 0..n + 1 PROVE EndOf(new, m) >= new.item.k + m
    <3>1. CASE m \in 0..n
      BY <1>1, <1>3, <1>6, <3>1 DEF SpansTo
    <3>2. CASE m = n + 1
      <4>1. at >= s.item.k + n
        BY <1>1, <1>3, <1>6, <2>2 DEF SpansTo
      <4> QED  BY <1>1, <2>1, <2>2, <3>2, <4>1
    <3> QED  BY <1>1, <3>1, <3>2
  <2> QED  BY <1>1, <2>1, <2>2, <2>3, <2>4 DEF SpansTo
<1> QED  BY <1>5, <1>6 DEF TreeOf

\* A completed state has the child in addition, which starts where the parent ends.
LEMMA TreeCompleted ==
  ASSUME NEW W, NEW parent \in State(W), NEW child \in State(W), NEW new \in State(W),
         NEW chain, NEW at \in Nat, at + 1 \in 1..Len(chain),
         Same(chain[at + 1].states, child.item) # {},
         Child(child), Shaped(child, at), Completes(parent, child),
         TreeOf(chain, parent, child.item.k),
         new.item = Advance(parent.item),
         new.kids = Append(parent.kids, [cell |-> at, item |-> child.item])
  PROVE  TreeOf(chain, new, at)
<1> DEFINE n == parent.item.dot
           ref == [cell |-> at, item |-> child.item]
           old == Len(parent.kids)
<1>1. /\ n \in Nat /\ parent.item.k \in Nat /\ parent.item.rhs[n + 1] \in Nonterminals
      /\ new.item.k = parent.item.k /\ new.item.lhs = parent.item.lhs
      /\ new.item.rhs = parent.item.rhs /\ new.item.dot = n + 1
      /\ child.item.k \in Nat /\ child.item \in Item
  BY StateTyped, AdvanceItem DEF Completes, After
<1>2. /\ old \in Nat /\ Len(new.kids) = old + 1 /\ new.kids[old + 1] = ref
      /\ \A i \in 1..old : new.kids[i] = parent.kids[i]
      /\ DOMAIN parent.kids = 1..old /\ DOMAIN new.kids = 1..old + 1
  <2>1. ref \in Kid /\ parent.kids \in Seq(Kid) /\ new.kids \in Seq(Kid)
    BY <1>1, StateTyped DEF Kid
  <2> HIDE DEF ref
  <2>2. new.kids = Append(parent.kids, ref)
    BY DEF ref
  <2> QED  BY <2>1, <2>2, AppendProperties, LenProperties
<1>3. \A m : Places(new.item, m) = Places(parent.item, m)
  BY <1>1 DEF Places
<1>4. Counted(parent) /\ Counted(new)
  <2>1. Counted(parent)
    BY DEF TreeOf, HasKids
  <2>2. Cardinality(Places(parent.item, n + 1)) = Cardinality(Places(parent.item, n)) + 1
    BY <1>1, PlacesNext
  <2> QED  BY <1>1, <1>2, <1>3, <2>1, <2>2 DEF Counted
<1>5. HasKids(chain, new)
  <2>1. Ruled(new.item)
    BY <1>1 DEF TreeOf, HasKids, Ruled
  <2>2. There(chain, ref)
    BY DEF There, Child, Finished
  <2>3. ASSUME NEW i \in 1..old + 1 PROVE There(chain, new.kids[i])
    <3>1. CASE i \in 1..old
      BY <1>2, <3>1 DEF TreeOf, HasKids
    <3>2. CASE i = old + 1
      BY <1>2, <2>2, <3>2
    <3> QED  BY <1>2, <3>1, <3>2
  <2> QED  BY <1>2, <1>4, <2>1, <2>3 DEF HasKids
<1>6. \A m \in 0..n : Places(parent.item, m) # {} => KidAt(new, m) = KidAt(parent, m)
  <2> TAKE m \in 0..n
  <2> HAVE Places(parent.item, m) # {}
  <2>1. Cardinality(Places(parent.item, m)) \in 1..old
    BY <1>4, KidTyped
  <2> QED  BY <1>2, <1>3, <2>1 DEF KidAt
<1>7. \A m \in 0..n : EndOf(new, m) = EndOf(parent, m)
  BY <1>1, <1>6, EndOfSame
<1>8. KidAt(new, n + 1) = ref
  <2>1. Cardinality(Places(parent.item, n + 1)) = old + 1
    BY <1>1, <1>3, <1>2, <1>4 DEF Counted
  <2> QED  BY <1>2, <1>3, <2>1 DEF KidAt
<1>9. EndOf(new, n + 1) = at
  <2>1. n + 1 <= new.item.dot
    BY <1>1
  <2> HIDE DEF n
  <2>2. EndOf(new, n + 1) = KidAt(new, n + 1).cell
    BY <1>1, <1>4, <2>1, EndOfNext
  <2> QED  BY <1>8, <2>2
<1>10. ASSUME SpansTo(parent, child.item.k) PROVE SpansTo(new, at)
  <2>1. EndOf(parent, n) = child.item.k /\ child.item.k >= parent.item.k + n
    <3>1. n \in 0..n
      BY <1>1
    <3> QED  BY <1>10, <3>1 DEF SpansTo
  <2>2. child.item.k < at
    BY ChildIsEarlier
  <2>3. ASSUME NEW p \in Places(new.item, n + 1) PROVE Placed(new, p)
    <3>1. p \in 1..n + 1 /\ new.item.rhs[p] \in Nonterminals
      BY DEF Places
    <3>2. CASE p \in 1..n
      <4>1. p \in Places(parent.item, n) /\ p \in Places(parent.item, p)
        BY <1>1, <3>1, <3>2 DEF Places
      <4>2. p \in 0..n /\ p - 1 \in 0..n
        BY <1>1, <3>2
      <4>3. Placed(parent, p)
        BY <1>10, <4>1 DEF SpansTo
      <4>4. KidAt(new, p) = KidAt(parent, p) /\ EndOf(new, p - 1) = EndOf(parent, p - 1)
        BY <1>6, <1>7, <4>1, <4>2
      <4> QED  BY <1>1, <4>3, <4>4 DEF Placed
    <3>3. CASE p = n + 1
      <4>1. EndOf(new, p - 1) = child.item.k
        <5>1. n \in Nat
          BY <1>1
        <5>2. p - 1 = n /\ n \in 0..n
          <6> HIDE DEF n
          <6> QED  BY <3>3, <5>1
        <5> QED  BY <1>7, <2>1, <5>2
      <4>2. Positive(Ru[parent.item.rhs[n + 1]][child.item.lhs])
        BY DEF Completes, After
      <4>3. KidAt(new, p).item = child.item
        BY <1>8, <3>3
      <4>4. new.item.rhs[p] = parent.item.rhs[n + 1]
        BY <1>1, <3>3
      <4> QED  BY <4>1, <4>2, <4>3, <4>4 DEF Placed
    <3>4. p \in 1..n \/ p = n + 1
      <4>1. n \in Nat
        BY <1>1
      <4> HIDE DEF n
      <4> QED  BY <3>1, <4>1
    <3> QED  BY <3>2, <3>3, <3>4
  <2>4. ASSUME NEW m \in 0..n + 1 PROVE EndOf(new, m) >= new.item.k + m
    <3>1. CASE m \in 0..n
      BY <1>1, <1>7, <1>10, <3>1 DEF SpansTo
    <3>2. CASE m = n + 1
      BY <1>1, <1>9, <2>1, <2>2, <3>2
    <3> QED  BY <1>1, <3>1, <3>2
  <2> QED  BY <1>1, <1>9, <2>3, <2>4 DEF SpansTo
<1> QED  BY <1>5, <1>10 DEF TreeOf

\* The three ways in which a state that is found again gets its children: kid is the
\* state of its last new child.
GetsKids(m, old, new, kid) ==
  LET under == {j \in DOMAIN old.kids : old.kids[j].item = Head(kid.kids).item}
  IN /\ m.item = old.item
     /\ \/ m.kids = old.kids \/ m.kids = new.kids
        \/ /\ IsUnit(kid) /\ under # {}
           /\ m.kids = [old.kids EXCEPT ![Min(under)] = Last(new.kids)]

LEMMA MergedKids ==
  ASSUME NEW W, NEW ss, NEW old \in State(W), NEW new \in State(W),
         NEW kid, kid = StateOf(ss, Last(new.kids).item)
  PROVE  GetsKids(Merge(ss, old, new), old, new, kid)
<1> DEFINE m == Merge(ss, old, new)
           sum == [old EXCEPT !.alpha = Plus(@, new.alpha), !.gamma = Plus(@, new.gamma)]
           under == {j \in DOMAIN old.kids : old.kids[j].item = Head(kid.kids).item}
<1>1. CASE IsUnit(kid) /\ under # {}
  <2>1. m = [sum EXCEPT !.kids[Min(under)] = Last(new.kids)]
    BY <1>1 DEF Merge
  <2> HIDE DEF under, m, GetsKids
  <2>2. m.item = old.item /\ m.kids = [old.kids EXCEPT ![Min(under)] = Last(new.kids)]
    BY <2>1 DEF State
  <2> QED  BY <1>1, <2>2 DEF under, m, GetsKids
<1>2. CASE ~(IsUnit(kid) /\ under # {}) /\ Less(old.v, new.v)
  <2>1. m = [sum EXCEPT !.v = new.v, !.kids = new.kids]
    BY <1>2 DEF Merge
  <2> HIDE DEF m
  <2>2. m.item = old.item /\ m.kids = new.kids
    BY <2>1 DEF State
  <2> QED  BY <2>2 DEF m, GetsKids
<1>3. CASE ~(IsUnit(kid) /\ under # {}) /\ ~Less(old.v, new.v)
  <2>1. m = sum
    BY <1>3 DEF Merge
  <2> HIDE DEF m
  <2>2. m.item = old.item /\ m.kids = old.kids
    BY <2>1 DEF State
  <2> QED  BY <2>2 DEF m, GetsKids
<1> QED  BY <1>1, <1>2, <1>3

\* The child for the symbol before the dot is the last one.
LEMMA LastKid ==
  ASSUME NEW W, NEW s \in State(W), NEW chain, HasKids(chain, s), EndsWithNonterminal(s.item)
  PROVE  /\ s.item.dot \in Nat \ {0} /\ s.item.dot \in Places(s.item, s.item.dot)
         /\ Len(s.kids) \in Nat \ {0} /\ DOMAIN s.kids = 1..Len(s.kids)
         /\ KidAt(s, s.item.dot) = Last(s.kids) /\ Last(s.kids) = s.kids[Len(s.kids)]
         /\ There(chain, Last(s.kids)) /\ Last(s.kids) \in Kid
<1>1. s.item.dot \in Nat \ {0} /\ s.item.dot \in Places(s.item, s.item.dot)
  BY StateTyped DEF EndsWithNonterminal, SymbolBefore, Places
<1>2. Cardinality(Places(s.item, s.item.dot)) \in Nat \ {0}
  BY <1>1, PlacesFinite
<1>3. Len(s.kids) = Cardinality(Places(s.item, s.item.dot)) /\ s.kids \in Seq(Kid)
  BY StateTyped DEF HasKids, Counted
<1>4. Last(s.kids) = s.kids[Len(s.kids)] /\ DOMAIN s.kids = 1..Len(s.kids)
  BY <1>3, LenProperties DEF Last
<1>5. Len(s.kids) \in DOMAIN s.kids
  BY <1>2, <1>3, <1>4
<1>6. There(chain, Last(s.kids)) /\ Last(s.kids) \in Kid
  BY <1>3, <1>4, <1>5, ElementOfSeq DEF HasKids
<1> QED  BY <1>1, <1>2, <1>3, <1>4, <1>6 DEF KidAt

\* A unit state's only child starts where it does.
LEMMA UnitKid ==
  ASSUME NEW W, NEW s \in State(W), NEW chain, HasKids(chain, s), NEW at, SpansTo(s, at),
         IsUnit(s), Finished(s)
  PROVE  /\ Head(s.kids).item.k = s.item.k
         /\ Positive(Ru[s.item.rhs[1]][Head(s.kids).item.lhs])
<1>1. s.item.dot = 1 /\ Len(s.item.rhs) = 1 /\ s.item.rhs[1] \in Nonterminals
  BY DEF IsUnit, Finished
<1>2. EndsWithNonterminal(s.item)
  BY <1>1 DEF EndsWithNonterminal, SymbolBefore
<1>3. Len(s.kids) = 1
  <2>1. Places(s.item, 1) = {1}
    BY <1>1 DEF Places
  <2> QED  BY <1>1, <2>1, FS_Singleton DEF HasKids, Counted
<1>4. 1 \in Places(s.item, 1) /\ KidAt(s, 1) = Head(s.kids)
  <2>1. 1 \in Places(s.item, 1) /\ KidAt(s, 1) = s.kids[1]
    BY <1>1, <1>2, <1>3, LastKid
  <2> QED  BY <2>1
<1>5. Placed(s, 1)
  BY <1>1, <1>4 DEF SpansTo
<1>6. EndOf(s, 0) = s.item.k
  <2>1. Places(s.item, 0) = {} /\ s.item.k \in Nat
    BY StateTyped DEF Places
  <2>2. EndOf(s, 0) = s.item.k + 0
    BY <2>1 DEF EndOf
  <2> QED  BY <2>1, <2>2
<1>7. 1 - 1 = 0
  OBVIOUS
<1> QED  BY <1>4, <1>5, <1>6, <1>7 DEF Placed

\* Where units are apart, the child under a unit state can only be the last one.
LEMMA UnderIsLast ==
  ASSUME UnitsApart, NEW W, NEW chain, NEW at,
         NEW old \in State(W), NEW new \in State(W), NEW child \in State(W),
         old.item = new.item, EndsWithNonterminal(old.item), old.item.dot <= Len(old.item.rhs),
         HasKids(chain, old), SpansTo(old, at), HasKids(chain, new), SpansTo(new, at),
         Last(new.kids).item = child.item,
         HasKids(chain, child), SpansTo(child, at), Child(child), IsUnit(child),
         NEW j \in 1..Len(old.kids), old.kids[j].item = Head(child.kids).item
  PROVE  j = Len(old.kids)
<1> DEFINE item == old.item
           q == item.dot
<1>1. /\ q \in Nat \ {0} /\ q \in Places(item, q) /\ Len(old.kids) \in Nat \ {0}
      /\ Counted(old) /\ item.k \in Nat /\ Len(item.rhs) \in Nat /\ q <= Len(item.rhs)
      /\ item.rhs[q] \in Nonterminals
  BY LastKid, StateTyped DEF HasKids, EndsWithNonterminal, SymbolBefore
<1> SUFFICES ASSUME j # Len(old.kids) PROVE FALSE
  OBVIOUS
<1>2. PICK p \in Places(item, q) :
        Cardinality(Places(item, p)) = j /\ KidAt(old, p) = old.kids[j]
  BY <1>1, KidHasPlace
<1>3. p \in 1..q /\ p < q /\ item.rhs[p] \in Nonterminals
  <2>1. p \in 1..q /\ item.rhs[p] \in Nonterminals
    BY DEF Places
  <2>2. p # q
    BY <1>1, <1>2 DEF Counted
  <2> QED  BY <1>1, <2>1, <2>2
<1>4. /\ old.kids[j].item.k = EndOf(old, p - 1)
      /\ Positive(Ru[item.rhs[p]][old.kids[j].item.lhs])
  BY <1>2 DEF SpansTo, Placed
<1>5. /\ old.kids[j].item.k = child.item.k
      /\ Positive(Ru[child.item.rhs[1]][old.kids[j].item.lhs])
  BY UnitKid DEF Child
<1>6. /\ child.item.k = EndOf(new, q - 1) /\ Positive(Ru[item.rhs[q]][child.item.lhs])
      /\ EndOf(new, q - 1) >= item.k + (q - 1)
  <2>1. KidAt(new, q) = Last(new.kids) /\ Placed(new, q)
    BY <1>1, LastKid DEF SpansTo
  <2>2. q - 1 \in 0..q
    BY <1>1
  <2> QED  BY <2>1, <2>2 DEF Placed, SpansTo
<1>7. Places(item, p - 1) # {}
  <2> SUFFICES ASSUME Places(item, p - 1) = {} PROVE FALSE
    OBVIOUS
  <2>1. EndOf(old, p - 1) = item.k + (p - 1)
    BY DEF EndOf
  <2>2. item.k + (p - 1) >= item.k + (q - 1)
    BY <1>4, <1>5, <1>6, <2>1
  <2> QED  BY <1>1, <1>3, <2>2
<1>8. PICK o \in Places(item, p - 1) : TRUE
  BY <1>7
<1>9. o \in 1..p - 1 /\ item.rhs[o] \in Nonterminals
  BY DEF Places
<1>10. PICK rule \in Range(Rules) : item.rhs = rule.rhs
  <2>1. CASE \E rule \in Range(Rules) : item.lhs = rule.lhs /\ item.rhs = rule.rhs
    BY <2>1
  <2>2. CASE item.rhs = <<Axiom, Empty>>
    <3>1. q = 2
      BY <1>1, <1>3, <2>2
    <3> QED  BY <1>1, <2>2, <3>1, Grammar
  <2> QED  BY <2>1, <2>2 DEF HasKids, Ruled
<1>11. PICK unit \in UnitRules : child.item.lhs = unit.lhs /\ child.item.rhs = unit.rhs
  BY DEF HasKids, Ruled, Child, UnitRules, IsUnit
<1>12. {o, p, q} \subseteq Places(rule, Len(rule.rhs)) /\ o < p
  BY <1>1, <1>3, <1>9, <1>10 DEF Places
<1>13. old.kids[j].item.lhs \in Nonterminals
  <2>1. old.kids \in Seq(Kid) /\ DOMAIN old.kids = 1..Len(old.kids)
    BY StateTyped, LenProperties
  <2>2. There(chain, old.kids[j])
    BY <2>1 DEF HasKids
  <2>3. old.kids[j] \in Kid
    BY <2>1, ElementOfSeq
  <2>4. old.kids[j].item \in Item
    BY <2>3 DEF Kid
  <2> QED  BY <2>2, <2>4 DEF There, Item
<1> HIDE DEF item, q
<1>14. ~(Positive(Ru[rule.rhs[p]][old.kids[j].item.lhs])
          /\ Positive(Ru[unit.rhs[1]][old.kids[j].item.lhs]))
  <2>1. Positive(Ru[rule.rhs[q]][unit.lhs])
    BY <1>6, <1>10, <1>11
  <2> QED  BY <1>3, <1>12, <1>13, <2>1 DEF UnitsApart
<1> QED  BY <1>4, <1>5, <1>10, <1>11, <1>14

\* A state that is found again has the children of the one or of the other, or a unit state
\* in the place of the child that is under it.
LEMMA TreeMerged ==
  ASSUME NEW W, NEW V, NEW chain, NEW at \in Nat, NEW ss,
         NEW old \in State(W), NEW new \in State(W), NEW child \in State(W),
         Merge(ss, old, new) \in State(V),
         old.item = new.item, EndsWithNonterminal(old.item), old.item.dot <= Len(old.item.rhs),
         TreeOf(chain, old, at), TreeOf(chain, new, at), TreeOf(chain, child, at),
         Last(new.kids) = [cell |-> at, item |-> child.item],
         Child(child), StateOf(ss, child.item) = child
  PROVE  TreeOf(chain, Merge(ss, old, new), at)
<1> DEFINE m == Merge(ss, old, new)
           ref == Last(new.kids)
           under == {j \in DOMAIN old.kids : old.kids[j].item = Head(child.kids).item}
           i == Min(under)
           q == old.item.dot
<1>1. /\ m.item = old.item
      /\ \/ m.kids = old.kids \/ m.kids = new.kids
         \/ /\ IsUnit(child) /\ under # {}
            /\ m.kids = [old.kids EXCEPT ![i] = ref]
  <2>1. ref.item = child.item
    OBVIOUS
  <2>2. child = StateOf(ss, ref.item)
    BY <2>1
  <2>3. GetsKids(m, old, new, child)
    BY <2>2, MergedKids
  <2> HIDE DEF m
  <2> QED  BY <2>3 DEF GetsKids
<1>2. m \in State(V)
  OBVIOUS
<1> HIDE DEF m, i
<1>3. CASE m.kids = old.kids
  BY <1>1, <1>3, SameTree DEF m
<1>4. CASE m.kids = new.kids
  BY <1>1, <1>4, SameTree DEF m
<1>5. CASE /\ IsUnit(child) /\ under # {}
           /\ m.kids = [old.kids EXCEPT ![i] = ref]
  <2>1. /\ HasKids(chain, old) /\ HasKids(chain, new) /\ HasKids(chain, child)
        /\ Counted(old) /\ Ruled(old.item)
    BY DEF TreeOf, HasKids
  <2>2. /\ q \in Nat \ {0} /\ q \in Places(old.item, q)
        /\ Len(old.kids) \in Nat \ {0} /\ DOMAIN old.kids = 1..Len(old.kids)
        /\ There(chain, ref) /\ ref \in Kid
        /\ KidAt(old, q) = old.kids[Len(old.kids)]
        /\ KidAt(new, q) = ref
    BY <2>1, LastKid
  <2>3. i \in under
    <3>1. under \subseteq Nat
      BY <2>2
    <3> HIDE DEF under
    <3> QED  BY <1>5, <3>1, MinIsLeast DEF i
  <2>4. i \in 1..Len(old.kids) /\ old.kids[i].item = Head(child.kids).item
    BY <2>2, <2>3
  <2>5. /\ Len(m.kids) = Len(old.kids) /\ DOMAIN m.kids = 1..Len(old.kids)
        /\ \A j \in 1..Len(old.kids) : m.kids[j] = IF j = i THEN ref ELSE old.kids[j]
    <3>1. old.kids \in Seq(Kid)
      BY StateTyped
    <3> HIDE DEF ref
    <3> QED  BY <1>5, <2>2, <2>4, <3>1, ExceptSeq
  <2> HIDE DEF ref, under
  <2>6. HasKids(chain, m) /\ Counted(m)
    <3>1. Counted(m) /\ Ruled(m.item)
      BY <1>1, <2>1, <2>5 DEF Counted
    <3>2. \A j \in DOMAIN m.kids : There(chain, m.kids[j])
      BY <2>1, <2>2, <2>5 DEF HasKids
    <3> QED  BY <3>1, <3>2 DEF HasKids
  <2>7. ASSUME UnitsApart PROVE SpansTo(m, at)
    <3>1. SpansTo(old, at) /\ SpansTo(new, at) /\ SpansTo(child, at)
      BY <2>7 DEF TreeOf
    <3>2. i = Len(old.kids)
      <4>1. Last(new.kids).item = child.item
        OBVIOUS
      <4> QED  BY <1>5, <2>1, <2>4, <2>7, <3>1, <4>1, UnderIsLast
    <3>3. /\ Head(child.kids).item.k = child.item.k
          /\ ref.cell = at /\ ref.item = child.item
      BY <1>5, <2>1, <3>1, UnitKid DEF Child, ref
    <3>4. \A n : Places(m.item, n) = Places(old.item, n)
      BY <1>1
    <3>5. KidAt(m, q) = ref
      BY <1>1, <2>1, <2>2, <2>5, <3>2 DEF KidAt, Counted
    <3>6. \A n \in 0..q - 1 : Places(old.item, n) # {} => KidAt(m, n) = KidAt(old, n)
      <4> TAKE n \in 0..q - 1
      <4> HAVE Places(old.item, n) # {}
      <4>1. n \in 0..q /\ n \in Nat /\ n < q
        BY <2>2
      <4>2. Cardinality(Places(old.item, n)) \in 1..Len(old.kids)
        BY <2>1, <4>1, KidTyped
      <4>3. Cardinality(Places(old.item, n)) < Len(old.kids)
        BY <2>1, <2>2, <4>1, PlacesRise DEF Counted, EndsWithNonterminal, SymbolBefore
      <4> QED  BY <1>1, <2>2, <2>5, <3>2, <4>2, <4>3 DEF KidAt
    <3>7. \A n \in 0..q - 1 : EndOf(m, n) = EndOf(old, n)
      BY <1>1, <3>6, EndOfSame
    <3>8. EndOf(m, q) = at
      <4>1. /\ q - 1 \in Nat /\ (q - 1) + 1 = q /\ q <= m.item.dot
            /\ m.item.rhs[q] \in Nonterminals
        BY <1>1, <2>2 DEF EndsWithNonterminal, SymbolBefore
      <4> HIDE DEF q
      <4>2. EndOf(m, q) = KidAt(m, q).cell
        BY <1>2, <2>6, <4>1, EndOfNext
      <4> QED  BY <3>3, <3>5, <4>2
    <3>9. ASSUME NEW p \in Places(m.item, q) PROVE Placed(m, p)
      <4>1. p \in 1..q /\ p \in Places(old.item, q) /\ old.item.rhs[p] \in Nonterminals
        BY <1>1 DEF Places
      <4>2. p - 1 \in 0..q - 1 /\ Placed(old, p)
        BY <2>2, <3>1, <4>1 DEF SpansTo
      <4>3. CASE p < q
        <5>1. p \in 0..q - 1 /\ p \in Places(old.item, p)
          BY <2>2, <4>1, <4>3 DEF Places
        <5>2. KidAt(m, p) = KidAt(old, p)
          BY <3>6, <5>1
        <5> QED  BY <1>1, <3>7, <4>2, <5>2 DEF Placed
      <4>4. CASE p = q
        <5>1. ref.item.k = EndOf(m, q - 1)
          BY <2>2, <2>4, <3>2, <3>3, <3>7, <4>2, <4>4 DEF Placed
        <5>2. Positive(Ru[old.item.rhs[q]][ref.item.lhs])
          BY <2>2, <3>1 DEF SpansTo, Placed
        <5> QED  BY <1>1, <3>5, <4>4, <5>1, <5>2 DEF Placed
      <4> QED  BY <2>2, <4>1, <4>3, <4>4
    <3>10. ASSUME NEW n \in 0..q PROVE EndOf(m, n) >= m.item.k + n
      <4>1. EndOf(old, n) >= old.item.k + n /\ EndOf(old, q) = at
        BY <3>1 DEF SpansTo
      <4>2. CASE n = q
        BY <1>1, <3>8, <4>1, <4>2
      <4>3. CASE n # q
        <5>1. n \in 0..q - 1
          BY <2>2, <4>3
        <5> QED  BY <1>1, <3>7, <4>1, <5>1
      <4> QED  BY <4>2, <4>3
    <3> QED  BY <1>1, <3>8, <3>9, <3>10 DEF SpansTo
  <2> QED  BY <2>6, <2>7 DEF TreeOf, m
<1> QED  BY <1>1, <1>3, <1>4, <1>5

-----------------------------------------------------------------------------
(* Every step keeps the children *)

LEMMA TreeInit == Init => TreeInv
<1> SUFFICES ASSUME Init PROVE TreeInv
  OBVIOUS
<1>1. /\ DOMAIN cells = {1} /\ DOMAIN cells[1].states = {1} /\ cells[1].states[1] = Root
      /\ DOMAIN fresh = {}
  BY DEF Init
<1>2. /\ Root.item.dot = 0 /\ Root.item.k = 0 /\ Root.kids = <<>>
      /\ Root.item.lhs = Empty /\ Root.item.rhs = <<Axiom, Empty>>
  BY DEF Root
<1>3. TreeOf(cells, Root, 0)
  <2>1. Places(Root.item, 0) = {} /\ Cardinality(Places(Root.item, 0)) = 0
    BY FS_EmptySet DEF Places
  <2>2. HasKids(cells, Root)
    BY <1>2, <2>1 DEF HasKids, Ruled, Counted
  <2>3. EndOf(Root, 0) = 0
    BY <1>2, <2>1 DEF EndOf
  <2>4. SpansTo(Root, 0)
    BY <1>2, <2>1, <2>3 DEF SpansTo
  <2> QED  BY <2>2, <2>4 DEF TreeOf
<1>4. 1 - 1 = 0
  OBVIOUS
<1> QED  BY <1>1, <1>3, <1>4 DEF TreeInv

\* The chain stays, and Scan's states do or go.
LEMMA TreeChainStays ==
  ASSUME TreeInv, UNCHANGED cells, fresh' = fresh \/ fresh' = <<>>
  PROVE  TreeInv'
BY DEF TreeInv

\* It is cut off behind one of its cells.
LEMMA TreeShrinks ==
  ASSUME IInv, TreeInv, pc # "scan", UNCHANGED fresh,
         NEW W, cells \in Seq(Cell(W)), cells' \in Seq(Cell(W)),
         NEW m \in 1..Len(cells), Len(cells') = m, \A c \in 1..m : cells'[c] = cells[c]
  PROVE  TreeInv'
<1>1. /\ Len(cells) \in Nat /\ DOMAIN cells = 1..Len(cells) /\ DOMAIN cells' = 1..m
      /\ DOMAIN fresh' = {}
  BY LenProperties DEF IInv, ScanInv
<1>2. ASSUME NEW c \in 1..m, NEW i \in DOMAIN cells'[c].states
      PROVE  TreeOf(cells', cells'[c].states[i], c - 1)
  <2> DEFINE s == cells[c].states[i]
  <2>1. c \in DOMAIN cells /\ cells'[c] = cells[c] /\ i \in DOMAIN cells[c].states
    BY <1>1
  <2>2. TreeOf(cells, s, c - 1)
    BY <2>1 DEF TreeInv
  <2>3. s \in State(W) /\ Shaped(s, c - 1)
    BY <1>1, <2>1, ChainFacts DEF IInv
  <2>4. ASSUME NEW j \in DOMAIN s.kids, s.kids[j].cell + 1 \in 1..Len(cells)
        PROVE  LET d == s.kids[j].cell + 1
               IN d \in 1..Len(cells') /\ Grown(cells[d].states, cells'[d].states)
    <3> DEFINE d == s.kids[j].cell + 1
    <3>1. s.kids[j].cell <= c - 1
      BY <2>3 DEF Shaped
    <3>2. s.kids[j] \in Kid
      <4>1. s.kids \in Seq(Kid)
        BY <2>3, StateTyped
      <4> HIDE DEF s
      <4> QED  BY <4>1, LenProperties, ElementOfSeq
    <3>3. s.kids[j].cell \in Nat
      BY <3>2 DEF Kid
    <3>4. d \in 1..m
      BY <1>1, <3>1, <3>3
    <3> HIDE DEF d
    <3>5. cells'[d] = cells[d] /\ d \in 1..Len(cells')
      BY <3>4
    <3>6. Grown(cells[d].states, cells'[d].states)
      BY <3>5, GrownSelf
    <3> QED  BY <3>5, <3>6 DEF d
  <2> HIDE DEF s
  <2>5. TreeOf(cells', s, c - 1)
    BY <2>2, <2>4, TreeStays
  <2> QED  BY <2>1, <2>5 DEF s
<1> QED  BY <1>1, <1>2 DEF TreeInv

LEMMA TreeBacktrack ==
  ASSUME IInv, TreeInv, pc = "read", cells' = Front(cells), UNCHANGED fresh
  PROVE  TreeInv'
<1>1. PICK W : cells \in Seq(Cell(W))
  BY DEF IInv, Typed
<1>2. Len(cells) > 1 /\ Len(cells) \in Nat
  BY <1>1, LenProperties DEF IInv, Control
<1> DEFINE m == Len(cells) - 1
<1>3. /\ m \in 1..Len(cells) /\ Len(cells') = m /\ cells' \in Seq(Cell(W))
      /\ \A c \in 1..m : cells'[c] = cells[c]
  BY <1>1, <1>2, FrontOfChain
<1> HIDE DEF m
<1> QED  BY <1>1, <1>3, TreeShrinks

LEMMA TreeReset ==
  ASSUME IInv, TreeInv, Reset
  PROVE  TreeInv'
<1>1. PICK W : cells \in Seq(Cell(W))
  BY DEF IInv, Typed
<1>2. Len(cells) \in Nat /\ 1 \in 1..Len(cells) /\ cells # <<>>
  BY <1>1, LenProperties DEF IInv, ChainInv
<1>3. cells' = <<cells[1]>> /\ cells[1] \in Cell(W)
  <2>1. Head(cells) = cells[1]
    BY <1>1, <1>2
  <2> QED  BY <1>1, <1>2, <2>1, ElementOfSeq DEF Reset
<1>4. Len(cells') = 1 /\ cells' \in Seq(Cell(W)) /\ cells'[1] = cells[1]
  BY <1>3
<1>5. \A c \in 1..1 : cells'[c] = cells[c]
  BY <1>4
<1>6. pc # "scan" /\ UNCHANGED fresh
  BY DEF Reset
<1> QED  BY <1>1, <1>2, <1>4, <1>5, <1>6, TreeShrinks

\* Scan copies a state before the token.
LEMMA TreeScanState ==
  ASSUME IInv, TreeInv, ScanState
  PROVE  TreeInv'
<1>0. x <= Len(line) /\ UNCHANGED cells
  BY DEF ScanState
<1>1. PICK W : cells \in Seq(Cell(W)) /\ fresh \in Seq(State(W))
  BY DEF IInv, Typed
<1>2. /\ Len(cells) \in Nat \ {0} /\ Here = cells[Len(cells)]
      /\ DOMAIN Here.states = 1..Len(Here.states) /\ Len(Here.states) \in Nat
      /\ \A i \in DOMAIN Here.states :
           Here.states[i] \in State(W) /\ Shaped(Here.states[i], Len(cells) - 1)
      /\ x \in Nat \ {0} /\ y \in Nat \ {0}
  BY <1>1, ScanFacts
<1>3. PICK i \in First(Scannable) :
        \/ fresh' = Append(fresh, Scanned(Here.states[i], line[x]))
        \/ fresh' = <<>>
  BY DEF ScanState
<1> DEFINE s == Here.states[i]
           new == Scanned(s, line[x])
           V == W \cup {new.alpha, new.gamma, new.v}
           n == Len(cells)
<1>4. /\ i \in DOMAIN Here.states /\ ~Finished(s) /\ After(s) = line[x].name
      /\ s \in State(W) /\ Shaped(s, n - 1)
  BY <1>2, <1>3 DEF First, Scannable
<1>5. /\ line[x].name \in Symbols \ Nonterminals
      /\ line[x].low \in Int /\ line[x].high \in Int
  BY <1>0, <1>2 DEF IInv, LineOK
<1>6. TreeOf(cells, s, n - 1)
  <2>1. n \in DOMAIN cells
    BY <1>1, <1>2, LenProperties
  <2> QED  BY <1>2, <1>4, <2>1 DEF TreeInv
<1>7. /\ new \in State(V) /\ new.item = Advance(s.item) /\ new.kids = s.kids
  <2> DEFINE tok == line[x]
             at == n - 1
  <2>1. at \in Nat /\ Shaped(s, at)
    BY <1>2, <1>4
  <2>2. tok.low \in Int /\ tok.high \in Int /\ After(s) = tok.name
        /\ tok.name \notin Nonterminals /\ ~Finished(s) /\ s \in State(W)
    BY <1>4, <1>5
  <2> HIDE DEF tok, s, at
  <2>3. LET made == Scanned(s, tok) IN
        /\ made \in State(W \cup {made.alpha, made.gamma, made.v})
        /\ made.item = Advance(s.item) /\ made.label = "scanned" /\ Shaped(made, at + 1)
    BY <2>1, <2>2, NewScanned
  <2>4. Scanned(s, tok).kids = s.kids
    BY <2>2 DEF Scanned, State
  <2> QED  BY <2>3, <2>4 DEF tok
<1>8. W \subseteq V
  OBVIOUS
<1> HIDE DEF V, new
<1>9. TreeOf(cells, new, n)
  <2> DEFINE at == n - 1
  <2>1. at \in Nat /\ at + 1 = n /\ TreeOf(cells, s, at)
    BY <1>2, <1>6
  <2>2. s \in State(V) /\ After(s) \notin Nonterminals
    BY <1>4, <1>5, <1>8, StatesGrow
  <2> HIDE DEF at, n, s
  <2>3. TreeOf(cells, new, at + 1)
    BY <1>7, <2>1, <2>2, TreeScanned
  <2> QED  BY <2>1, <2>3
<1>10. CASE fresh' = <<>>
  BY <1>0, <1>10, TreeChainStays
<1>11. CASE fresh' = Append(fresh, new)
  <2>1. fresh \in Seq(State(V))
    BY <1>1, <1>8, StatesGrow
  <2>2. /\ fresh' \in Seq(State(V)) /\ Len(fresh') = Len(fresh) + 1
        /\ \A f \in 1..Len(fresh) : fresh'[f] = fresh[f]
        /\ fresh'[Len(fresh) + 1] = new
    BY <1>7, <1>11, <2>1, AppendProperties
  <2>3. /\ DOMAIN fresh' = 1..Len(fresh) + 1 /\ DOMAIN fresh = 1..Len(fresh)
        /\ Len(fresh) \in Nat
    BY <1>1, <2>2, LenProperties
  <2>4. ASSUME NEW f \in DOMAIN fresh' PROVE TreeOf(cells, fresh'[f], n)
    <3>1. CASE f \in 1..Len(fresh)
      BY <2>2, <2>3, <3>1 DEF TreeInv
    <3>2. CASE f = Len(fresh) + 1
      BY <1>9, <2>2, <3>2
    <3> QED  BY <2>3, <3>1, <3>2
  <2> QED  BY <1>0, <2>4 DEF TreeInv
<1> QED  BY <1>3, <1>10, <1>11 DEF new

\* The cells behind what was there before
LEMMA TreeLinkCell ==
  ASSUME IInv, TreeInv, LinkCell
  PROVE  TreeInv'
<1>1. PICK W : cells \in Seq(Cell(W)) /\ fresh \in Seq(State(W))
  BY DEF IInv, Typed
<1> DEFINE n == Len(cells)
           made == [states |-> fresh, high |-> HighMark]
<1>2. cells' = Append(cells, made) /\ fresh' = <<>> /\ made.states = fresh
  BY DEF LinkCell
<1>3. made \in Cell(W)
  BY <1>1, HighMarkIsInt DEF IInv, Cell
<1> HIDE DEF made
<1>4. /\ Len(cells') = n + 1 /\ n \in Nat
      /\ \A c \in 1..n : cells'[c] = cells[c]
      /\ cells'[n + 1] = made
      /\ DOMAIN cells' = 1..n + 1 /\ DOMAIN cells = 1..n
  <2>1. /\ cells' \in Seq(Cell(W)) /\ Len(cells') = n + 1
        /\ \A c \in 1..n : cells'[c] = cells[c]
        /\ cells'[n + 1] = made
    BY <1>1, <1>2, <1>3, AppendProperties
  <2> QED  BY <1>1, <2>1, LenProperties
<1>5. ASSUME NEW s, NEW at, TreeOf(cells, s, at) PROVE TreeOf(cells', s, at)
  <2>1. \A c \in 1..Len(cells) : c \in 1..Len(cells')
                                   /\ Grown(cells[c].states, cells'[c].states)
    BY <1>4, GrownSelf
  <2> QED  BY <1>5, <2>1, TreeStays
<1>6. ASSUME NEW c \in 1..n + 1, NEW i \in DOMAIN cells'[c].states
      PROVE  TreeOf(cells', cells'[c].states[i], c - 1)
  <2>1. CASE c \in 1..n
    BY <1>4, <1>5, <2>1 DEF TreeInv
  <2>2. CASE c = n + 1
    <3>1. cells'[c].states = fresh /\ c - 1 = n
      BY <1>2, <1>4, <2>2
    <3>2. TreeOf(cells, fresh[i], n)
      BY <3>1 DEF TreeInv
    <3> QED  BY <1>5, <3>1, <3>2
  <2> QED  BY <1>4, <2>1, <2>2
<1> QED  BY <1>2, <1>4, <1>6 DEF TreeInv

\* The last cell grows: what has its children goes on having them.
LEMMA TreesGrow ==
  ASSUME Len(cells) \in Nat \ {0}, Len(cells') = Len(cells),
         \A d \in 1..Len(cells) - 1 : cells'[d] = cells[d],
         Grown(cells[Len(cells)].states, cells'[Len(cells)].states),
         NEW s, NEW at, TreeOf(cells, s, at)
  PROVE  TreeOf(cells', s, at)
<1>1. ASSUME NEW d \in 1..Len(cells)
      PROVE  d \in 1..Len(cells') /\ Grown(cells[d].states, cells'[d].states)
  <2>1. CASE d \in 1..Len(cells) - 1
    BY <2>1, GrownSelf
  <2>2. CASE d = Len(cells)
    BY <2>2
  <2> QED  BY <2>1, <2>2
<1> QED  BY <1>1, TreeStays

LEMMA TreeLastCell ==
  ASSUME TreeInv, fresh = <<>>, UNCHANGED fresh,
         Len(cells) \in Nat \ {0}, Len(cells') = Len(cells),
         DOMAIN cells = 1..Len(cells), DOMAIN cells' = 1..Len(cells),
         \A d \in 1..Len(cells) - 1 : cells'[d] = cells[d],
         Grown(cells[Len(cells)].states, cells'[Len(cells)].states),
         \A i \in DOMAIN cells'[Len(cells)].states :
           TreeOf(cells', cells'[Len(cells)].states[i], Len(cells) - 1)
  PROVE  TreeInv'
<1>1. ASSUME NEW c \in 1..Len(cells), NEW i \in DOMAIN cells'[c].states
      PROVE  TreeOf(cells', cells'[c].states[i], c - 1)
  <2>1. CASE c \in 1..Len(cells) - 1
    <3>1. TreeOf(cells, cells'[c].states[i], c - 1)
      BY <2>1 DEF TreeInv
    <3> QED  BY <3>1, TreesGrow
  <2>2. CASE c = Len(cells)
    <3>1. i \in DOMAIN cells'[Len(cells)].states
      BY <2>2
    <3>2. TreeOf(cells', cells'[Len(cells)].states[i], Len(cells) - 1)
      BY <3>1
    <3> QED  BY <2>2, <3>2
  <2>3. c \in 1..Len(cells) - 1 \/ c = Len(cells)
    <3> DEFINE n == Len(cells)
    <3>1. n \in Nat /\ c \in 1..n
      OBVIOUS
    <3> HIDE DEF n
    <3>2. c \in 1..n - 1 \/ c = n
      BY <3>1
    <3> QED  BY <3>2 DEF n
  <2> QED  BY <2>1, <2>2, <2>3
<1>2. DOMAIN fresh' = {}
  OBVIOUS
<1> QED  BY <1>1, <1>2 DEF TreeInv

\* A turn of Complete adds a state with one child more, or merges one.
LEMMA TreeCompleteParent ==
  ASSUME IInv, TreeInv, CompleteParent
  PROVE  TreeInv'
<1>0. pc = "complete" /\ CanComplete /\ UNCHANGED fresh /\ fresh = <<>>
  BY DEF CompleteParent, IInv, ScanInv
<1>1. PICK W : cells \in Seq(Cell(W))
  BY DEF IInv, Typed
<1> DEFINE n == Len(cells)
           ss == cells[n].states
           child == ss[x]
           from == cells[child.item.k + 1].states
           rr == cells'[n].states
           at == n - 1
           ref == [cell |-> at, item |-> child.item]
<1>2. /\ n \in Nat \ {0} /\ n \in 1..n /\ DOMAIN cells = 1..n /\ CellInv(cells, n)
      /\ DOMAIN ss = 1..Len(ss)
      /\ \A i \in 1..Len(ss) : ss[i] \in State(W) /\ Shaped(ss[i], at)
  <2>1. n \in Nat \ {0} /\ DOMAIN cells = 1..n
    BY <1>1, ChainFacts DEF IInv
  <2>2. n \in 1..n
    BY <2>1
  <2> HIDE DEF n
  <2> QED  BY <1>1, <2>1, <2>2, ChainFacts DEF IInv, n
<1>3. /\ x \in DOMAIN ss /\ Child(child) /\ child \in State(W) /\ Shaped(child, at)
      /\ child.item.k + 1 \in 1..n - 1 /\ child.item.k \in Nat
      /\ DOMAIN from = 1..Len(from)
      /\ \A j \in 1..Len(from) : from[j] \in State(W)
  <2>1. /\ x \in 1..Len(ss) /\ Child(child) /\ child \in State(W) /\ Shaped(child, n - 1)
        /\ child.item.k + 1 \in 1..n - 1 /\ DOMAIN from = 1..Len(from)
        /\ \A j \in 1..Len(from) : from[j] \in State(W)
    BY <1>0, <1>1, AtChild
  <2>2. child.item.k \in Nat
    BY <2>1, StateTyped
  <2> QED  BY <1>2, <2>1, <2>2
<1>4. PICK j, new : TurnAdds(W, j, new)
  BY <1>0, <1>1, CompleteParentAdds
<1>5. /\ j \in 1..Len(from) /\ Completes(from[j], child)
      /\ new.item = Advance(from[j].item) /\ EndsWithNonterminal(new.item)
      /\ Shaped(new, at) /\ Last(new.kids) = ref /\ new.kids = Append(from[j].kids, ref)
      /\ Grown(ss, rr)
      /\ \A i \in DOMAIN rr :
           \/ rr[i] = new
           \/ \E m \in DOMAIN ss : rr[i] = ss[m]
           \/ \E m \in DOMAIN ss : ss[m].item = new.item /\ rr[i] = Merge(ss, ss[m], new)
      /\ Len(cells') = n /\ \A d \in 1..n - 1 : cells'[d] = cells[d]
  BY <1>4 DEF TurnAdds
<1>6. PICK V : /\ W \subseteq V /\ cells' \in Seq(Cell(V)) /\ rr \in Seq(State(V))
               /\ new \in State(V)
  BY <1>4 DEF TurnAdds
<1>7. State(W) \subseteq State(V)
  BY <1>6, StatesGrow
<1>8. DOMAIN cells' = 1..n /\ DOMAIN rr = 1..Len(rr) /\ \A i \in 1..Len(rr) : rr[i] \in State(V)
  <2>1. DOMAIN cells' = 1..n
    BY <1>5, <1>6, LenProperties
  <2> HIDE DEF rr
  <2> QED  BY <1>6, <2>1, LenProperties, ElementOfSeq
<1>9. StateOf(ss, child.item) = child
  <2>1. Distinct(ss)
    BY <1>2 DEF CellInv
  <2>2. x \in Int
    BY DEF IInv, Control
  <2> HIDE DEF ss
  <2> QED  BY <1>3, <2>1, <2>2, StateFound
<1>10. ASSUME NEW s, NEW to, TreeOf(cells, s, to) PROVE TreeOf(cells', s, to)
  BY <1>2, <1>5, <1>10, TreesGrow
<1>11. \A i \in DOMAIN ss : TreeOf(cells', ss[i], at)
  BY <1>2, <1>10 DEF TreeInv
<1>12. TreeOf(cells', from[j], child.item.k)
  <2>1. child.item.k + 1 \in DOMAIN cells /\ (child.item.k + 1) - 1 = child.item.k
    <3> HIDE DEF n, child
    <3> QED  BY <1>2, <1>3
  <2>2. j \in DOMAIN from
    BY <1>3, <1>5
  <2>3. TreeOf(cells, from[j], child.item.k)
    BY <2>1, <2>2 DEF TreeInv
  <2> QED  BY <1>10, <2>3
<1>13. Same(rr, child.item) # {}
  <2>1. PICK m \in DOMAIN rr : Like(rr[m], child)
    BY <1>3, <1>5 DEF Grown
  <2> QED  BY <2>1 DEF Same, Like
<1>14. at \in Nat /\ at + 1 = n /\ at + 1 \in 1..Len(cells')
  <2> HIDE DEF n, ss, rr, child, from
  <2> QED  BY <1>2, <1>5
<1>15. from[j] \in State(V) /\ child \in State(V)
  BY <1>3, <1>5, <1>7
<1>16. Same(cells'[at + 1].states, child.item) # {}
  BY <1>13, <1>14
<1> HIDE DEF n, ss, child, from, rr, at
<1>17. TreeOf(cells', new, at)
  BY <1>3, <1>5, <1>6, <1>12, <1>14, <1>15, <1>16, TreeCompleted
<1>18. ASSUME NEW i \in DOMAIN rr PROVE TreeOf(cells', rr[i], at)
  <2>1. CASE rr[i] = new
    BY <1>17, <2>1
  <2>2. CASE \E m \in DOMAIN ss : rr[i] = ss[m]
    BY <1>11, <2>2
  <2>3. ASSUME NEW m \in DOMAIN ss, ss[m].item = new.item, rr[i] = Merge(ss, ss[m], new)
        PROVE  TreeOf(cells', rr[i], at)
    <3> DEFINE old == ss[m]
    <3>1. old \in State(V) /\ TreeOf(cells', old, at) /\ Shaped(old, at)
      BY <1>2, <1>7, <1>11
    <3>2. old.item = new.item /\ EndsWithNonterminal(old.item)
          /\ old.item.dot <= Len(old.item.rhs)
      BY <1>5, <2>3, <3>1 DEF Shaped
    <3>3. Merge(ss, old, new) \in State(V)
      BY <1>8, <2>3
    <3>4. TreeOf(cells', child, at)
      BY <1>3, <1>11 DEF child
    <3> HIDE DEF old
    <3>5. TreeOf(cells', Merge(ss, old, new), at)
      BY <1>3, <1>5, <1>6, <1>9, <1>14, <1>15, <1>17, <3>1, <3>2, <3>3, <3>4, TreeMerged
    <3> QED  BY <2>3, <3>5 DEF old
  <2> QED  BY <1>5, <2>1, <2>2, <2>3
<1> QED  BY <1>0, <1>2, <1>5, <1>8, <1>18, TreeLastCell DEF n, ss, rr, at

\* A predicted state has no children, and needs none.
LEMMA TreePredictRule ==
  ASSUME IInv, TreeInv, PredictRule
  PROVE  TreeInv'
<1>0. UNCHANGED fresh /\ fresh = <<>>
  BY DEF PredictRule, IInv, ScanInv
<1>1. PICK W : cells \in Seq(Cell(W))
  BY DEF IInv, Typed
<1> DEFINE n == Len(cells)
           ss == cells[n].states
           rr == cells'[n].states
           at == n - 1
<1>2. n \in Nat \ {0} /\ n \in 1..n /\ DOMAIN cells = 1..n /\ at \in Nat
  BY <1>1, ChainFacts DEF IInv
<1>3. PICK r, new : TurnPredicts(W, r, new)
  BY <1>1, PredictRuleAdds
<1>4. /\ r \in DOMAIN Rules /\ new = Predicted(Here.states[x], Rules[r])
      /\ Grown(ss, rr)
      /\ \A j \in DOMAIN rr :
           rr[j] = new \/ \E i \in DOMAIN ss : Like(rr[j], ss[i]) /\ rr[j].kids = ss[i].kids
      /\ Len(cells') = n /\ \A d \in 1..n - 1 : cells'[d] = cells[d]
  BY <1>3 DEF TurnPredicts
<1>5. PICK V : cells' \in Seq(Cell(V))
  BY <1>3 DEF TurnPredicts
<1>6. DOMAIN cells' = 1..n
  BY <1>4, <1>5, LenProperties
<1>7. TreeOf(cells', new, at)
  <2>1. /\ new.item.dot = 0 /\ new.item.k = at /\ new.kids = <<>>
        /\ new.item.lhs = Rules[r].lhs /\ new.item.rhs = Rules[r].rhs
    BY <1>4 DEF Predicted
  <2>2. Places(new.item, 0) = {} /\ Cardinality(Places(new.item, 0)) = 0
    BY FS_EmptySet DEF Places
  <2>3. HasKids(cells', new)
    <3>1. Ruled(new.item)
      BY <1>4, <2>1 DEF Ruled, Range
    <3> QED  BY <2>1, <2>2, <3>1 DEF HasKids, Counted
  <2>4. EndOf(new, 0) = at
    BY <1>2, <2>1, <2>2 DEF EndOf
  <2>5. SpansTo(new, at)
    BY <1>2, <2>1, <2>2, <2>4 DEF SpansTo
  <2> QED  BY <2>3, <2>5 DEF TreeOf
<1>8. ASSUME NEW j \in DOMAIN rr PROVE TreeOf(cells', rr[j], at)
  <2>1. CASE rr[j] = new
    BY <1>7, <2>1
  <2>2. ASSUME NEW i \in DOMAIN ss, Like(rr[j], ss[i]), rr[j].kids = ss[i].kids
        PROVE  TreeOf(cells', rr[j], at)
    <3>1. TreeOf(cells, ss[i], at)
      BY <1>2 DEF TreeInv
    <3>2. TreeOf(cells', ss[i], at)
      BY <1>2, <1>4, <3>1, TreesGrow
    <3> QED  BY <2>2, <3>2, SameTree DEF Like
  <2> QED  BY <1>4, <2>1, <2>2
<1> QED  BY <1>0, <1>2, <1>4, <1>6, <1>8, TreeLastCell

LEMMA TreeNext == IInv /\ TreeInv /\ [Next]_vars => TreeInv'
<1> SUFFICES ASSUME IInv, TreeInv, [Next]_vars PROVE TreeInv'
  OBVIOUS
<1>1. ASSUME NEW obs \in Observations, Parse(obs) PROVE TreeInv'
  BY <1>1, TreeChainStays DEF Parse, ParseLine
<1>2. CASE GetCurrentMaxAlpha
  BY <1>2, TreeChainStays DEF GetCurrentMaxAlpha
<1>3. CASE GetPrediction
  BY <1>3, TreeChainStays DEF GetPrediction, ParseLine
<1>4. CASE GetViterbiParse
  BY <1>4, TreeChainStays DEF GetViterbiParse, ParseLine
<1>5. CASE Reset
  BY <1>5, TreeReset
<1>6. CASE ScanState
  BY <1>6, TreeScanState
<1>7. CASE ScanNextToken
  BY <1>7, TreeChainStays DEF ScanNextToken
<1>8. CASE LinkCell
  BY <1>8, TreeLinkCell
<1>9. CASE CompleteParent
  BY <1>9, TreeCompleteParent
<1>10. CASE CompleteNext
  BY <1>10, TreeChainStays DEF CompleteNext
<1>11. CASE CompleteDone
  BY <1>11, TreeChainStays DEF CompleteDone
<1>12. CASE PredictRule
  BY <1>12, TreePredictRule
<1>13. CASE PredictNext
  BY <1>13, TreeChainStays DEF PredictNext
<1>14. CASE PredictDone
  BY <1>14, TreeChainStays DEF PredictDone
<1>15. CASE ReadPrediction
  BY <1>15, TreeBacktrack DEF ReadPrediction
<1>16. CASE ReadViterbi
  BY <1>16, TreeBacktrack DEF ReadViterbi
<1>17. CASE Dead \/ UNCHANGED vars
  BY <1>17, TreeChainStays DEF Dead, vars
<1> QED  BY <1>1, <1>2, <1>3, <1>4, <1>5, <1>6, <1>7, <1>8, <1>9, <1>10, <1>11, <1>12, <1>13,
            <1>14, <1>15, <1>16, <1>17 DEF Next, Calls, Steps

LEMMA TreeInvariant == Spec => []TreeInv
BY Invariant, TreeInit, TreeNext, PTL DEF Spec

-----------------------------------------------------------------------------
(* What the runs check of the children *)

LEMMA InvChildrenAreThere == TreeInv => ChildrenAreThere
<1> SUFFICES ASSUME TreeInv, NEW c \in DOMAIN cells, NEW s \in Range(cells[c].states)
             PROVE  /\ Len(s.kids) = Cardinality(Places(s.item, s.item.dot))
                    /\ \A kid \in Range(s.kids) :
                         /\ Finished(kid) /\ kid.item.lhs # Empty
                         /\ Same(cells[kid.cell + 1].states, kid.item) # {}
  BY DEF ChildrenAreThere
<1>1. HasKids(cells, s)
  BY DEF TreeInv, TreeOf, Range
<1> QED  BY <1>1 DEF HasKids, Counted, There, Range

\* Whatever derivations SCell::AddState merges and wherever it puts a unit state, in every
\* grammar: ExpandState and ParseTreeFromState find one child for each nonterminal before
\* the dot, and each is a finished state that is in the cell it is looked for in.
THEOREM ChildrenExist == Spec => []ChildrenAreThere
BY TreeInvariant, InvChildrenAreThere, PTL

LEMMA InvChildrenSpan ==
  ASSUME UnitsApart
  PROVE  TreeInv => ChildrenSpan
<1> SUFFICES ASSUME TreeInv, NEW c \in DOMAIN cells, NEW s \in Range(cells[c].states)
             PROVE  /\ \A p \in Places(s.item, s.item.dot) :
                         /\ KidAt(s, p).item.k = EndOf(s, p - 1)
                         /\ Positive(Ru[s.item.rhs[p]][KidAt(s, p).item.lhs])
                    /\ EndOf(s, s.item.dot) = c - 1
  BY InvChildrenAreThere DEF ChildrenSpan
<1>1. SpansTo(s, c - 1)
  BY DEF TreeInv, TreeOf, Range
<1> QED  BY <1>1 DEF SpansTo, Placed

\* Where no child can be taken for that of another nonterminal's unit state, the children
\* of every state are a parse of the inputs that it spans: SCell::Complete and AddState
\* leave no gap and no overlap between them.
THEOREM ChildrenAreAParse ==
  ASSUME UnitsApart
  PROVE  Spec => []ChildrenSpan
<1>1. TreeInv => ChildrenSpan
  BY InvChildrenSpan
<1> QED  BY <1>1, TreeInvariant, PTL

LEMMA InvChildrenMatch ==
  ASSUME Unitless
  PROVE  IInv /\ TreeInv => ChildrenMatch
<1>1. UnitsApart
  BY DEF Unitless, UnitsApart
<1> SUFFICES ASSUME IInv, TreeInv, NEW c \in DOMAIN cells, NEW i \in DOMAIN cells[c].states
             PROVE  LET s == cells[c].states[i] IN
                    /\ Len(s.kids) = Cardinality(Places(s.item, s.item.dot))
                    /\ \A p \in Places(s.item, s.item.dot) :
                         KidAt(s, p).item.lhs = s.item.rhs[p]
  BY DEF ChildrenMatch, Range
<1> DEFINE s == cells[c].states[i]
<1>2. PICK W : s \in State(W)
  <2>1. PICK W : cells \in Seq(Cell(W))
    BY DEF IInv, Typed
  <2>2. s \in State(W)
    BY <2>1, ChainFacts DEF IInv
  <2> QED  BY <2>2
<1>3. HasKids(cells, s) /\ SpansTo(s, c - 1)
  BY <1>1 DEF TreeInv, TreeOf
<1> HIDE DEF s
<1>4. Counted(s) /\ s.kids \in Seq(Kid) /\ DOMAIN s.kids = 1..Len(s.kids) /\ s.item.dot \in Nat
  BY <1>2, <1>3, StateTyped, LenProperties DEF HasKids
<1>5. ASSUME NEW p \in Places(s.item, s.item.dot)
      PROVE  KidAt(s, p).item.lhs = s.item.rhs[p]
  <2>1. p \in 0..s.item.dot /\ p \in Places(s.item, p) /\ s.item.rhs[p] \in Nonterminals
    BY <1>4 DEF Places
  <2>2. Cardinality(Places(s.item, p)) \in DOMAIN s.kids /\ KidAt(s, p) \in Kid
    BY <1>2, <1>4, <2>1, KidTyped
  <2>3. There(cells, KidAt(s, p))
    BY <1>3, <2>2 DEF HasKids, KidAt
  <2>4. KidAt(s, p).item.lhs \in Nonterminals
    BY <2>2, <2>3 DEF There, Kid, Item
  <2> QED  BY <1>3, <2>1, <2>4 DEF SpansTo, Placed, Unitless
<1> QED  BY <1>4, <1>5 DEF s, Counted

\* Without unit rules they are also named by the rule: one of the very nonterminal for
\* each nonterminal before the dot.
THEOREM ChildrenAreNamed ==
  ASSUME Unitless
  PROVE  Spec => []ChildrenMatch
<1>1. IInv /\ TreeInv => ChildrenMatch
  BY InvChildrenMatch
<1> QED  BY <1>1, Invariant, TreeInvariant, PTL
=============================================================================
