------------------------------- MODULE Chart -------------------------------
(***************************************************************************)
(* The probabilistic Earley chart of an SParser: what Scan, Complete and   *)
(* Predict put into a cell, and what the queries read from it.  Weights    *)
(* are abstract: the code's doubles become the members of a semiring with  *)
(* exact arithmetic, V being kept as a product where the code adds logs.   *)
(*                                                                         *)
(* The chain of cells is a sequence here, which is what CellChain shows it *)
(* to be: cells[i + 1] is the cell whose I is i.  One step is one turn of  *)
(* an inner loop that adds a state; turns that find nothing to add are     *)
(* skipped.                                                                *)
(***************************************************************************)
EXTENDS Integers, SequencesExt

CONSTANTS
  Rules,        \* the rules [lhs, rhs, prob], in the order of N and of each
                \* production; every nonterminal has one (CheckGrammar)
  Terminals,    \* the names of T but "", in the order of std::string
  Axiom,
  Empty,        \* the name "": of the end of string, and of the root's LHS
  Skip,         \* the name "SKIP"
  Rl, Ru,       \* the left corner and unit closures of ComputeClosures
  Zero, One, Plus(_,_), Times(_,_), Ratio(_,_), Less(_,_),
  Observations, \* what a client hands to parse(PInput)
  MaxParse      \* bound: inputs parsed since the last reset

Nonterminals == {Rules[r].lhs : r \in DOMAIN Rules}
Symbols == Nonterminals \cup Range(Terminals) \cup {Empty}
Positive(w) == Less(Zero, w)

ASSUME GrammarAssumption ==
  /\ Len(Rules) \in Nat /\ DOMAIN Rules = 1..Len(Rules)
  /\ \A r \in DOMAIN Rules : Rules[r].rhs \in Seq(Symbols) \ {<<>>}
  /\ Axiom \in Nonterminals
  /\ Nonterminals \cap Range(Terminals) = {}
  /\ Empty \notin Nonterminals \cup Range(Terminals)
  /\ Terminals \in Seq(Range(Terminals))
  /\ \A i, j \in DOMAIN Terminals : Terminals[i] = Terminals[j] => i = j
ASSUME ObservationsAssumption ==
  \A obs \in Observations :
    /\ Len(obs) \in Nat /\ DOMAIN obs = 1..Len(obs)
    /\ \A i \in DOMAIN obs : obs[i].low \in Int /\ obs[i].high \in Int
ASSUME MaxParseAssumption == MaxParse \in Nat

VARIABLES
  cells,        \* the chain, from the head to currentCell_
  fresh,        \* the states of Scan's pCell
  pc,           \* where the running call is
  purpose,      \* the call that ParseLine or the constructor's Predict is for
  line,         \* ParseLine's argument
  x, y,         \* the loop variables: Scan's tok and i, Complete's i and j,
                \* Predict's i and (CIndex, j)
  upto,         \* Predict's stateCount
  input,        \* auxiliary: the lines parsed since the last reset
  answer        \* what the last call returned

call == <<purpose, line, x, y, upto>>
vars == <<cells, fresh, pc, call, input, answer>>

Here == Last(cells)

\* TokenSorter, of the tokens that may be in a Line: the n-th of some names
NamesInOrder == <<Empty>> \o Terminals
InOrder(names) ==
  LET places == {i \in DOMAIN NamesInOrder : NamesInOrder[i] \in names}
  IN [n \in 1..Cardinality(places) |->
        NamesInOrder[CHOOSE i \in places : Cardinality({j \in places : j <= i}) = n]]

\* The running call returns or dies; its variables go out of scope.
Leave(how) ==
  /\ pc' \in how /\ purpose' = "none" /\ line' = <<>>
  /\ x' = 1 /\ y' = 1 /\ upto' = 0

NoAnswer == [query |-> "none"]

-----------------------------------------------------------------------------
(* SState *)

Finished(s) == s.item.dot = Len(s.item.rhs)
After(s) == s.item.rhs[s.item.dot + 1]
IsUnit(s) == Len(s.item.rhs) = 1 /\ s.item.rhs[1] \in Nonterminals
Advance(item) == [item EXCEPT !.dot = @ + 1]

\* What sameKDotAndProd compares identifies a state within its cell.
Same(ss, item) == {i \in DOMAIN ss : ss[i].item = item}
First(S) == {i \in S : \A j \in S : i <= j}
StateOf(ss, item) == ss[Min(Same(ss, item))]

\* SCell::Init
Root == [item  |-> [k |-> 0, dot |-> 0, lhs |-> Empty, rhs |-> <<Axiom, Empty>>],
         label |-> "completed", alpha |-> One, gamma |-> One, v |-> One,
         low   |-> 0, high |-> 0, kids |-> <<>>]

\* SParser::Impl::Impl runs Predict on the head cell.
Init ==
  /\ cells = <<[states |-> <<Root>>, high |-> 0]>> /\ fresh = <<>>
  /\ pc = "predict" /\ purpose = "construct" /\ line = <<>>
  /\ x = 1 /\ y = 1 /\ upto = 1
  /\ input = <<>> /\ answer = NoAnswer

-----------------------------------------------------------------------------
(* SCell::AddState.  Scan adds no weights and fails on a duplicate; Predict *)
(* adds alphas and appends; Complete adds both and keeps the cell sorted.   *)

\* Two faulty ones: they do not look for the state, or forget to add its alpha.
AddPredictedAlways(ss, new) == Append(ss, new)
AddPredictedOnce(ss, new) ==
  IF Same(ss, new.item) = {} THEN Append(ss, new) ELSE ss

AddPredicted(ss, new) ==
  LET same == Same(ss, new.item) IN
  IF same = {} THEN Append(ss, new)
  ELSE [ss EXCEPT ![Min(same)].alpha = Plus(@, new.alpha)]

\* Faulty merges: the first derivation stays, the worst one does, the score changes
\* without the children, the children add up, or unit states are lost or put in front.
MergeFirst(ss, old, new) ==
  [old EXCEPT !.alpha = Plus(@, new.alpha), !.gamma = Plus(@, new.gamma)]
MergeWorst(ss, old, new) ==
  IF Less(new.v, old.v)
    THEN [MergeFirst(ss, old, new) EXCEPT !.v = new.v, !.kids = new.kids]
    ELSE MergeFirst(ss, old, new)
MergeScore(ss, old, new) ==
  [MergeFirst(ss, old, new) EXCEPT !.v = IF Less(@, new.v) THEN new.v ELSE @]
MergeAll(ss, old, new) ==
  [MergeScore(ss, old, new) EXCEPT !.kids = @ \o new.kids]
MergeNoUnits(ss, old, new) ==
  IF Less(old.v, new.v)
    THEN [MergeFirst(ss, old, new) EXCEPT !.v = new.v, !.kids = new.kids]
    ELSE MergeFirst(ss, old, new)
MergeInFront(ss, old, new) ==
  IF IsUnit(StateOf(ss, Last(new.kids).item))
    THEN [MergeFirst(ss, old, new) EXCEPT !.kids[1] = Last(new.kids)]
    ELSE MergeNoUnits(ss, old, new)

\* A state that was found again.  When its last child is a unit state the child
\* goes in between; otherwise the likelier derivation keeps the children.
Merge(ss, old, new) ==
  LET sum   == [old EXCEPT !.alpha = Plus(@, new.alpha),
                           !.gamma = Plus(@, new.gamma)]
      kid   == StateOf(ss, Last(new.kids).item)
      under == {j \in DOMAIN old.kids : old.kids[j].item = Head(kid.kids).item}
  IN IF IsUnit(kid) /\ under # {}
       THEN [sum EXCEPT !.kids[Min(under)] = Last(new.kids)]
     ELSE IF Less(old.v, new.v)
       THEN [sum EXCEPT !.v = new.v, !.kids = new.kids]
     ELSE sum

\* Faulty places: the end, the order turned round, the front.
PositionLast(ss, k) == Len(ss) + 1
PositionRising(ss, k) ==
  Min({Len(ss) + 1} \cup
      {i \in DOMAIN ss : ss[i].label = "completed" /\ ss[i].item.k > k})
PositionFront(ss, k) == 1

\* In front of the first completed state that starts earlier, or at the end.
Position(ss, k) ==
  Min({Len(ss) + 1} \cup
      {i \in DOMAIN ss : ss[i].label = "completed" /\ ss[i].item.k < k})

\* Faulty: without looking for the state.
AddCompletedAlways(ss, new) == InsertAt(ss, Position(ss, new.item.k), new)

AddCompleted(ss, new) ==
  LET same == Same(ss, new.item) IN
  IF same = {} THEN InsertAt(ss, Position(ss, new.item.k), new)
  ELSE [ss EXCEPT ![Min(same)] = Merge(ss, @, new)]

-----------------------------------------------------------------------------
(* SParser::parse *)

\* The Line that parse() builds: a set ordered by name that keeps the first
\* token of a name.
LineOf(obs) ==
  LET of(t) == {i \in DOMAIN obs : obs[i].name = t}
      named == InOrder({t \in Range(Terminals) \cup {Empty} : of(t) # {}})
  IN [i \in DOMAIN named |-> obs[Min(of(named[i]))]]

ParseLine(tokens, for) ==
  /\ pc' = "scan" /\ purpose' = for /\ line' = tokens
  /\ fresh' = <<>> /\ x' = 1 /\ y' = 1 /\ upto' = 0

Parse(obs) ==
  /\ pc = "idle" /\ Len(input) < MaxParse
  /\ IF \A i \in DOMAIN obs : obs[i].name \in Range(Terminals) \cup {Empty}
       THEN /\ ParseLine(LineOf(obs), "parse")
            /\ input' = Append(input, LineOf(obs))
            /\ UNCHANGED answer
       ELSE /\ answer' = [query |-> "parse", status |-> "ERR_NOTFOUND"]
            /\ UNCHANGED <<pc, call, fresh, input>>
  /\ UNCHANGED cells

-----------------------------------------------------------------------------
(* SCell::Scan *)

\* Faulty: without the probability of the token.
ScannedForSure(s, tok) ==
  [s EXCEPT !.item = Advance(@), !.label = "scanned", !.low = tok.low, !.high = tok.high]

Scanned(s, tok) ==
  [s EXCEPT !.item = Advance(@), !.label = "scanned",
            !.low = IF tok.low # 0 THEN tok.low ELSE @,
            !.high = IF tok.high # 0 THEN tok.high ELSE @,
            !.alpha = Times(@, tok.prob), !.gamma = Times(@, tok.prob),
            !.v = Times(@, tok.prob)]

\* The states still to be visited that have token x after the dot.
Scannable ==
  {i \in y..Len(Here.states) :
     LET s == Here.states[i] IN ~Finished(s) /\ After(s) = line[x].name}

\* The next of them is copied.  A duplicate makes Scan return NULL, which
\* ParseLine assigns to currentCell_: the parser is lost.
ScanState ==
  /\ pc = "scan" /\ x <= Len(line) /\ Positive(line[x].prob)
  /\ \E i \in First(Scannable) :
       LET new == Scanned(Here.states[i], line[x])
       IN IF Same(fresh, new.item) = {}
            THEN fresh' = Append(fresh, new) /\ y' = i + 1 /\ UNCHANGED pc
            ELSE fresh' = <<>> /\ pc' = "lost" /\ UNCHANGED y
  /\ UNCHANGED <<cells, purpose, line, x, upto, input, answer>>

ScanNextToken ==
  /\ pc = "scan" /\ x <= Len(line)
  /\ Positive(line[x].prob) => Scannable = {}
  /\ x' = x + 1 /\ y' = 1
  /\ UNCHANGED <<cells, fresh, pc, purpose, line, upto, input, answer>>

\* highMark_: that of the first token whose probability is positive, but "".
HighMark ==
  LET marked == {i \in DOMAIN line : Positive(line[i].prob) /\ line[i].name # Empty}
  IN IF marked = {} THEN 0 ELSE line[Min(marked)].high

\* The end of Scan: the new cell becomes the current one.
LinkCell ==
  /\ pc = "scan" /\ x > Len(line)
  /\ cells' = Append(cells, [states |-> fresh, high |-> HighMark])
  /\ fresh' = <<>>
  /\ pc' = "complete" /\ x' = 1 /\ y' = 1
  /\ UNCHANGED <<purpose, line, upto, input, answer>>

-----------------------------------------------------------------------------
(* SCell::Complete *)

\* Faulty: one more than the slack.
FilterLate(parent, child) ==
  /\ child.item.lhs # Skip /\ parent.item.lhs # Skip
  /\ parent.high - child.low > 12

\* SCell::Filter: the child starts too early to follow the parent.
Filter(parent, child) ==
  /\ child.item.lhs # Skip /\ parent.item.lhs # Skip
  /\ parent.high - child.low > 11

Completes(parent, child) ==
  /\ ~Finished(parent) /\ After(parent) \in Nonterminals
  /\ Positive(Ru[After(parent)][child.item.lhs])
  /\ ~Filter(parent, child)

\* Faulty: a unit state carries its probability on as well.
CompletedByUnits(parent, child, ref) ==
  LET by(w) == Times(w, Times(child.gamma, Ru[After(parent)][child.item.lhs]))
  IN [item  |-> Advance(parent.item), label |-> "completed",
      alpha |-> by(parent.alpha), gamma |-> by(parent.gamma),
      v     |-> Times(parent.v, Times(child.v, Ru[After(parent)][child.item.lhs])),
      low   |-> parent.low, high |-> child.high, kids |-> Append(parent.kids, ref)]

\* A unit state carries no probability on: what its child is worth reached the
\* parent through Ru already.
Completed(parent, child, ref) ==
  LET unit == Ru[After(parent)][child.item.lhs]
      by(w) == IF IsUnit(child) THEN Zero ELSE Times(w, Times(child.gamma, unit))
  IN [item  |-> Advance(parent.item), label |-> "completed",
      alpha |-> by(parent.alpha), gamma |-> by(parent.gamma),
      v     |-> Times(parent.v, Times(child.v, unit)),
      low   |-> IF parent.label = "predicted" THEN child.low ELSE parent.low,
      high  |-> child.high,
      kids  |-> Append(parent.kids, ref)]

CanComplete == /\ x <= Len(Here.states)
               /\ Finished(Here.states[x]) /\ Here.states[x].item.lhs # Empty

\* The parents still to be visited, in the cell where state x starts.
Parents ==
  LET from == cells[Here.states[x].item.k + 1].states
  IN {j \in y..Len(from) : Completes(from[j], Here.states[x])}

CompleteParent ==
  /\ pc = "complete" /\ CanComplete
  /\ \E j \in First(Parents) :
       LET child == Here.states[x]
           new == Completed(cells[child.item.k + 1].states[j], child,
                            [cell |-> Len(cells) - 1, item |-> child.item])
       IN /\ cells' = [cells EXCEPT ![Len(cells)].states = AddCompleted(@, new)]
          /\ y' = j + 1
  /\ UNCHANGED <<fresh, pc, purpose, line, x, upto, input, answer>>

\* Faulty: the cursor stays at a state that completes nothing.
CompleteNextStuck ==
  /\ pc = "complete" /\ x <= Len(Here.states)
  /\ CanComplete => Parents = {}
  /\ x' = (IF CanComplete THEN x + 1 ELSE x) /\ y' = 1
  /\ UNCHANGED <<cells, fresh, pc, purpose, line, upto, input, answer>>

\* The loop bound is read anew on every turn: the states it adds are visited.
CompleteNext ==
  /\ pc = "complete" /\ x <= Len(Here.states)
  /\ CanComplete => Parents = {}
  /\ x' = x + 1 /\ y' = 1
  /\ UNCHANGED <<cells, fresh, pc, purpose, line, upto, input, answer>>

\* Faulty: Predict runs past the end.
CompleteDoneTooFar ==
  /\ pc = "complete" /\ x > Len(Here.states)
  /\ pc' = "predict" /\ x' = 1 /\ y' = 1 /\ upto' = Len(Here.states) + 1
  /\ UNCHANGED <<cells, fresh, purpose, line, input, answer>>

CompleteDone ==
  /\ pc = "complete" /\ x > Len(Here.states)
  /\ pc' = "predict" /\ x' = 1 /\ y' = 1 /\ upto' = Len(Here.states)
  /\ UNCHANGED <<cells, fresh, purpose, line, input, answer>>

-----------------------------------------------------------------------------
(* SCell::Predict *)

Predicted(s, rule) ==
  [item  |-> [k |-> Len(cells) - 1, dot |-> 0, lhs |-> rule.lhs, rhs |-> rule.rhs],
   label |-> "predicted",
   alpha |-> Times(s.alpha, Times(Rl[After(s)][rule.lhs], rule.prob)),
   gamma |-> rule.prob, v |-> rule.prob,
   low   |-> Here.high, high |-> Here.high, kids |-> <<>>]

CanPredict == /\ x <= upto
              /\ ~Finished(Here.states[x]) /\ After(Here.states[x]) \in Nonterminals

\* Faulty: of the nonterminal itself only.
CornersDirect == {r \in y..Len(Rules) : Rules[r].lhs = After(Here.states[x])}

\* The rules still to be visited, of nonterminals in the left corner.
Corners == {r \in y..Len(Rules) :
              Positive(Rl[After(Here.states[x])][Rules[r].lhs])}

PredictRule ==
  /\ pc = "predict" /\ CanPredict
  /\ \E r \in First(Corners) :
       LET new == Predicted(Here.states[x], Rules[r])
       IN /\ cells' = [cells EXCEPT ![Len(cells)].states = AddPredicted(@, new)]
          /\ y' = r + 1
  /\ UNCHANGED <<fresh, pc, purpose, line, x, upto, input, answer>>

PredictNext ==
  /\ pc = "predict" /\ x <= upto
  /\ CanPredict => Corners = {}
  /\ x' = x + 1 /\ y' = 1
  /\ UNCHANGED <<cells, fresh, pc, purpose, line, upto, input, answer>>

\* ParseLine returns: to the query, which reads the cell, or to the client.
\* parse() ignores what ParseLine returns.
PredictDone ==
  /\ pc = "predict" /\ x > upto
  /\ IF purpose \in {"construct", "parse"} THEN Leave({"idle"})
     ELSE pc' = "read" /\ UNCHANGED call
  /\ answer' = IF purpose = "parse" THEN [query |-> "parse", status |-> "OK"]
               ELSE answer
  /\ UNCHANGED <<cells, fresh, input>>

-----------------------------------------------------------------------------
(* The queries.  backtrack() makes the cell before the lookahead current. *)

\* Impl::getMaxAlpha
MaxAlpha(ss) ==
  FoldLeft(LAMBDA best, s : IF ~Finished(s) /\ Less(best, s.alpha) THEN s.alpha ELSE best,
           Zero, ss)

GetCurrentMaxAlpha ==
  /\ pc = "idle"
  /\ answer' = [query |-> "maxAlpha", alpha |-> MaxAlpha(Here.states)]
  /\ UNCHANGED <<cells, fresh, pc, call, input>>

\* Impl::getPredictedLine
Mass(ss, t) ==
  FoldLeft(LAMBDA sum, s : IF ~Finished(s) /\ After(s) = t THEN Plus(sum, s.alpha) ELSE sum,
           Zero, ss)

TotalMass(ss) == FoldLeft(LAMBDA sum, t : Plus(sum, Mass(ss, t)), Zero, Terminals)

PredictedLine(ss) ==
  LET likely == InOrder({t \in Range(Terminals) : Positive(Mass(ss, t))})
  IN [i \in DOMAIN likely |->
        [name |-> likely[i], prob |-> Ratio(Mass(ss, likely[i]), TotalMass(ss)),
         low |-> 0, high |-> 0]]

GetPrediction ==
  /\ pc = "idle"
  /\ ParseLine(PredictedLine(Here.states), "prediction")
  /\ UNCHANGED <<cells, input, answer>>

\* Faulty: without backtrack().
ReadPredictionAndStay ==
  /\ pc = "read" /\ purpose = "prediction"
  /\ answer' = [query |-> "prediction", line |-> line, alpha |-> MaxAlpha(Here.states)]
  /\ Leave({"idle"})
  /\ UNCHANGED <<cells, fresh, input>>

\* Impl::getPredictedAlpha after its ParseLine, and the rest of getPrediction
ReadPrediction ==
  /\ pc = "read" /\ purpose = "prediction"
  /\ answer' = [query |-> "prediction", line |-> line, alpha |-> MaxAlpha(Here.states)]
  /\ cells' = Front(cells) /\ Leave({"idle"})
  /\ UNCHANGED <<fresh, input>>

\* SParser::getViterbiParse up to ParseFinal's ParseLine
GetViterbiParse ==
  /\ pc = "idle"
  /\ ParseLine(<<[name |-> Empty, prob |-> One, low |-> 0, high |-> 0]>>, "viterbi")
  /\ UNCHANGED <<cells, input, answer>>

\* The states GetMostLikelyFinalState looks at; only the root has no name.
Final == {s \in Range(Here.states) : s.item.lhs = Empty}

\* The answer's terminals and tree are what ExpandState and ParseTreeFromState
\* reach through kids.  ExpandState asks the root for the child of its ""
\* terminal, which it has not: it binds a reference to NULL and reads through
\* it, so the process may die.
ReadViterbi ==
  /\ pc = "read" /\ purpose = "viterbi"
  /\ cells' = Front(cells)
  /\ IF Final = {}
       THEN answer' = [query |-> "viterbi", kids |-> <<>>] /\ Leave({"idle"})
       ELSE \E s \in Final :
              /\ answer' = [query |-> "viterbi", v |-> s.v, gamma |-> s.gamma,
                            kids |-> s.kids]
              /\ Leave({"idle", "dead"})
  /\ UNCHANGED <<fresh, input>>

\* SParser::reset
Reset ==
  /\ pc = "idle"
  /\ cells' = <<Head(cells)>> /\ input' = <<>> /\ answer' = NoAnswer
  /\ UNCHANGED <<fresh, pc, call>>

Dead == pc = "dead" /\ UNCHANGED vars

-----------------------------------------------------------------------------
Calls == \/ \E obs \in Observations : Parse(obs)
         \/ GetCurrentMaxAlpha
         \/ GetPrediction
         \/ GetViterbiParse
         \/ Reset

Steps == \/ ScanState
         \/ ScanNextToken
         \/ LinkCell
         \/ CompleteParent
         \/ CompleteNext
         \/ CompleteDone
         \/ PredictRule
         \/ PredictNext
         \/ PredictDone
         \/ ReadPrediction
         \/ ReadViterbi

Next == Calls \/ Steps \/ Dead

Spec == Init /\ [][Next]_vars

\* A running call goes on running: nothing in the library waits.
FairSpec == Spec /\ WF_vars(Steps)
-----------------------------------------------------------------------------
(* Properties *)

Item == [k : Nat, dot : Nat, lhs : Nonterminals \cup {Empty}, rhs : Seq(Symbols)]
IsState(s, at) ==
  /\ s.item \in Item /\ s.item.k <= at /\ s.item.dot <= Len(s.item.rhs)
  /\ s.label \in {"scanned", "completed", "predicted"}
  /\ s.kids \in Seq([cell : 0..at, item : Item])

TypeOK ==
  /\ cells \in Seq([states : Seq(UNION {Range(c.states) : c \in Range(cells)}), high : Int])
  /\ cells # <<>>
  /\ \A c \in DOMAIN cells : \A s \in Range(cells[c].states) : IsState(s, c - 1)
  /\ \A s \in Range(fresh) : IsState(s, Len(cells))
  /\ pc \in {"idle", "scan", "complete", "predict", "read", "lost", "dead"}
  /\ purpose \in {"none", "construct", "parse", "prediction", "viterbi"}
  /\ \A i \in DOMAIN line : line[i].name \in Symbols \ Nonterminals
  /\ x \in Nat \ {0} /\ y \in Nat \ {0} /\ upto \in 0..Len(Here.states)
  /\ Len(input) <= MaxParse

\* A cell holds one state per item, so that all its weight is in one place, and
\* a pointer to a state may stand for its item (SCell::AddState).
Distinct(ss) == \A i, j \in DOMAIN ss : ss[i].item = ss[j].item => i = j
NoDuplicates == /\ \A c \in Range(cells) : Distinct(c.states)
                /\ Distinct(fresh)

\* SCell::Scan never meets the duplicate state it gives up on, which would leave
\* the parser without a current cell.
NeverLost == pc # "lost"

\* The states of a cell are those scanned, then those completed, the later
\* their start the earlier their place, then those predicted
\* (SCell::AddState, "Sorted").
Rank(s) == CASE s.label = "scanned" -> 0
             [] s.label = "completed" -> 1
             [] s.label = "predicted" -> 2
CellOrder ==
  \A c \in Range(cells) : \A i, j \in DOMAIN c.states :
    i < j => LET s == c.states[i] 
                 t == c.states[j]
             IN /\ Rank(s) <= Rank(t)
                /\ s.label = "completed" /\ t.label = "completed" =>
                     s.item.k >= t.item.k

StaysSettled ==
  pc = "complete" /\ cells' # cells =>
    \A i \in 1..x :
      LET s == Here.states[i]
          t == Last(cells').states[i]
      IN /\ t.item = s.item
         /\ Finished(s) /\ ~IsUnit(s) =>
              t.alpha = s.alpha /\ t.gamma = s.gamma /\ t.v = s.v

\* While Complete runs, the array grows only behind its cursor, and a state it
\* has used to complete others, or is using, has all its weight already: it
\* never moves, and only a unit state's weights, which nobody uses, may change.
Settled == [][StaysSettled]_vars

\* The nonterminals among the first n symbols of an item, for each of which its states
\* have a child once the dot is behind it, and the child for the last of them.
Places(item, n) == {p \in 1..n : item.rhs[p] \in Nonterminals}
KidAt(s, n) == s.kids[Cardinality(Places(s.item, n))]

\* Where the first n symbols of a state end: a terminal is one cell long, and a
\* nonterminal ends in the cell of its child.
EndOf(s, n) ==
  LET places == Places(s.item, n)
  IN IF places = {} THEN s.item.k + n ELSE KidAt(s, n).cell + n - Max(places)

\* Whatever derivations and unit states were merged, a state has exactly one child for
\* each nonterminal before its dot, and the child is a state that is there: a finished
\* one, not the root, of the cell the pointer is for (SCell::AddState, the source of
\* ExpandState's and ParseTreeFromState's trees).
ChildrenAreThere ==
  \A c \in DOMAIN cells : \A s \in Range(cells[c].states) :
    /\ Len(s.kids) = Cardinality(Places(s.item, s.item.dot))
    /\ \A kid \in Range(s.kids) :
         /\ Finished(kid) /\ kid.item.lhs # Empty
         /\ Same(cells[kid.cell + 1].states, kid.item) # {}

\* The children of every state are a parse of the inputs it spans: each starts where the
\* symbols before it end and is of a nonterminal that its symbol's unit closure reaches,
\* and the last symbol ends in the state's own cell.  It does not hold of every grammar:
\* where AddState looks for the child that a unit state is to replace, it compares K, dot
\* and rule, and not where the child ends.
ChildrenSpan ==
  /\ ChildrenAreThere
  /\ \A c \in DOMAIN cells : \A s \in Range(cells[c].states) :
       /\ \A p \in Places(s.item, s.item.dot) :
            /\ KidAt(s, p).item.k = EndOf(s, p - 1)
            /\ Positive(Ru[s.item.rhs[p]][KidAt(s, p).item.lhs])
       /\ EndOf(s, s.item.dot) = c - 1

\* The grammars of which it holds: when two nonterminals of a rule have another in front,
\* the child of the first is never what the second has under a unit state.
UnitRules ==
  {unit \in Range(Rules) : Len(unit.rhs) = 1 /\ unit.rhs[1] \in Nonterminals}
UnitsApart ==
  \A rule \in Range(Rules), unit \in UnitRules :
    \A o, p, q \in Places(rule, Len(rule.rhs)) :
      o < p /\ p < q /\ Positive(Ru[rule.rhs[q]][unit.lhs]) =>
        \A child \in Nonterminals :
          ~(Positive(Ru[rule.rhs[p]][child]) /\ Positive(Ru[unit.rhs[1]][child]))

\* No call is filling the last cell.
Filled == pc \in {"idle", "read"}

\* Once a cell is filled its states have the children of a parse tree, one of the
\* very nonterminal for each nonterminal before the dot: the unit states that
\* Complete skips have been put back (SCell::AddState).
ChildrenMatch ==
  Filled => \A c \in DOMAIN cells : \A s \in Range(cells[c].states) :
    /\ Len(s.kids) = Cardinality(Places(s.item, s.item.dot))
    /\ \A p \in Places(s.item, s.item.dot) : KidAt(s, p).item.lhs = s.item.rhs[p]

\* The grammars without unit rules, and with the closure that ComputeClosures gives them.
Unitless ==
  /\ UnitRules = {}
  /\ \A X, Y \in Nonterminals : Positive(Ru[X][Y]) => X = Y

\* Once a cell is filled no completion is left to do, and none was done that
\* Filter and Ru do not allow, although the states are visited in an array that
\* grows under the loop (SCell::Complete).
Saturated ==
  Filled =>
    LET states == Range(Here.states)
        from(child) == Range(cells[child.item.k + 1].states)
    IN {s.item : s \in {t \in states : t.label = "completed" /\ t.item.dot > 0}} =
       UNION {{Advance(parent.item) :
                 parent \in {p \in from(child) : Completes(p, child)}} :
                child \in {t \in states : Finished(t) /\ t.item.lhs # Empty}}

\* Whatever derivations were merged, a child never started more than the slack
\* before what precedes it ended, as their states have it: a state's marks stay
\* those it was added with (SCell::Filter, AddState).
ApartInTime ==
  \A c \in DOMAIN cells : \A s \in Range(cells[c].states) :
    s.item.dot > 0 /\ s.item.rhs[s.item.dot] \in Nonterminals =>
      LET kid    == Last(s.kids)
          parent == [s.item EXCEPT !.dot = @ - 1]
      IN \/ Skip \in {s.item.lhs, kid.item.lhs}
         \/ StateOf(cells[kid.item.k + 1].states, parent).high
              - StateOf(cells[kid.cell + 1].states, kid.item).low <= 11

\* No state is its own child.
NotItsOwnChild ==
  \A c \in DOMAIN cells : \A s \in Range(cells[c].states) :
    [cell |-> c - 1, item |-> s.item] \notin Range(s.kids)

\* getViterbiParse returns to its caller.
ViterbiReturns == pc # "dead"

\* A parse() that leaves no state to go on from does not return OK.
RejectionReported ==
  pc = "idle" /\ answer.query = "parse" /\ Here.states = <<>> =>
    answer.status # "OK"

\* Complete and Predict, which add to the array they run over, come to an end.
ParsesEnd == pc \in {"scan", "complete", "predict"} ~> pc \in {"read", "idle"}
=============================================================================
