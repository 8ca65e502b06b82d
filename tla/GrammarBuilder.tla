--------------------------- MODULE GrammarBuilder ---------------------------
(***************************************************************************)
(* A CFGrammar: the calls that build it, in any order, check() with the    *)
(* closure matrices it computes, and a parser that keeps a reference to    *)
(* it.  Nothing stops a client from changing a grammar after it was        *)
(* checked, and check() changes it too.                                    *)
(*                                                                         *)
(* Probabilities are whole shares of Full.  What the closures are made of, *)
(* Pl and Pu, is modelled, their inversion by Closures.                    *)
(***************************************************************************)
EXTENDS Integers, Sequences, SequencesExt

CONSTANTS
  Axioms, TerminalNames, NonterminalNames, \* the names a client uses
  Empty,         \* the name ""
  RightSides,    \* right hand sides a client may use: sequences of names
  Shares, Full,  \* the probabilities of rules, and what they should add up to
  MaxRules       \* bound: rules in the grammar

Names == Axioms \cup TerminalNames \cup NonterminalNames \cup {Empty}

ASSUME NamesAssumption == RightSides \subseteq Seq(Names)
ASSUME SharesAssumption == Shares \subseteq Nat /\ Full \in Nat /\ MaxRules \in Nat

VARIABLES
  axiom,         \* a token: a name and a type
  T, N,          \* the names of the terminals; the tokens of the nonterminals
  P,             \* the productions: the token of the LHS, and its rules
  closures,      \* the size of the matrices, and Pl and Pu
  parser,        \* whether an SParser of this grammar exists
  answer         \* what the last call returned

vars == <<axiom, T, N, P, closures, parser, answer>>

Token(name, type) == [name |-> name, type |-> type]
NamesOf(tokens) == {t.name : t \in Range(tokens)}
Returns(call, status) == answer' = [call |-> call, status |-> status]

\* Grammar::Grammar.  An undefined axiom has the name "".
Init == /\ axiom = Token(Empty, "UNKNOWN")
        /\ T = <<>> /\ N = <<>> /\ P = <<>>
        /\ closures = [size |-> 0, pl |-> <<>>, pu |-> <<>>]
        /\ parser = "none"
        /\ answer = [call |-> "none", status |-> "OK"]

\* GetNonTerminal, when there is one; GetNIndex; GetProduction's index
NonTerminal(word) == CHOOSE t \in Range(N) : t.name = word
NIndex(word) == CHOOSE i \in DOMAIN N : N[i].name = word
Productions(word) == {i \in DOMAIN P : P[i].lhs.name = word}
First(S) == CHOOSE i \in S : \A j \in S : i <= j

-----------------------------------------------------------------------------
AddAxiom(word) ==
  /\ parser # "dead"
  /\ IF axiom.type # "UNKNOWN"
       THEN Returns("addAxiom", "ERR_ALREADYEXISTS") /\ UNCHANGED axiom
       ELSE /\ axiom' = IF word \in NamesOf(N) THEN NonTerminal(word)
                        ELSE Token(word, "NONTERMINAL")
            /\ Returns("addAxiom", "OK")
  /\ UNCHANGED <<T, N, P, closures, parser>>

AddTerminal(word) ==
  /\ parser # "dead"
  /\ T' = IF word \in Range(T) THEN T ELSE Append(T, word)
  /\ Returns("addTerminal", "OK")
  /\ UNCHANGED <<axiom, N, P, closures, parser>>

\* A nonterminal with the axiom's name gets the axiom's type.
AddNonTerminal(word) ==
  /\ parser # "dead"
  /\ N' = IF word \in NamesOf(N) THEN N
          ELSE Append(N, IF axiom.name = word THEN axiom ELSE Token(word, "NONTERMINAL"))
  /\ Returns("addNonTerminal", "OK")
  /\ UNCHANGED <<axiom, T, P, closures, parser>>

-----------------------------------------------------------------------------
(* AddRule *)

Declared(word) == word \in Range(T) \cup NamesOf(N)

\* A name that is declared as both means the terminal.
Lookup(word) == IF word \in Range(T) THEN Token(word, "TERMINAL") ELSE NonTerminal(word)

RuleCount == SumFunction([i \in DOMAIN P |-> Len(P[i].rules)])

\* Faulty: a production for every rule.
WithRuleApart(lhs, rule) == Append(P, [lhs |-> NonTerminal(lhs), rules |-> <<rule>>])

\* The rule goes to the production of its LHS, or to a new one.
WithRule(lhs, rule) ==
  IF Productions(lhs) = {} THEN Append(P, [lhs |-> NonTerminal(lhs), rules |-> <<rule>>])
  ELSE [P EXCEPT ![First(Productions(lhs))].rules = Append(@, rule)]

\* Faulty: a production is added before the RHS is known to be right, or the RHS
\* is not looked at.
AddRuleEager(lhs, rhs, prob) ==
  /\ parser # "dead" /\ RuleCount < MaxRules
  /\ IF lhs \notin NamesOf(N) THEN Returns("addRule", "ERR_NOTFOUND") /\ UNCHANGED P
     ELSE IF \A i \in DOMAIN rhs : Declared(rhs[i])
       THEN /\ P' = WithRule(lhs, [rhs |-> [i \in DOMAIN rhs |-> Lookup(rhs[i])],
                                   prob |-> prob])
            /\ Returns("addRule", "OK")
       ELSE /\ P' = IF Productions(lhs) # {} THEN P
                    ELSE Append(P, [lhs |-> NonTerminal(lhs), rules |-> <<>>])
            /\ Returns("addRule", "ERR_INVPARAM")
  /\ UNCHANGED <<axiom, T, N, closures, parser>>
AddRuleUnseen(lhs, rhs, prob) ==
  /\ parser # "dead" /\ RuleCount < MaxRules /\ lhs \in NamesOf(N)
  /\ P' = WithRule(lhs, [rhs |-> [i \in DOMAIN rhs |->
                                    IF Declared(rhs[i]) THEN Lookup(rhs[i])
                                    ELSE Token(rhs[i], "NONTERMINAL")],
                         prob |-> prob])
  /\ Returns("addRule", "OK")
  /\ UNCHANGED <<axiom, T, N, closures, parser>>

AddRule(lhs, rhs, prob) ==
  /\ parser # "dead" /\ RuleCount < MaxRules
  /\ IF lhs \notin NamesOf(N) THEN Returns("addRule", "ERR_NOTFOUND") /\ UNCHANGED P
     ELSE IF \E i \in DOMAIN rhs : ~Declared(rhs[i])
       THEN Returns("addRule", "ERR_INVPARAM") /\ UNCHANGED P
     ELSE /\ P' = WithRule(lhs, [rhs |-> [i \in DOMAIN rhs |-> Lookup(rhs[i])],
                                 prob |-> prob])
          /\ Returns("addRule", "OK")
  /\ UNCHANGED <<axiom, T, N, closures, parser>>

-----------------------------------------------------------------------------
(* CheckGrammar *)

\* Faulty: nonterminals need no production.
WellFormedLoosely ==
  /\ T # <<>> /\ N # <<>> /\ P # <<>>
  /\ axiom.name \in NamesOf(N) \ {Empty}
  /\ Range(T) \cap NamesOf(N) = {}

\* Faulty: a grammar that was checked is not right any more.
WellFormedOnce == WellFormedLoosely /\ Empty \notin Range(T)

\* Grammar::CheckGrammar's conditions
WellFormed ==
  /\ T # <<>> /\ N # <<>> /\ P # <<>>
  /\ axiom.name # Empty /\ axiom.type # "UNKNOWN"
  /\ Range(T) \cap NamesOf(N) = {}
  /\ axiom.name \in NamesOf(N)
  /\ \A word \in NamesOf(N) : Productions(word) # {}
  /\ \A i \in DOMAIN P : P[i].lhs.type = "NONTERMINAL"

Whole(rules) == SumFunction([i \in DOMAIN rules |-> rules[i].prob])

\* SGrammar::CheckGrammar's condition
AddsUp == \A i \in DOMAIN P : Whole(P[i].rules) = Full

\* ComputeClosures looks at the first symbol of every rule, and AddRule takes rules
\* without symbols: it then reads through a NULL token.
Readable == \A i \in DOMAIN P : \A rule \in Range(P[i].rules) : rule.rhs # <<>>

\* The part of the rules that Test selects
Part(rules, Test(_)) ==
  SumFunction([i \in DOMAIN rules |-> IF Test(rules[i]) THEN rules[i].prob ELSE 0])

\* What the rules of every production for one nonterminal add to the cell of
\* another
Entry(productions, left, Corner(_)) ==
  SumFunction([i \in DOMAIN productions |->
                 IF productions[i].lhs.name = left.name
                   THEN Part(productions[i].rules, Corner) ELSE 0])
Pl(tokens, productions) ==
  [i \in DOMAIN tokens |-> [j \in DOMAIN tokens |->
     Entry(productions, tokens[i], LAMBDA rule :
             /\ rule.rhs[1].type = "NONTERMINAL"
             /\ rule.rhs[1].name = tokens[j].name)]]
Pu(tokens, productions) ==
  [i \in DOMAIN tokens |-> [j \in DOMAIN tokens |->
     Entry(productions, tokens[i], LAMBDA rule :
             /\ rule.rhs[1].type = "NONTERMINAL"
             /\ rule.rhs[1].name = tokens[j].name /\ Len(rule.rhs) = 1)]]

\* Faulty: the matrices are not cleared, or have a row and a column for "?".
ComputeClosuresOnTop(tokens, productions) ==
  LET old(i, j) == IF i <= closures.size /\ j <= closures.size
                     THEN closures.pl[i][j] ELSE 0
      pl == Pl(tokens, productions)
  IN [size |-> Len(tokens), pu |-> Pu(tokens, productions),
      pl |-> [i \in DOMAIN pl |-> [j \in DOMAIN pl |-> old(i, j) + pl[i][j]]]]
ComputeClosuresLarge(tokens, productions) ==
  [size |-> Len(tokens) + 1, pl |-> Pl(tokens, productions), pu |-> Pu(tokens, productions)]

\* SGrammar::ComputeClosures
ComputeClosures(tokens, productions) ==
  [size |-> Len(tokens), pl |-> Pl(tokens, productions), pu |-> Pu(tokens, productions)]

Dies == WellFormed /\ AddsUp /\ ~Readable
Passes == WellFormed /\ AddsUp /\ Readable

CheckGrammar ==
  /\ T' = IF WellFormed /\ Empty \notin Range(T) THEN Append(T, Empty) ELSE T
  /\ closures' = IF Passes THEN ComputeClosures(N, P) ELSE closures
  /\ UNCHANGED <<axiom, N, P>>

\* What a call of CheckGrammar comes to: who calls, and what it makes of a failure
Verdict(call, failure) ==
  Returns(call, IF Passes THEN "OK" ELSE IF Dies THEN "died" ELSE failure)

Check ==
  /\ parser # "dead" /\ CheckGrammar
  /\ parser' = IF Dies THEN "dead" ELSE parser
  /\ Verdict("checkGrammar", "ERR_INVPARAM")

-----------------------------------------------------------------------------
(* SParser *)

\* The constructor checks the grammar again, and throws when it fails.
NewParser ==
  /\ parser = "none" /\ CheckGrammar
  /\ parser' = IF Passes THEN "alive" ELSE IF Dies THEN "dead" ELSE "none"
  /\ Verdict("SParser", "invalid_argument")

\* SCell::Predict in a later parse(), of a nonterminal that a rule has after its
\* first symbol: the row of Rl is read to the present number of nonterminals.
\* Beyond the matrix an assertion of Eigen's ends the process, or anything is read.
Predict ==
  /\ parser = "alive"
  /\ \E i \in DOMAIN P : \E rule \in Range(P[i].rules) : \E j \in 2..Len(rule.rhs) :
       rule.rhs[j].type # "TERMINAL"
  /\ parser' \in IF Len(N) > closures.size THEN {"alive", "dead"} ELSE {"alive"}
  /\ Returns("parse", "OK")
  /\ UNCHANGED <<axiom, T, N, P, closures>>

DeleteParser ==
  /\ parser = "alive" /\ parser' = "none"
  /\ Returns("~SParser", "OK")
  /\ UNCHANGED <<axiom, T, N, P, closures>>

Dead == parser = "dead" /\ UNCHANGED vars

-----------------------------------------------------------------------------
Build == \/ \E word \in Axioms : AddAxiom(word)
         \/ \E word \in TerminalNames : AddTerminal(word)
         \/ \E word \in NonterminalNames : AddNonTerminal(word)
         \/ \E lhs \in NonterminalNames, rhs \in RightSides, prob \in Shares :
              AddRule(lhs, rhs, prob)

Use == \/ Check
       \/ NewParser
       \/ Predict
       \/ DeleteParser

Next == Build \/ Use \/ Dead

Spec == Init /\ [][Next]_vars
-----------------------------------------------------------------------------
(* Properties *)

Types == {"UNKNOWN", "TERMINAL", "NONTERMINAL"}
Tokens == [name : Names, type : Types]
LeftSides == [name : Names, type : Types \ {"TERMINAL"}]
RulesOf == [rhs : Seq(Tokens), prob : Shares]
ProductionsOf == [lhs : LeftSides, rules : Seq(RulesOf)]

TypeOK ==
  /\ axiom \in LeftSides /\ T \in Seq(Names) /\ N \in Seq(LeftSides)
  /\ P \in Seq(ProductionsOf)
  /\ closures.size \in 0..Len(N)
  /\ DOMAIN closures.pl = 1..closures.size /\ DOMAIN closures.pu = 1..closures.size
  /\ parser \in {"none", "alive", "dead"}

SymbolsDeclared(rule) ==
  \A token \in Range(rule.rhs) :
    IF token.type = "TERMINAL" THEN token.name \in Range(T) ELSE token \in Range(N)

\* Every symbol of every rule is in the table of its type, and every production
\* is the only one of its nonterminal, whatever is declared in which order:
\* GetNIndex and GetProduction, which go by names, find what was meant.
DeclaredBeforeUse ==
  /\ \A i, j \in DOMAIN P : P[i].lhs.name = P[j].lhs.name => i = j
  /\ \A i \in DOMAIN P :
       /\ P[i].lhs \in Range(N) /\ P[i].rules # <<>>
       /\ \A rule \in Range(P[i].rules) : SymbolsDeclared(rule)

\* The rules as getRules() lists them
RulesListed(word) ==
  IF Productions(word) = {} THEN <<>> ELSE P[First(Productions(word))].rules
CheckedOK == answer.status = "OK" /\ answer.call \in {"checkGrammar", "SParser"}

\* After checkGrammar() returned OK the grammar is what its documentation says
\* was checked, but for the name "", which check() itself declares as a terminal
\* after it compared the sets, and which the parser looks up: it is there, no other name
\* is both a terminal and a nonterminal, the axiom is a nonterminal only, and each
\* nonterminal's listed rules add up to one.
CheckedIsWellFormed ==
  CheckedOK =>
    /\ Empty \in Range(T)
    /\ Range(T) \cap NamesOf(N) \subseteq {Empty}
    /\ axiom.name \in NamesOf(N) \ Range(T)
    /\ \A word \in NamesOf(N) :
         /\ Len(RulesListed(word)) > 0
         /\ Whole(RulesListed(word)) = Full

\* The matrices of a grammar that was just checked say of each two nonterminals
\* what its listed rules say: the types that were recorded with a rule's symbols
\* when it was added still agree with the tables.
ClosuresRight ==
  CheckedOK =>
    /\ closures.size = Len(N)
    /\ \A i, j \in DOMAIN N :
         LET corner(rule) == rule.rhs[1].name = N[j].name
             unit(rule) == corner(rule) /\ Len(rule.rhs) = 1
             rules == RulesListed(N[i].name)
         IN N[j].name # Empty => /\ closures.pl[i][j] = Part(rules, corner)
                                 /\ closures.pu[i][j] = Part(rules, unit)

\* Checking again what was just checked, as the constructor of SParser does,
\* finds the same and changes nothing (but see "" above).
RecheckIsStable ==
  [][CheckedOK /\ answer'.call \in {"checkGrammar", "SParser"} /\ Empty \notin NamesOf(N) =>
       answer'.status = "OK" /\ closures' = closures /\ T' = T]_vars

\* A call that returns an error leaves what the getters list as it was, and the
\* closures of an earlier check, which a parser may be using.
FailureChangesNothing ==
  [][answer'.status \notin {"OK", "died"} =>
       /\ UNCHANGED <<axiom, N, P, closures, parser>>
       /\ Range(T') \ {Empty} = Range(T) \ {Empty}]_vars

\* While a parser uses them, the matrices have a row and a column for every
\* nonterminal.
ClosuresFit == parser # "none" => closures.size = Len(N)
=============================================================================
