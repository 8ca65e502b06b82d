------------------------ MODULE GrammarBuilderProofs ------------------------
(***************************************************************************)
(* What GrammarBuilder keeps, proved for every set of names, right hand    *)
(* sides and probabilities.  Only ClosuresAreRight looks into the sums of  *)
(* which the closures are made.                                            *)
(***************************************************************************)
EXTENDS GrammarBuilder, SequenceTheorems, SumLemmas, TLAPS

\* WellFormed, but "" may be both a terminal and a nonterminal.
WellFormedBut ==
  /\ axiom.name \in NamesOf(N) \ {Empty}
  /\ T # <<>> /\ N # <<>> /\ P # <<>> /\ axiom.type # "UNKNOWN"
  /\ Range(T) \cap NamesOf(N) \subseteq {Empty}
  /\ \A word \in NamesOf(N) : Productions(word) # {}
  /\ \A i \in DOMAIN P : P[i].lhs.type = "NONTERMINAL"

\* What a check leaves behind.
Checked == CheckedOK => /\ WellFormedBut /\ AddsUp /\ Readable
                        /\ Empty \in Range(T)
                        /\ closures = ComputeClosures(N, P)

\* A name is declared as a nonterminal once.
OneOfEachName == \A i, j \in DOMAIN N : N[i].name = N[j].name => i = j

IInv == TypeOK /\ OneOfEachName /\ DeclaredBeforeUse /\ Checked

-----------------------------------------------------------------------------
(* Lookups *)

\* The names in a table are the names of its members.
LEMMA NonTerminalFound ==
  ASSUME NEW word \in NamesOf(N)
  PROVE  NonTerminal(word) \in Range(N) /\ NonTerminal(word).name = word
<1>1. \E t \in Range(N) : t.name = word
  BY DEF NamesOf
<1> QED  BY <1>1 DEF NonTerminal

\* Appending adds one member.
LEMMA RangeAppend ==
  ASSUME NEW S, NEW s \in Seq(S), NEW e \in S
  PROVE  Range(Append(s, e)) = Range(s) \cup {e}
<1> DEFINE t == Append(s, e)
<1>1. /\ Len(s) \in Nat /\ DOMAIN s = 1..Len(s)
      /\ t \in Seq(S) /\ Len(t) = Len(s) + 1
      /\ \A i \in 1..Len(s) : t[i] = s[i]
      /\ t[Len(s) + 1] = e
  BY AppendProperties, LenProperties
<1>2. DOMAIN t = 1 .. Len(s) + 1
  BY <1>1, LenProperties
<1>3. Range(t) \subseteq Range(s) \cup {e}
  BY <1>1, <1>2 DEF Range
<1>4. Range(s) \subseteq Range(t)
  <2>1. \A i \in DOMAIN s : i \in DOMAIN t /\ t[i] = s[i]
    BY <1>1, <1>2
  <2> QED  BY <2>1 DEF Range
<1>5. e \in Range(t)
  <2>1. Len(s) + 1 \in DOMAIN t
    BY <1>1, <1>2
  <2> QED  BY <1>1, <2>1 DEF Range
<1> QED  BY <1>3, <1>4, <1>5

\* There is one production for a nonterminal that has any.
LEMMA ProductionFound ==
  ASSUME TypeOK, DeclaredBeforeUse, NEW word, Productions(word) # {}
  PROVE  First(Productions(word)) \in Productions(word)
<1>1. PICK i \in Productions(word) : TRUE
  OBVIOUS
<1>2. i \in Nat
  BY <1>1, LenProperties DEF Productions, TypeOK
<1>3. \A j \in Productions(word) : i = j
  BY <1>1 DEF Productions, DeclaredBeforeUse
<1>4. \E k \in Productions(word) : \A j \in Productions(word) : k <= j
  BY <1>1, <1>2, <1>3
<1> QED  BY <1>4 DEF First

-----------------------------------------------------------------------------
(* Adding a rule *)

\* The new rule's symbols are in their tables.
LEMMA SymbolsLookedUp ==
  ASSUME TypeOK, NEW rhs \in Seq(Names), \A i \in DOMAIN rhs : Declared(rhs[i]),
         NEW prob \in Shares
  PROVE  LET rule == [rhs |-> [i \in DOMAIN rhs |-> Lookup(rhs[i])], prob |-> prob]
         IN rule \in RulesOf /\ SymbolsDeclared(rule)
<1> DEFINE tokens == [i \in DOMAIN rhs |-> Lookup(rhs[i])]
           rule == [rhs |-> tokens, prob |-> prob]
<1>1. DOMAIN rhs = 1..Len(rhs) /\ Len(rhs) \in Nat /\ \A i \in DOMAIN rhs : rhs[i] \in Names
  BY LenProperties
<1>2. \A t \in Range(N) : t \in Tokens /\ t.type # "TERMINAL"
  <2>1. Range(N) \subseteq LeftSides
    BY RangeOfSeq DEF TypeOK
  <2> QED  BY <2>1 DEF LeftSides, Tokens
<1>3. \A i \in DOMAIN rhs :
        /\ Lookup(rhs[i]) \in Tokens
        /\ IF Lookup(rhs[i]).type = "TERMINAL" THEN Lookup(rhs[i]).name \in Range(T)
           ELSE Lookup(rhs[i]) \in Range(N)
  <2> TAKE i \in DOMAIN rhs
  <2>1. CASE rhs[i] \in Range(T)
    BY <1>1, <2>1 DEF Lookup, Token, Tokens, Types
  <2>2. CASE rhs[i] \notin Range(T)
    <3>1. rhs[i] \in NamesOf(N)
      BY <2>2 DEF Declared
    <3>2. Lookup(rhs[i]) \in Range(N)
      BY <2>2, <3>1, NonTerminalFound DEF Lookup
    <3>3. Lookup(rhs[i]).type # "TERMINAL"
      BY <1>2, <3>2
    <3> QED  BY <1>2, <3>2, <3>3
  <2> QED  BY <2>1, <2>2
<1>4. tokens \in Seq(Tokens)
  BY <1>1, <1>3, IsASeq
<1>5. rule \in RulesOf
  BY <1>4 DEF RulesOf
<1>6. SymbolsDeclared(rule)
  BY <1>3 DEF SymbolsDeclared, Range
<1> QED  BY <1>5, <1>6

\* A production more, or a rule more in one of them.
LEMMA RuleAdded ==
  ASSUME TypeOK, DeclaredBeforeUse, NEW lhs \in NamesOf(N), NEW rule \in RulesOf,
         SymbolsDeclared(rule), P' = WithRule(lhs, rule), UNCHANGED <<T, N>>
  PROVE  (P \in Seq(ProductionsOf) /\ DeclaredBeforeUse)'
<1> DEFINE left == NonTerminal(lhs)
<1>1. /\ Len(P) \in Nat /\ DOMAIN P = 1..Len(P)
      /\ \A i \in DOMAIN P : P[i] \in ProductionsOf
  BY LenProperties DEF TypeOK
<1>2. left \in Range(N) /\ left.name = lhs /\ left \in LeftSides
  BY NonTerminalFound, RangeOfSeq DEF TypeOK
<1>3. Range(N)' = Range(N) /\ Range(T)' = Range(T)
  OBVIOUS
<1>4. \A r : SymbolsDeclared(r)' <=> SymbolsDeclared(r)
  BY <1>3 DEF SymbolsDeclared
<1>5. CASE Productions(lhs) = {}
  <2> DEFINE new == [lhs |-> left, rules |-> <<rule>>]
  <2>1. <<rule>> \in Seq(RulesOf) /\ <<rule>> # <<>> /\ Range(<<rule>>) = {rule}
    BY DEF Range
  <2>2. new \in ProductionsOf
    BY <1>2, <2>1 DEF ProductionsOf
  <2>3. P' = Append(P, new)
    BY <1>5 DEF WithRule
  <2>4. /\ P' \in Seq(ProductionsOf) /\ Len(P') = Len(P) + 1
        /\ \A i \in 1..Len(P) : P'[i] = P[i]
        /\ P'[Len(P) + 1] = new
    BY <2>2, <2>3, AppendProperties DEF TypeOK
  <2>5. DOMAIN P' = 1..Len(P) + 1
    BY <2>4, LenProperties
  <2>6. \A i \in DOMAIN P : P[i].lhs.name # lhs
    BY <1>5 DEF Productions
  <2>7. \A i, j \in DOMAIN P' : P'[i].lhs.name = P'[j].lhs.name => i = j
    <3> SUFFICES ASSUME NEW i \in DOMAIN P', NEW j \in DOMAIN P',
                        P'[i].lhs.name = P'[j].lhs.name
                 PROVE  i = j
      OBVIOUS
    <3>1. CASE i \in DOMAIN P /\ j \in DOMAIN P
      BY <1>1, <2>4, <3>1 DEF DeclaredBeforeUse
    <3>2. CASE i \notin DOMAIN P
      BY <1>1, <1>2, <2>4, <2>5, <2>6, <3>2
    <3>3. CASE j \notin DOMAIN P
      BY <1>1, <1>2, <2>4, <2>5, <2>6, <3>3
    <3> QED  BY <3>1, <3>2, <3>3
  <2>8. \A i \in DOMAIN P' :
          /\ P'[i].lhs \in Range(N) /\ P'[i].rules # <<>>
          /\ \A r \in Range(P'[i].rules) : SymbolsDeclared(r)
    <3> TAKE i \in DOMAIN P'
    <3>1. CASE i \in DOMAIN P
      BY <1>1, <2>4, <3>1 DEF DeclaredBeforeUse
    <3>2. CASE i \notin DOMAIN P
      <4>1. P'[i] = new
        BY <1>1, <2>4, <2>5, <3>2
      <4>2. P'[i].lhs = left /\ P'[i].rules = <<rule>>
        BY <4>1
      <4> HIDE DEF left
      <4>3. \A r \in Range(P'[i].rules) : r = rule
        BY <2>1, <4>2
      <4> QED  BY <1>2, <2>1, <4>2, <4>3
    <3> QED  BY <3>1, <3>2
  <2> QED  BY <1>3, <1>4, <2>4, <2>7, <2>8 DEF DeclaredBeforeUse
<1>6. CASE Productions(lhs) # {}
  <2> DEFINE k == First(Productions(lhs))
             more == Append(P[k].rules, rule)
             new == [P[k] EXCEPT !.rules = more]
  <2>1. k \in DOMAIN P /\ P[k] \in ProductionsOf
    BY <1>1, <1>6, ProductionFound DEF Productions
  <2>2. P[k].rules \in Seq(RulesOf)
    BY <2>1 DEF ProductionsOf
  <2>3. more \in Seq(RulesOf) /\ more # <<>> /\ Range(more) = Range(P[k].rules) \cup {rule}
    BY <2>2, AppendProperties, RangeAppend
  <2>4. new \in ProductionsOf /\ new.lhs = P[k].lhs /\ new.rules = more
    BY <2>1, <2>3 DEF ProductionsOf
  <2>5. P' = [P EXCEPT ![k] = new]
    BY <1>6 DEF WithRule
  <2>6. /\ P' \in Seq(ProductionsOf) /\ DOMAIN P' = DOMAIN P
        /\ \A i \in DOMAIN P : P'[i] = IF i = k THEN new ELSE P[i]
    <3> HIDE DEF k, new
    <3> QED  BY <1>1, <2>1, <2>4, <2>5, ExceptSeq DEF TypeOK
  <2>7. \A i \in DOMAIN P : P'[i].lhs = P[i].lhs
    BY <2>4, <2>6
  <2>8. \A i \in DOMAIN P :
          /\ P'[i].lhs \in Range(N) /\ P'[i].rules # <<>>
          /\ \A r \in Range(P'[i].rules) : SymbolsDeclared(r)
    <3> TAKE i \in DOMAIN P
    <3>1. CASE i = k
      BY <2>1, <2>3, <2>4, <2>6, <3>1 DEF DeclaredBeforeUse
    <3>2. CASE i # k
      BY <2>6, <3>2 DEF DeclaredBeforeUse
    <3> QED  BY <3>1, <3>2
  <2>9. \A i, j \in DOMAIN P' : P'[i].lhs.name = P'[j].lhs.name => i = j
    BY <2>6, <2>7 DEF DeclaredBeforeUse
  <2> QED  BY <1>3, <1>4, <2>6, <2>8, <2>9 DEF DeclaredBeforeUse
<1> QED  BY <1>5, <1>6

\* Every rule that is there afterwards is the new one, or was there before.
LEMMA RulesAfterwards ==
  ASSUME TypeOK, DeclaredBeforeUse, NEW lhs \in NamesOf(N), NEW rule \in RulesOf,
         P' = WithRule(lhs, rule), NEW i \in DOMAIN P', NEW r \in Range(P'[i].rules)
  PROVE  \/ i \in DOMAIN P /\ P'[i].lhs = P[i].lhs /\ r \in Range(P[i].rules)
         \/ P'[i].lhs.name = lhs /\ r = rule
<1> DEFINE left == NonTerminal(lhs)
<1>1. /\ Len(P) \in Nat /\ DOMAIN P = 1..Len(P) /\ P \in Seq(ProductionsOf)
      /\ \A j \in DOMAIN P : P[j] \in ProductionsOf
  BY LenProperties DEF TypeOK
<1>2. left.name = lhs /\ left \in LeftSides
  BY NonTerminalFound, RangeOfSeq DEF TypeOK
<1>3. CASE Productions(lhs) = {}
  <2> DEFINE new == [lhs |-> left, rules |-> <<rule>>]
  <2>1. new \in ProductionsOf /\ Range(<<rule>>) = {rule}
    BY <1>2 DEF ProductionsOf, Range
  <2>2. P' = Append(P, new)
    BY <1>3 DEF WithRule
  <2>3. /\ \A j \in 1..Len(P) : P'[j] = P[j]
        /\ P'[Len(P) + 1] = new /\ DOMAIN P' = 1..Len(P) + 1
    <3> HIDE DEF new
    <3> QED  BY <1>1, <2>1, <2>2, AppendProperties, LenProperties
  <2>4. CASE i \in 1..Len(P)
    BY <1>1, <2>3, <2>4
  <2>5. CASE i = Len(P) + 1
    <3>1. P'[i].lhs = left /\ P'[i].rules = <<rule>>
      BY <2>3, <2>5
    <3> HIDE DEF left
    <3> QED  BY <1>2, <2>1, <3>1
  <2>6. i \in 1..Len(P) \/ i = Len(P) + 1
    BY <1>1, <2>3
  <2> QED  BY <2>4, <2>5, <2>6
<1>4. CASE Productions(lhs) # {}
  <2> DEFINE k == First(Productions(lhs))
             more == Append(P[k].rules, rule)
             new == [P[k] EXCEPT !.rules = more]
  <2>1. k \in DOMAIN P /\ P[k] \in ProductionsOf /\ P[k].lhs.name = lhs
    BY <1>1, <1>4, ProductionFound DEF Productions
  <2>2. P[k].rules \in Seq(RulesOf)
    BY <2>1 DEF ProductionsOf
  <2>3. more \in Seq(RulesOf) /\ Range(more) = Range(P[k].rules) \cup {rule}
    BY <2>2, AppendProperties, RangeAppend
  <2>4. new \in ProductionsOf /\ new.lhs = P[k].lhs /\ new.rules = more
    BY <2>1, <2>3 DEF ProductionsOf
  <2>5. P' = [P EXCEPT ![k] = new]
    BY <1>4 DEF WithRule
  <2>6. /\ DOMAIN P' = DOMAIN P
        /\ \A j \in DOMAIN P : P'[j] = IF j = k THEN new ELSE P[j]
    <3> HIDE DEF k, new
    <3> QED  BY <1>1, <2>1, <2>4, <2>5
  <2>7. CASE i = k
    <3>1. i \in DOMAIN P /\ P'[i] = new
      BY <2>1, <2>6, <2>7
    <3>2. P'[i].lhs = P[i].lhs /\ P'[i].rules = more /\ P'[i].lhs.name = lhs
      BY <2>1, <2>4, <2>7, <3>1
    <3>3. r \in Range(P[i].rules) \/ r = rule
      BY <2>3, <2>7, <3>2
    <3> QED  BY <3>1, <3>2, <3>3
  <2>8. CASE i # k
    BY <2>6, <2>8
  <2> QED  BY <2>7, <2>8
<1> QED  BY <1>3, <1>4

-----------------------------------------------------------------------------
(* The inductive invariant *)

LEMMA InitInv == Init => IInv
<1> SUFFICES ASSUME Init PROVE IInv
  OBVIOUS
<1>1. TypeOK
  <2>1. axiom \in LeftSides
    BY DEF Init, Token, LeftSides, Names, Types
  <2>2. closures.size \in 0..Len(N) /\ DOMAIN closures.pl = 1..closures.size
        /\ DOMAIN closures.pu = 1..closures.size
    BY EmptySeq DEF Init
  <2> QED  BY <2>1, <2>2, EmptySeq DEF Init, TypeOK
<1>2. DeclaredBeforeUse /\ OneOfEachName
  BY DEF Init, DeclaredBeforeUse, OneOfEachName
<1>3. Checked
  BY DEF Init, Checked, CheckedOK
<1> QED  BY <1>1, <1>2, <1>3 DEF IInv

\* What the closures that are computed look like.
LEMMA ClosuresComputed ==
  ASSUME TypeOK
  PROVE  LET c == ComputeClosures(N, P)
         IN c.size = Len(N) /\ DOMAIN c.pl = 1..c.size /\ DOMAIN c.pu = 1..c.size
<1>1. DOMAIN N = 1..Len(N)
  BY LenProperties DEF TypeOK
<1> QED  BY <1>1 DEF ComputeClosures, Pl, Pu

\* More nonterminals and terminals, with the rules as they were.
LEMMA TablesGrow ==
  ASSUME DeclaredBeforeUse, UNCHANGED P,
         Range(T) \subseteq Range(T)', Range(N) \subseteq Range(N)'
  PROVE  DeclaredBeforeUse'
<1>1. \A rule : SymbolsDeclared(rule) => SymbolsDeclared(rule)'
  BY DEF SymbolsDeclared
<1> QED  BY <1>1 DEF DeclaredBeforeUse

LEMMA AddAxiomInv == ASSUME IInv, NEW word \in Axioms, AddAxiom(word) PROVE IInv'
<1>1. UNCHANGED <<T, N, P, closures, parser>> /\ ~CheckedOK'
  BY DEF AddAxiom, Returns, CheckedOK
<1>2. axiom' \in LeftSides
  <2>1. word \in NamesOf(N) => NonTerminal(word) \in LeftSides
    BY NonTerminalFound, RangeOfSeq DEF IInv, TypeOK
  <2>2. Token(word, "NONTERMINAL") \in LeftSides
    BY DEF Token, LeftSides, Names, Types
  <2> QED  BY <2>1, <2>2 DEF AddAxiom, IInv, TypeOK
<1>3. TypeOK'
  BY <1>1, <1>2 DEF IInv, TypeOK
<1>4. DeclaredBeforeUse'
  BY <1>1, TablesGrow DEF IInv
<1> QED  BY <1>1, <1>3, <1>4 DEF IInv, Checked, OneOfEachName

LEMMA AddTerminalInv ==
  ASSUME IInv, NEW word \in TerminalNames, AddTerminal(word) PROVE IInv'
<1>1. UNCHANGED <<axiom, N, P, closures, parser>> /\ ~CheckedOK'
  BY DEF AddTerminal, Returns, CheckedOK
<1>2. T' \in Seq(Names) /\ Range(T) \subseteq Range(T)'
  <2>1. T \in Seq(Names) /\ word \in Names
    BY DEF IInv, TypeOK, Names
  <2>2. CASE word \in Range(T)
    BY <2>1, <2>2 DEF AddTerminal
  <2>3. CASE word \notin Range(T)
    BY <2>1, <2>3, RangeAppend, AppendProperties DEF AddTerminal
  <2> QED  BY <2>2, <2>3
<1>3. TypeOK'
  BY <1>1, <1>2 DEF IInv, TypeOK
<1>4. DeclaredBeforeUse'
  BY <1>1, <1>2, TablesGrow DEF IInv
<1> QED  BY <1>1, <1>3, <1>4 DEF IInv, Checked, OneOfEachName

LEMMA AddNonTerminalInv ==
  ASSUME IInv, NEW word \in NonterminalNames, AddNonTerminal(word) PROVE IInv'
<1>1. UNCHANGED <<axiom, T, P, closures, parser>> /\ ~CheckedOK'
  BY DEF AddNonTerminal, Returns, CheckedOK
<1>2. /\ N' \in Seq(LeftSides) /\ Range(N) \subseteq Range(N)'
      /\ Len(N) \in Nat /\ Len(N') \in Nat /\ Len(N) <= Len(N')
  <2> DEFINE new == IF axiom.name = word THEN axiom ELSE Token(word, "NONTERMINAL")
  <2>1. N \in Seq(LeftSides) /\ axiom \in LeftSides /\ Len(N) \in Nat
    BY LenProperties DEF IInv, TypeOK
  <2>2. new \in LeftSides
    BY <2>1 DEF Token, LeftSides, Names, Types
  <2>3. CASE word \in NamesOf(N)
    BY <2>1, <2>3 DEF AddNonTerminal
  <2>4. CASE word \notin NamesOf(N)
    <3>1. N' = Append(N, new)
      BY <2>4 DEF AddNonTerminal
    <3> HIDE DEF new
    <3> QED  BY <2>1, <2>2, <3>1, RangeAppend, AppendProperties
  <2> QED  BY <2>3, <2>4
<1>3. TypeOK'
  BY <1>1, <1>2 DEF IInv, TypeOK
<1>4. DeclaredBeforeUse'
  BY <1>1, <1>2, TablesGrow DEF IInv
<1>5. OneOfEachName'
  <2>1. CASE word \in NamesOf(N)
    BY <2>1 DEF AddNonTerminal, IInv, OneOfEachName
  <2>2. CASE word \notin NamesOf(N)
    <3> DEFINE new == IF axiom.name = word THEN axiom ELSE Token(word, "NONTERMINAL")
    <3>1. N' = Append(N, new) /\ new.name = word
      BY <2>2 DEF AddNonTerminal, Token
    <3>2. new \in LeftSides /\ N \in Seq(LeftSides)
      BY DEF IInv, TypeOK, Token, LeftSides, Names, Types
    <3> HIDE DEF new
    <3>3. /\ Len(N) \in Nat /\ DOMAIN N = 1..Len(N) /\ DOMAIN N' = 1..Len(N) + 1
          /\ \A i \in 1..Len(N) : N'[i] = N[i]
          /\ N'[Len(N) + 1] = new
      BY <3>1, <3>2, AppendProperties, LenProperties
    <3>4. \A i \in DOMAIN N : N[i].name # word
      BY <2>2 DEF NamesOf, Range
    <3>5. ASSUME NEW i \in DOMAIN N', NEW j \in DOMAIN N', N'[i].name = N'[j].name
          PROVE  i = j
      <4>1. CASE i \in DOMAIN N /\ j \in DOMAIN N
        BY <3>3, <3>5, <4>1 DEF IInv, OneOfEachName
      <4>2. CASE i \notin DOMAIN N \/ j \notin DOMAIN N
        BY <3>1, <3>3, <3>4, <3>5, <4>2
      <4> QED  BY <4>1, <4>2
    <3> QED  BY <3>5 DEF OneOfEachName
  <2> QED  BY <2>1, <2>2
<1> QED  BY <1>1, <1>3, <1>4, <1>5 DEF IInv, Checked

LEMMA AddRuleInv ==
  ASSUME IInv, NEW lhs, NEW rhs \in Seq(Names), NEW prob \in Shares,
         AddRule(lhs, rhs, prob)
  PROVE  IInv'
<1>1. UNCHANGED <<axiom, T, N, closures, parser>> /\ ~CheckedOK'
  BY DEF AddRule, Returns, CheckedOK
<1>2. (P \in Seq(ProductionsOf) /\ DeclaredBeforeUse)'
  <2>1. CASE UNCHANGED P
    BY <1>1, <2>1, TablesGrow DEF IInv, TypeOK
  <2>2. CASE ~UNCHANGED P
    <3> DEFINE rule == [rhs |-> [i \in DOMAIN rhs |-> Lookup(rhs[i])], prob |-> prob]
    <3>1. lhs \in NamesOf(N) /\ (\A i \in DOMAIN rhs : Declared(rhs[i]))
      BY <2>2 DEF AddRule
    <3>2. P' = WithRule(lhs, rule)
      BY <2>2, <3>1 DEF AddRule
    <3>3. rule \in RulesOf /\ SymbolsDeclared(rule)
      BY <3>1, SymbolsLookedUp DEF IInv
    <3> HIDE DEF rule
    <3> QED  BY <1>1, <3>1, <3>2, <3>3, RuleAdded DEF IInv
  <2> QED  BY <2>1, <2>2
<1>3. TypeOK'
  BY <1>1, <1>2 DEF IInv, TypeOK
<1> QED  BY <1>1, <1>2, <1>3 DEF IInv, Checked, OneOfEachName

\* CheckGrammar, whoever calls it and whatever it finds.
LEMMA CheckGrammarInv ==
  ASSUME IInv, CheckGrammar, parser' \in {"none", "alive", "dead"},
         NEW call, NEW failure, failure # "OK", Verdict(call, failure)
  PROVE  IInv'
<1>1. UNCHANGED <<axiom, N, P>>
  BY DEF CheckGrammar
<1>2. /\ T' \in Seq(Names) /\ Range(T) \subseteq Range(T)'
      /\ Range(T)' \subseteq Range(T) \cup {Empty} /\ (T # <<>> => T' # <<>>)
  <2>1. T \in Seq(Names) /\ Empty \in Names
    BY DEF IInv, TypeOK, Names
  <2>2. CASE T' = T
    BY <2>1, <2>2
  <2>3. CASE T' = Append(T, Empty)
    BY <2>1, <2>3, RangeAppend, AppendProperties
  <2> QED  BY <2>2, <2>3 DEF CheckGrammar
<1>3. closures'.size \in 0..Len(N) /\ DOMAIN closures'.pl = 1..closures'.size
      /\ DOMAIN closures'.pu = 1..closures'.size
  <2>1. Len(N) \in 0..Len(N)
    BY LenProperties DEF IInv, TypeOK
  <2>2. CASE closures' = closures
    BY <2>2 DEF IInv, TypeOK
  <2>3. CASE closures' = ComputeClosures(N, P)
    BY <2>1, <2>3, ClosuresComputed DEF IInv
  <2> QED  BY <2>2, <2>3 DEF CheckGrammar
<1>4. TypeOK'
  BY <1>1, <1>2, <1>3 DEF IInv, TypeOK
<1>5. DeclaredBeforeUse'
  BY <1>1, <1>2, TablesGrow DEF IInv
<1>6. Checked'
  <2> SUFFICES ASSUME WellFormed, AddsUp, Readable
               PROVE  /\ WellFormedBut' /\ AddsUp' /\ Readable'
                      /\ Empty \in Range(T)'
                      /\ closures' = ComputeClosures(N', P')
    BY DEF Checked, CheckedOK, Verdict, Returns, Passes
  <2>1. /\ NamesOf(N)' = NamesOf(N)
        /\ \A word : Productions(word)' = Productions(word)
    BY <1>1 DEF NamesOf, Productions
  <2>2. WellFormedBut'
    <3>1. /\ axiom.name \in NamesOf(N) \ {Empty} /\ axiom.type # "UNKNOWN"
          /\ T # <<>> /\ N # <<>> /\ P # <<>>
          /\ Range(T) \cap NamesOf(N) = {}
          /\ \A word \in NamesOf(N) : Productions(word) # {}
          /\ \A i \in DOMAIN P : P[i].lhs.type = "NONTERMINAL"
      BY DEF WellFormed
    <3>2. /\ axiom'.name \in NamesOf(N)' \ {Empty} /\ axiom'.type # "UNKNOWN"
          /\ T' # <<>> /\ N' # <<>> /\ P' # <<>>
      <4>1. axiom' = axiom /\ N' = N /\ P' = P /\ T' # <<>>
        BY <1>1, <1>2, <3>1
      <4> QED  BY <4>1, <3>1
    <3>3. Range(T)' \cap NamesOf(N)' \subseteq {Empty}
      <4>1. Range(T)' \subseteq Range(T) \cup {Empty}
        BY <1>2
      <4>2. NamesOf(N)' = NamesOf(N) /\ Range(T) \cap NamesOf(N) = {}
        BY <2>1, <3>1
      <4> QED  BY <4>1, <4>2
    <3>4. \A word \in NamesOf(N)' : Productions(word)' # {}
      BY <2>1, <3>1
    <3>5. \A i \in DOMAIN P' : P'[i].lhs.type = "NONTERMINAL"
      BY <1>1, <3>1
    <3> QED  BY <3>2, <3>3, <3>4, <3>5 DEF WellFormedBut
  <2>3. AddsUp' /\ Readable'
    BY <1>1 DEF AddsUp, Readable
  <2>4. Empty \in Range(T)'
    <3>1. T \in Seq(Names) /\ Empty \in Names
      BY DEF IInv, TypeOK, Names
    <3>2. CASE Empty \in Range(T)
      BY <1>2, <3>2
    <3>3. CASE Empty \notin Range(T)
      BY <3>1, <3>3, RangeAppend DEF CheckGrammar
    <3> QED  BY <3>2, <3>3
  <2>5. closures' = ComputeClosures(N', P')
    BY <1>1 DEF CheckGrammar, Passes
  <2> QED  BY <2>2, <2>3, <2>4, <2>5
<1> QED  BY <1>1, <1>4, <1>5, <1>6 DEF IInv, OneOfEachName

LEMMA NextInv == ASSUME IInv, [Next]_vars PROVE IInv'
<1>1. CASE \E word \in Axioms : AddAxiom(word)
  BY <1>1, AddAxiomInv
<1>2. CASE \E word \in TerminalNames : AddTerminal(word)
  BY <1>2, AddTerminalInv
<1>3. CASE \E word \in NonterminalNames : AddNonTerminal(word)
  BY <1>3, AddNonTerminalInv
<1>4. CASE \E lhs \in NonterminalNames, rhs \in RightSides, prob \in Shares :
             AddRule(lhs, rhs, prob)
  BY <1>4, AddRuleInv, NamesAssumption
<1>5. CASE Check
  <2>1. parser' \in {"none", "alive", "dead"}
    BY <1>5 DEF Check, IInv, TypeOK
  <2>2. CheckGrammar /\ Verdict("checkGrammar", "ERR_INVPARAM")
    BY <1>5 DEF Check
  <2> QED  BY <2>1, <2>2, CheckGrammarInv
<1>6. CASE NewParser
  <2>1. parser' \in {"none", "alive", "dead"}
    BY <1>6 DEF NewParser
  <2>2. CheckGrammar /\ Verdict("SParser", "invalid_argument")
    BY <1>6 DEF NewParser
  <2> QED  BY <2>1, <2>2, CheckGrammarInv
<1>7. CASE Predict \/ DeleteParser
  <2>1. UNCHANGED <<axiom, T, N, P, closures>> /\ ~CheckedOK'
    BY <1>7 DEF Predict, DeleteParser, Returns, CheckedOK
  <2>2. parser' \in {"none", "alive", "dead"}
    BY <1>7 DEF Predict, DeleteParser
  <2>3. TypeOK'
    BY <2>1, <2>2 DEF IInv, TypeOK
  <2>4. DeclaredBeforeUse'
    BY <2>1, TablesGrow DEF IInv
  <2> QED  BY <2>1, <2>3, <2>4 DEF IInv, Checked, OneOfEachName
<1>8. CASE UNCHANGED vars
  <2>1. TypeOK'
    BY <1>8 DEF vars, IInv, TypeOK
  <2>2. DeclaredBeforeUse'
    BY <1>8, TablesGrow DEF vars, IInv
  <2>3. Checked'
    BY <1>8 DEF vars, IInv, Checked, CheckedOK, WellFormedBut, AddsUp, Readable, NamesOf,
                   Productions
  <2>4. OneOfEachName'
    BY <1>8 DEF vars, IInv, OneOfEachName
  <2> QED  BY <2>1, <2>2, <2>3, <2>4 DEF IInv
<1> QED
  BY <1>1, <1>2, <1>3, <1>4, <1>5, <1>6, <1>7, <1>8 DEF Next, Build, Use, Dead

\* The parts of IInv hold in every state that the calls of a client can reach.
THEOREM Invariant == Spec => []IInv
<1>1. Init => IInv
  BY InitInv
<1>2. IInv /\ [Next]_vars => IInv'
  BY NextInv
<1> QED  BY <1>1, <1>2, PTL DEF Spec

-----------------------------------------------------------------------------
(* The properties *)

\* A grammar's tables keep their types, whatever is called (Grammar.cpp).
THEOREM TypeCorrect == Spec => []TypeOK
<1>1. IInv => TypeOK
  BY DEF IInv
<1> QED  BY <1>1, Invariant, PTL

\* Every symbol of a rule is declared, and as what it was when the rule was
\* added; a nonterminal never has two productions (Grammar::AddRule).
THEOREM RulesAreDeclared == Spec => []DeclaredBeforeUse
<1>1. IInv => DeclaredBeforeUse
  BY DEF IInv
<1> QED  BY <1>1, Invariant, PTL

\* When a check returned OK the grammar is as documented, but for the name ""
\* (Grammar::CheckGrammar, SGrammar::CheckGrammar).
THEOREM ChecksAreRight == Spec => []CheckedIsWellFormed
<1>1. ASSUME IInv, CheckedOK
      PROVE  /\ Empty \in Range(T)
             /\ Range(T) \cap NamesOf(N) \subseteq {Empty}
             /\ axiom.name \in NamesOf(N) \ Range(T)
             /\ \A word \in NamesOf(N) :
                  /\ Len(RulesListed(word)) > 0
                  /\ Whole(RulesListed(word)) = Full
  <2>1. WellFormedBut /\ AddsUp /\ Empty \in Range(T)
    BY <1>1 DEF IInv, Checked
  <2>2. /\ Range(T) \cap NamesOf(N) \subseteq {Empty}
        /\ axiom.name \in NamesOf(N) \ Range(T)
    BY <2>1 DEF WellFormedBut
  <2>3. ASSUME NEW word \in NamesOf(N)
        PROVE  Len(RulesListed(word)) > 0 /\ Whole(RulesListed(word)) = Full
    <3> DEFINE i == First(Productions(word))
    <3>1. Productions(word) # {} /\ i \in DOMAIN P
      BY <1>1, <2>1, <2>3, ProductionFound DEF WellFormedBut, IInv, Productions
    <3>2. RulesListed(word) = P[i].rules
      BY <3>1 DEF RulesListed
    <3>3. P[i].rules \in Seq(RulesOf) /\ P[i].rules # <<>>
      <4>1. P[i] \in ProductionsOf
        BY <1>1, <3>1, LenProperties DEF IInv, TypeOK
      <4> QED  BY <1>1, <3>1, <4>1 DEF IInv, DeclaredBeforeUse, ProductionsOf
    <3>4. Whole(P[i].rules) = Full
      BY <2>1, <3>1 DEF AddsUp
    <3> HIDE DEF i
    <3> QED  BY <3>2, <3>3, <3>4, EmptySeq
  <2> QED  BY <2>1, <2>2, <2>3
<1>2. IInv => CheckedIsWellFormed
  BY <1>1 DEF CheckedIsWellFormed
<1> QED  BY <1>2, Invariant, PTL

\* A second check, with nothing in between, returns OK and changes nothing
\* (SParser::Impl::Impl, which checks again).
THEOREM ChecksAreStable == Spec => RecheckIsStable
<1>1. ASSUME IInv, [Next]_vars, CheckedOK,
             answer'.call \in {"checkGrammar", "SParser"}, Empty \notin NamesOf(N)
      PROVE  answer'.status = "OK" /\ closures' = closures /\ T' = T
  <2>1. WellFormedBut /\ AddsUp /\ Readable /\ Empty \in Range(T)
        /\ closures = ComputeClosures(N, P)
    BY <1>1 DEF IInv, Checked
  <2>2. Passes
    BY <1>1, <2>1 DEF Passes, WellFormed, WellFormedBut
  <2>3. CASE Check \/ NewParser
    BY <2>1, <2>2, <2>3 DEF Check, NewParser, CheckGrammar, Verdict, Returns
  <2>4. CASE UNCHANGED vars
    BY <1>1, <2>4 DEF vars, CheckedOK
  <2>5. ~Build
    <3>1. ASSUME NEW call, NEW status, Returns(call, status)
          PROVE  call \in {"checkGrammar", "SParser"}
      BY <1>1, <3>1 DEF Returns
    <3>2. \A word : ~AddAxiom(word)
      BY <3>1 DEF AddAxiom
    <3>3. \A word : ~AddTerminal(word) /\ ~AddNonTerminal(word)
      BY <3>1 DEF AddTerminal, AddNonTerminal
    <3>4. \A lhs, rhs, prob : ~AddRule(lhs, rhs, prob)
      BY <3>1 DEF AddRule
    <3> QED  BY <3>2, <3>3, <3>4 DEF Build
  <2>6. ~Predict /\ ~DeleteParser
    BY <1>1 DEF Predict, DeleteParser, Returns
  <2> QED  BY <1>1, <2>3, <2>4, <2>5, <2>6 DEF Next, Use, Dead
<1>2. IInv /\ [Next]_vars =>
        [CheckedOK /\ answer'.call \in {"checkGrammar", "SParser"} /\ Empty \notin NamesOf(N) =>
           answer'.status = "OK" /\ closures' = closures /\ T' = T]_vars
  BY <1>1
<1> QED  BY <1>2, Invariant, PTL DEF Spec, RecheckIsStable

\* A call that fails changes nothing that a getter or a parser reads
\* (Grammar::AddRule, CheckGrammar, SParser::Impl::Impl).
THEOREM FailuresAreAtomic == Spec => FailureChangesNothing
<1>1. ASSUME IInv, Next, answer'.status \notin {"OK", "died"}
      PROVE  /\ UNCHANGED <<axiom, N, P, closures, parser>>
             /\ Range(T)' \ {Empty} = Range(T) \ {Empty}
             \/ UNCHANGED vars
  <2>1. CASE \E word \in Axioms : AddAxiom(word)
    BY <1>1, <2>1 DEF AddAxiom, Returns
  <2>2. CASE \E lhs \in NonterminalNames, rhs \in RightSides, prob \in Shares :
               AddRule(lhs, rhs, prob)
    BY <1>1, <2>2 DEF AddRule, Returns
  <2>3. CASE Check \/ NewParser
    <3>1. ~Passes /\ ~Dies
      BY <1>1, <2>3 DEF Check, NewParser, Verdict, Returns
    <3>2. UNCHANGED <<axiom, N, P, closures, parser>>
      BY <2>3, <3>1 DEF Check, NewParser, CheckGrammar
    <3>3. Range(T)' \ {Empty} = Range(T) \ {Empty}
      <4>1. T \in Seq(Names) /\ Empty \in Names
        BY <1>1 DEF IInv, TypeOK, Names
      <4>2. T' = T \/ T' = Append(T, Empty)
        BY <2>3 DEF Check, NewParser, CheckGrammar
      <4>3. CASE T' = Append(T, Empty)
        BY <4>1, <4>3, RangeAppend
      <4> QED  BY <4>2, <4>3
    <3> QED  BY <3>2, <3>3
  <2>4. CASE Dead
    BY <2>4 DEF Dead
  <2>5. ~(\E word \in TerminalNames : AddTerminal(word)) /\
        ~(\E word \in NonterminalNames : AddNonTerminal(word)) /\ ~Predict /\ ~DeleteParser
    BY <1>1 DEF AddTerminal, AddNonTerminal, Predict, DeleteParser, Returns
  <2> QED  BY <1>1, <2>1, <2>2, <2>3, <2>4, <2>5 DEF Next, Build, Use
<1>2. IInv /\ [Next]_vars =>
        [answer'.status \notin {"OK", "died"} =>
           /\ UNCHANGED <<axiom, N, P, closures, parser>>
           /\ Range(T') \ {Empty} = Range(T) \ {Empty}]_vars
  BY <1>1
<1> QED  BY <1>2, Invariant, PTL DEF Spec, FailureChangesNothing

-----------------------------------------------------------------------------
(* The closures *)

\* The terms of the sums that make Pl and Pu, of one production's rules: as they are
\* computed, by name and type, and as they are listed, by name alone.
Begins(rule, name) == rule.rhs[1].type = "NONTERMINAL" /\ rule.rhs[1].name = name
CornerTerms(rules, name) ==
  [r \in DOMAIN rules |-> IF Begins(rules[r], name) THEN rules[r].prob ELSE 0]
UnitTerms(rules, name) ==
  [r \in DOMAIN rules |-> IF Begins(rules[r], name) /\ Len(rules[r].rhs) = 1
                            THEN rules[r].prob ELSE 0]
CornerListed(rules, name) ==
  [r \in DOMAIN rules |-> IF rules[r].rhs[1].name = name THEN rules[r].prob ELSE 0]
UnitListed(rules, name) ==
  [r \in DOMAIN rules |-> IF rules[r].rhs[1].name = name /\ Len(rules[r].rhs) = 1
                            THEN rules[r].prob ELSE 0]

\* A sum over the productions of one nonterminal has one term: its production's.
LEMMA OneProductionCounts ==
  ASSUME TypeOK, DeclaredBeforeUse, NEW word, Productions(word) # {}, NEW part,
         \A p \in DOMAIN P : part[p] \in Nat
  PROVE  SumFunction([p \in DOMAIN P |-> IF P[p].lhs.name = word THEN part[p] ELSE 0])
           = part[First(Productions(word))]
<1> DEFINE t == [p \in DOMAIN P |-> IF P[p].lhs.name = word THEN part[p] ELSE 0]
           k == First(Productions(word))
<1>1. k \in DOMAIN P /\ P[k].lhs.name = word
  BY ProductionFound DEF Productions
<1>2. IsFiniteSet(DOMAIN P)
  <2>1. DOMAIN P = 1..Len(P) /\ Len(P) \in Nat
    BY LenProperties DEF TypeOK
  <2> QED  BY <2>1, FS_Interval
<1>3. DOMAIN t = DOMAIN P /\ t[k] = part[k] /\ t[k] \in Nat
  BY <1>1
<1>4. \A j \in DOMAIN t \ {k} : t[j] = 0
  BY <1>1 DEF DeclaredBeforeUse
<1> HIDE DEF t, k
<1>5. SumFunction(t) = t[k]
  BY <1>1, <1>2, <1>3, <1>4, SumOfOneTerm
<1> QED  BY <1>3, <1>5 DEF t, k

\* The terms are natural numbers, and so are their sums.
LEMMA PartsAreNatural ==
  ASSUME NEW rules \in Seq(RulesOf), NEW name
  PROVE  /\ SumFunction(CornerTerms(rules, name)) \in Nat
         /\ SumFunction(UnitTerms(rules, name)) \in Nat
<1>1. DOMAIN rules = 1..Len(rules) /\ Len(rules) \in Nat
      /\ \A r \in DOMAIN rules : rules[r].prob \in Nat
  <2>1. DOMAIN rules = 1..Len(rules) /\ Len(rules) \in Nat
        /\ \A r \in DOMAIN rules : rules[r] \in RulesOf
    BY LenProperties
  <2> QED  BY <2>1, SharesAssumption DEF RulesOf
<1>2. IsFiniteSet(DOMAIN rules)
  BY <1>1, FS_Interval
<1>3. /\ DOMAIN CornerTerms(rules, name) = DOMAIN rules
      /\ DOMAIN UnitTerms(rules, name) = DOMAIN rules
      /\ \A r \in DOMAIN rules : /\ CornerTerms(rules, name)[r] \in Nat
                                 /\ UnitTerms(rules, name)[r] \in Nat
  BY <1>1 DEF CornerTerms, UnitTerms
<1> QED  BY <1>2, <1>3, SumIsNatural

\* A nonterminal's token says that it is one, once every nonterminal has a production.
LEMMA NonterminalTyped ==
  ASSUME TypeOK, OneOfEachName, DeclaredBeforeUse, WellFormedBut, NEW token \in Range(N)
  PROVE  token.type = "NONTERMINAL"
<1>1. token.name \in NamesOf(N)
  BY DEF NamesOf
<1>2. PICK p \in DOMAIN P : P[p].lhs.name = token.name
  BY <1>1 DEF WellFormedBut, Productions
<1>3. P[p].lhs \in Range(N) /\ P[p].lhs.type = "NONTERMINAL"
  BY DEF DeclaredBeforeUse, WellFormedBut
<1>4. PICK i \in DOMAIN N, j \in DOMAIN N : token = N[i] /\ P[p].lhs = N[j]
  BY <1>3 DEF Range
<1> QED  BY <1>2, <1>3, <1>4 DEF OneOfEachName

\* The type that was recorded with a symbol still says in which table it is.
LEMMA TypesAgree ==
  ASSUME TypeOK, OneOfEachName, DeclaredBeforeUse, WellFormedBut, Readable,
         NEW p \in DOMAIN P, NEW r \in DOMAIN P[p].rules,
         NEW name \in NamesOf(N), name # Empty
  PROVE  Begins(P[p].rules[r], name) <=> P[p].rules[r].rhs[1].name = name
<1> DEFINE rule == P[p].rules[r]
           token == rule.rhs[1]
<1>1. rule \in Range(P[p].rules)
  BY DEF Range
<1>2. rule \in RulesOf /\ rule.rhs # <<>> /\ SymbolsDeclared(rule)
  <2>1. P[p] \in ProductionsOf
    BY LenProperties DEF TypeOK
  <2>2. P[p].rules \in Seq(RulesOf)
    BY <2>1 DEF ProductionsOf
  <2>3. rule \in RulesOf
    BY <2>2, LenProperties
  <2> QED  BY <1>1, <2>3 DEF Readable, DeclaredBeforeUse
<1>3. token \in Range(rule.rhs)
  <2>1. rule.rhs \in Seq(Tokens)
    BY <1>2 DEF RulesOf
  <2>2. 1 \in DOMAIN rule.rhs
    <3>1. Len(rule.rhs) \in Nat /\ DOMAIN rule.rhs = 1..Len(rule.rhs) /\ Len(rule.rhs) # 0
      BY <1>2, <2>1, LenProperties, EmptySeq
    <3> QED  BY <3>1
  <2> QED  BY <2>2 DEF Range
<1>4. ASSUME token.name = name PROVE token.type = "NONTERMINAL"
  <2>1. CASE token.type = "TERMINAL"
    <3>1. name \in Range(T)
      BY <1>2, <1>3, <1>4, <2>1 DEF SymbolsDeclared
    <3> QED  BY <3>1 DEF WellFormedBut
  <2>2. CASE token.type # "TERMINAL"
    BY <1>2, <1>3, <2>2, NonterminalTyped DEF SymbolsDeclared
  <2> QED  BY <2>1, <2>2
<1> QED  BY <1>4 DEF Begins

\* One cell of each matrix.
LEMMA CellRight ==
  ASSUME IInv, CheckedOK, NEW i \in DOMAIN N, NEW j \in DOMAIN N, N[j].name # Empty
  PROVE  LET rules == RulesListed(N[i].name) IN
         /\ closures.pl[i][j] = SumFunction(CornerListed(rules, N[j].name))
         /\ closures.pu[i][j] = SumFunction(UnitListed(rules, N[j].name))
<1> DEFINE left == N[i].name
           name == N[j].name
           k == First(Productions(left))
           corners == [p \in DOMAIN P |-> SumFunction(CornerTerms(P[p].rules, name))]
           units == [p \in DOMAIN P |-> SumFunction(UnitTerms(P[p].rules, name))]
<1>1. /\ TypeOK /\ OneOfEachName /\ DeclaredBeforeUse /\ WellFormedBut /\ Readable
      /\ closures = ComputeClosures(N, P)
  BY DEF IInv, Checked
<1>2. left \in NamesOf(N) /\ name \in NamesOf(N)
  BY DEF NamesOf, Range
<1>3. Productions(left) # {} /\ k \in DOMAIN P
  BY <1>1, <1>2, ProductionFound DEF WellFormedBut, Productions
<1>4. \A p \in DOMAIN P : corners[p] \in Nat /\ units[p] \in Nat
  <2> TAKE p \in DOMAIN P
  <2>1. P[p] \in ProductionsOf
    BY <1>1, LenProperties DEF TypeOK
  <2>2. P[p].rules \in Seq(RulesOf)
    BY <2>1 DEF ProductionsOf
  <2> QED  BY <2>2, PartsAreNatural
<1>5. /\ closures.pl[i][j] =
           SumFunction([p \in DOMAIN P |-> IF P[p].lhs.name = left THEN corners[p] ELSE 0])
      /\ closures.pu[i][j] =
           SumFunction([p \in DOMAIN P |-> IF P[p].lhs.name = left THEN units[p] ELSE 0])
  <2>1. /\ [p \in DOMAIN P |-> IF P[p].lhs.name = left THEN corners[p] ELSE 0]
           = [p \in DOMAIN P |-> IF P[p].lhs.name = left
                THEN SumFunction(CornerTerms(P[p].rules, name)) ELSE 0]
        /\ [p \in DOMAIN P |-> IF P[p].lhs.name = left THEN units[p] ELSE 0]
           = [p \in DOMAIN P |-> IF P[p].lhs.name = left
                THEN SumFunction(UnitTerms(P[p].rules, name)) ELSE 0]
    OBVIOUS
  <2>2. closures.pl[i][j] =
          SumFunction([p \in DOMAIN P |-> IF P[p].lhs.name = left
                         THEN SumFunction(CornerTerms(P[p].rules, name)) ELSE 0])
    BY <1>1 DEF ComputeClosures, Pl, Entry, Part, CornerTerms, Begins
  <2>3. closures.pu[i][j] =
          SumFunction([p \in DOMAIN P |-> IF P[p].lhs.name = left
                         THEN SumFunction(UnitTerms(P[p].rules, name)) ELSE 0])
    BY <1>1 DEF ComputeClosures, Pu, Entry, Part, UnitTerms, Begins
  <2> HIDE DEF corners, units
  <2> QED  BY <2>1, <2>2, <2>3
<1>6. closures.pl[i][j] = corners[k] /\ closures.pu[i][j] = units[k]
  <2> HIDE DEF corners, units, left, k
  <2>1. First(Productions(left)) = k
    BY DEF k
  <2> QED  BY <1>1, <1>3, <1>4, <1>5, <2>1, OneProductionCounts
<1>7. RulesListed(left) = P[k].rules
  BY <1>3 DEF RulesListed
<1>8. \A r \in DOMAIN P[k].rules :
        Begins(P[k].rules[r], name) <=> P[k].rules[r].rhs[1].name = name
  BY <1>1, <1>2, <1>3, TypesAgree
<1>9. /\ CornerTerms(P[k].rules, name) = CornerListed(P[k].rules, name)
      /\ UnitTerms(P[k].rules, name) = UnitListed(P[k].rules, name)
  <2> HIDE DEF k, name
  <2> QED  BY <1>8 DEF CornerTerms, CornerListed, UnitTerms, UnitListed
<1>10. /\ corners[k] = SumFunction(CornerTerms(P[k].rules, name))
       /\ units[k] = SumFunction(UnitTerms(P[k].rules, name))
  BY <1>3
<1> HIDE DEF corners, units, k
<1> QED  BY <1>6, <1>7, <1>9, <1>10

\* The matrices of a grammar that was just checked are made of its listed rules,
\* for each two nonterminals: the type that AddRule recorded with a symbol, by which
\* ComputeClosures goes, still agrees with the tables (SGrammar::ComputeClosures).
THEOREM ClosuresAreRight == Spec => []ClosuresRight
<1>1. ASSUME IInv, CheckedOK PROVE closures.size = Len(N)
  BY <1>1 DEF IInv, Checked, ComputeClosures
<1>2. ASSUME IInv, CheckedOK, NEW i \in DOMAIN N, NEW j \in DOMAIN N, N[j].name # Empty
      PROVE  LET corner(rule) == rule.rhs[1].name = N[j].name
                 unit(rule) == corner(rule) /\ Len(rule.rhs) = 1
                 rules == RulesListed(N[i].name)
             IN /\ closures.pl[i][j] = Part(rules, corner)
                /\ closures.pu[i][j] = Part(rules, unit)
  <2>1. LET rules == RulesListed(N[i].name) IN
        /\ closures.pl[i][j] = SumFunction(CornerListed(rules, N[j].name))
        /\ closures.pu[i][j] = SumFunction(UnitListed(rules, N[j].name))
    BY <1>2, CellRight
  <2> QED  BY <2>1 DEF Part, CornerListed, UnitListed
<1>3. IInv => ClosuresRight
  BY <1>1, <1>2 DEF ClosuresRight
<1> QED  BY <1>3, Invariant, PTL
=============================================================================
