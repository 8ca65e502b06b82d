------------------------------ MODULE MCChart ------------------------------
(* Grammars and observations on which charts are checked. *)
EXTENDS ChartReference, Rational, Closures

Rule(lhs, rhs, m, n) == [lhs |-> lhs, rhs |-> rhs, prob |-> <<m, n>>]
Tok(name, m, n) == [prob |-> <<m, n>>, name |-> name, low |-> 0, high |-> 0]
MCTerminals == <<"a", "b">>

\* The closures are written out, so that they are not computed for every state.
ASSUME ClosureAssumption == Rl = MakeR(Pl(Rules)) /\ Ru = MakeR(Pu(Rules))

-----------------------------------------------------------------------------
\* Left and right recursive, ambiguous, with a unit rule into the recursion.
SpanRules == <<Rule("S", <<"S", "S">>, 1, 2), Rule("S", <<"A">>, 1, 4),
               Rule("S", <<"a">>, 1, 4),
               Rule("A", <<"b">>, 3, 4), Rule("A", <<"a", "S">>, 1, 4)>>
SpanRl == [S |-> [S |-> <<2, 1>>, A |-> <<1, 2>>],
           A |-> [S |-> <<0, 1>>, A |-> <<1, 1>>]]
SpanRu == [S |-> [S |-> <<1, 1>>, A |-> <<1, 4>>],
           A |-> [S |-> <<0, 1>>, A |-> <<1, 1>>]]
SpanObservations == {<<Tok("a", 1, 1)>>,
                     <<Tok("b", 1, 2), Tok("a", 1, 2), Tok("b", 1, 4)>>,
                     <<Tok("b", 1, 1), Tok("a", 0, 1)>>, <<Tok("c", 1, 1)>>}

-----------------------------------------------------------------------------
\* Finitely many sentences of two to four terminals, many with several parses.
SentenceRules ==
  <<Rule("S", <<"A", "B">>, 1, 2), Rule("S", <<"C">>, 1, 2),
    Rule("A", <<"a">>, 1, 2), Rule("A", <<"b">>, 1, 2),
    Rule("B", <<"a">>, 1, 4), Rule("B", <<"b">>, 1, 4), Rule("B", <<"A", "a">>, 1, 2),
    Rule("C", <<"a", "A">>, 1, 2), Rule("C", <<"B", "B">>, 1, 2)>>
SentenceRl == [S |-> [S |-> <<1, 1>>, A |-> <<5, 8>>, B |-> <<1, 4>>, C |-> <<1, 2>>],
               A |-> [S |-> <<0, 1>>, A |-> <<1, 1>>, B |-> <<0, 1>>, C |-> <<0, 1>>],
               B |-> [S |-> <<0, 1>>, A |-> <<1, 2>>, B |-> <<1, 1>>, C |-> <<0, 1>>],
               C |-> [S |-> <<0, 1>>, A |-> <<1, 4>>, B |-> <<1, 2>>, C |-> <<1, 1>>]]
SentenceRu == [S |-> [S |-> <<1, 1>>, A |-> <<0, 1>>, B |-> <<0, 1>>, C |-> <<1, 2>>],
               A |-> [S |-> <<0, 1>>, A |-> <<1, 1>>, B |-> <<0, 1>>, C |-> <<0, 1>>],
               B |-> [S |-> <<0, 1>>, A |-> <<0, 1>>, B |-> <<1, 1>>, C |-> <<0, 1>>],
               C |-> [S |-> <<0, 1>>, A |-> <<0, 1>>, B |-> <<0, 1>>, C |-> <<1, 1>>]]
SentenceObservations == {<<Tok("a", 3, 4), Tok("b", 1, 4)>>,
                         <<Tok("b", 1, 2), Tok("a", 1, 8)>>}

-----------------------------------------------------------------------------
\* Two constituents in a row, of which the first may be a SKIP of any length.
MarkRules == <<Rule("S", <<"A", "B">>, 1, 2), Rule("S", <<"SKIP", "B">>, 1, 2),
               Rule("A", <<"a">>, 1, 2), Rule("A", <<"a", "a">>, 1, 2),
               Rule("B", <<"b">>, 1, 2), Rule("B", <<"A", "b">>, 1, 2),
               Rule("SKIP", <<"a">>, 1, 2), Rule("SKIP", <<"SKIP", "a">>, 1, 2)>>
MarkRl ==
  [S    |-> [S |-> <<1, 1>>, A |-> <<1, 2>>, B |-> <<0, 1>>, SKIP |-> <<1, 1>>],
   A    |-> [S |-> <<0, 1>>, A |-> <<1, 1>>, B |-> <<0, 1>>, SKIP |-> <<0, 1>>],
   B    |-> [S |-> <<0, 1>>, A |-> <<1, 2>>, B |-> <<1, 1>>, SKIP |-> <<0, 1>>],
   SKIP |-> [S |-> <<0, 1>>, A |-> <<0, 1>>, B |-> <<0, 1>>, SKIP |-> <<2, 1>>]]
MarkRu ==
  [X \in DOMAIN MarkRl |-> [Y \in DOMAIN MarkRl |-> IF X = Y THEN <<1, 1>> ELSE <<0, 1>>]]
Timed(name, low, high) == [prob |-> <<1, 2>>, name |-> name, low |-> low, high |-> high]
\* Ends and starts on both sides of the slack, and a mark of zero.
MarkObservations == {<<Timed("a", 10, 20), Timed("b", 9, 20)>>,
                     <<Timed("a", 9, 21), Timed("b", 8, 0)>>}

-----------------------------------------------------------------------------
\* A unit rule over a nonterminal whose likelier derivation completes later.
LateRules == <<Rule("S", <<"Y">>, 1, 1), Rule("Y", <<"a", "b">>, 1, 4),
               Rule("Y", <<"a", "C">>, 3, 4), Rule("C", <<"b">>, 1, 1)>>
LateR == [S |-> [S |-> <<1, 1>>, Y |-> <<1, 1>>, C |-> <<0, 1>>],
          Y |-> [S |-> <<0, 1>>, Y |-> <<1, 1>>, C |-> <<0, 1>>],
          C |-> [S |-> <<0, 1>>, Y |-> <<0, 1>>, C |-> <<1, 1>>]]

\* Two chains of unit rules from S to D.
DiamondRules == <<Rule("S", <<"B">>, 1, 2), Rule("S", <<"D">>, 1, 2),
                  Rule("B", <<"D">>, 1, 1), Rule("D", <<"a">>, 1, 1)>>
DiamondR == [S |-> [S |-> <<1, 1>>, B |-> <<1, 2>>, D |-> <<1, 1>>],
             B |-> [S |-> <<0, 1>>, B |-> <<1, 1>>, D |-> <<1, 1>>],
             D |-> [S |-> <<0, 1>>, B |-> <<0, 1>>, D |-> <<1, 1>>]]

\* A unit rule from S to itself.
LoopRules == <<Rule("S", <<"S">>, 1, 2), Rule("S", <<"a">>, 1, 2)>>
LoopR == [S |-> [S |-> <<2, 1>>]]

-----------------------------------------------------------------------------
\* What the theorems about children ask of a grammar holds of all of these, and of one
\* what they ask of a grammar without unit rules.
ASSUME UnitsAssumption == UnitsApart /\ (Rules = MarkRules => Unitless)

Certain == {<<Tok(t, 1, 1)>> : t \in {"a", "b"}}
=============================================================================
