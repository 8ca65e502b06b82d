--------------------------- MODULE ChartReference ---------------------------
(***************************************************************************)
(* What the numbers of the chart mean, stated without a chart: from the    *)
(* parse trees of the grammar, which must be finitely many, or, for any    *)
(* grammar without cycles of unit rules, from the ways to derive a span of *)
(* the input.  The properties compare the two.  Marks are not considered:  *)
(* they hold of inputs whose marks filter nothing.                         *)
(***************************************************************************)
EXTENDS Chart

Best(v, w) == IF Less(v, w) THEN w ELSE v
Sum(f, S) == FoldFunctionOnSet(Plus, Zero, f, S)
\* All of the alternatives together, or the best of them alone.
Combine(best, f) == IF best THEN FoldFunction(Best, Zero, f)
                    ELSE FoldFunction(Plus, Zero, f)
RulesOf(X) == {r \in DOMAIN Rules : Rules[r].lhs = X}

-----------------------------------------------------------------------------
(* Spans.  Inputs i + 1 to j of the lines are the span <<i, j>>. *)

\* The probability that token t was observed as input i.
Seen(lines, i, t) ==
  LET tokens == {n \in DOMAIN lines[i] : lines[i][n].name = t}
  IN IF tokens = {} THEN Zero ELSE lines[i][Min(tokens)].prob

\* All derivations of a span from a symbol, or from a string of them: how
\* likely they are together, or the likeliest alone.
RECURSIVE Inside(_, _, _, _, _), InsideAll(_, _, _, _, _)
Inside(best, lines, X, i, j) ==
  IF X \notin Nonterminals
    THEN IF j = i + 1 THEN Seen(lines, j, X) ELSE Zero
    ELSE LET f == [r \in RulesOf(X) |->
                     Times(Rules[r].prob, InsideAll(best, lines, Rules[r].rhs, i, j))]
         IN Combine(best, f)
InsideAll(best, lines, rhs, i, j) ==
  IF Len(rhs) > j - i THEN Zero
  ELSE IF rhs = <<>> THEN IF i = j THEN One ELSE Zero
  ELSE IF Len(rhs) = 1 THEN Inside(best, lines, rhs[1], i, j)
  ELSE LET f == [m \in i + 1 .. j - 1 |->
                   Times(Inside(best, lines, rhs[1], i, m),
                         InsideAll(best, lines, Tail(rhs), m, j))]
       IN Combine(best, f)

RuleProb(item) ==
  IF item.lhs = Empty THEN One
  ELSE Sum([r \in DOMAIN Rules |-> Rules[r].prob],
           {r \in RulesOf(item.lhs) : Rules[r].rhs = item.rhs})

Lines == IF pc = "read" THEN Append(input, line) ELSE input
Before(item) == SubSeq(item.rhs, 1, item.dot)

\* gamma is the inner probability: of the rule, and of deriving the inputs from
\* K to the cell from the symbols before the dot, all derivations together.
\* exp(V) is that of the likeliest derivation (SCell::Complete, AddState).
GammaIsInside ==
  Filled => \A s \in Range(Here.states) :
    s.gamma = Times(RuleProb(s.item),
                    InsideAll(FALSE, Lines, Before(s.item), s.item.k, Len(Lines)))
VIsBest ==
  Filled => \A s \in Range(Here.states) :
    s.v = Times(RuleProb(s.item),
                InsideAll(TRUE, Lines, Before(s.item), s.item.k, Len(Lines)))

\* How strongly the states of cell k that are not predicted themselves expect a
\* nonterminal there.
Expected(k, X) ==
  LET ss == cells[k + 1].states
      kernel == {i \in DOMAIN ss : /\ ss[i].label # "predicted" /\ ~Finished(ss[i])
                                   /\ After(ss[i]) \in Nonterminals}
  IN Sum([i \in kernel |-> Times(ss[i].alpha, Rl[After(ss[i])][X])], kernel)

\* alpha is the forward probability: what the earlier inputs expect of a state's
\* nonterminal where the state starts, times its inner probability.
AlphaIsForward ==
  Filled => \A s \in Range(Here.states) :
    s.alpha = IF s.item.lhs = Empty THEN s.gamma
              ELSE Times(Expected(s.item.k, s.item.lhs), s.gamma)

\* The items of a cell are those of Earley's algorithm without closures: none is
\* missed and none is there for nothing.
ItemsAreEarley ==
  Filled => 
    {s.item : s \in {t \in Range(Here.states) : t.item.lhs # Empty}} =
    {item \in UNION {{[k |-> k, dot |-> d, lhs |-> Rules[r].lhs, rhs |-> Rules[r].rhs] :
                         k \in 0..Len(Lines), d \in 0..Len(Rules[r].rhs)} :
                       r \in DOMAIN Rules} :
       /\ Positive(Expected(item.k, item.lhs))
       /\ Positive(InsideAll(FALSE, Lines, Before(item), item.k, Len(Lines)))}

-----------------------------------------------------------------------------
(* Sentences, for grammars that derive finitely many. *)

RECURSIVE Trees(_), Forests(_)
Trees(X) == UNION {{[rule |-> r, kids |-> kids] : kids \in Forests(Rules[r].rhs)} :
                     r \in RulesOf(X)}
Forests(rhs) ==
  IF rhs = <<>> THEN {<<>>}
  ELSE IF Head(rhs) \notin Nonterminals THEN Forests(Tail(rhs))
  ELSE {<<tree>> \o kids : tree \in Trees(Head(rhs)), kids \in Forests(Tail(rhs))}

RECURSIVE Yield(_), Prob(_)
Yield(tree) ==
  FoldLeft(LAMBDA done, symbol :
             IF symbol \in Nonterminals
               THEN [done EXCEPT !.used = @ + 1,
                                 !.yield = @ \o Yield(tree.kids[done.used + 1])]
               ELSE [done EXCEPT !.yield = Append(@, symbol)],
           [used |-> 0, yield |-> <<>>], Rules[tree.rule].rhs).yield
Prob(tree) == FoldLeft(LAMBDA prod, kid : Times(prod, Prob(kid)),
                       Rules[tree.rule].prob, tree.kids)

\* Every parse tree there is, with the sentence it derives.
Sentences == {[tree |-> tree, yield |-> Yield(tree), prob |-> Prob(tree)] :
                tree \in Trees(Axiom)}

\* That the sentence was generated and observed as far as the lines go.
Joint(sentence, lines) ==
  FoldLeft(LAMBDA prod, i : Times(prod, Seen(lines, i, sentence.yield[i])),
           sentence.prob, [i \in DOMAIN lines |-> i])
Total(sentences, lines) ==
  Sum([s \in sentences |-> Joint(s, lines)], sentences)
LongerThan(n) == {s \in Sentences : Len(s.yield) > n}

\* The alphas of the states just scanned add up to the probability that the
\* grammar generates some sentence that begins with what was observed.
PrefixProbability ==
  pc = "idle" /\ input # <<>> =>
    LET ss == Here.states
        scanned == {i \in DOMAIN ss : ss[i].label = "scanned"}
    IN Sum([i \in scanned |-> ss[i].alpha], scanned) =
         Total(LongerThan(Len(input) - 1), input)

\* getPrediction answers with the distribution of the next terminal, given what
\* was observed and that the sentence goes on.
PredictionIsConditional ==
  pc = "idle" /\ answer.query = "prediction" =>
    LET goesOn == LongerThan(Len(input))
        next(t) == {s \in goesOn : s.yield[Len(input) + 1] = t}
        told(t) == LET named == SelectSeq(answer.line, LAMBDA p : p.name = t)
                   IN IF named = <<>> THEN Zero ELSE Head(named).prob
    IN \A t \in Range(Terminals) :
         Times(told(t), Total(goesOn, input)) = Total(next(t), input)

\* getViterbiParse answers with the probability of the likeliest parse tree of
\* the whole input; the gamma of its root is that of all of them together; and
\* it finds none only if there is none.
ViterbiIsBest ==
  pc \in {"idle", "dead"} /\ answer.query = "viterbi" =>
    LET whole == {s \in Sentences : Len(s.yield) = Len(input)}
        best  == FoldFunction(Best, Zero, [s \in whole |-> Joint(s, input)])
    IN IF answer.kids = <<>> THEN best = Zero
       ELSE answer.v = best /\ answer.gamma = Total(whole, input)

\* V is the score of the derivation that a state's children record, the unit
\* rules between a child and the nonterminal it stands for included: merging
\* never leaves the one behind the other (SCell::AddState).
Score(s) ==
  FoldLeft(LAMBDA done, symbol :
             IF symbol \notin Nonterminals
               THEN [done EXCEPT !.at = @ + 1,
                                 !.prod = Times(@, Seen(Lines, done.at + 1, symbol))]
             ELSE LET kid == s.kids[done.used + 1]
                      v == StateOf(cells[kid.cell + 1].states, kid.item).v
                  IN [at |-> kid.cell, used |-> done.used + 1,
                      prod |-> Times(done.prod, Times(Ru[symbol][kid.item.lhs], v))],
           [at |-> s.item.k, used |-> 0, prod |-> RuleProb(s.item)],
           Before(s.item)).prod
ChildrenScoreV ==
  Filled => \A c \in Range(cells) : \A s \in Range(c.states) : s.v = Score(s)
=============================================================================
