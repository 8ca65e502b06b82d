---------------------------- MODULE PythonLoader ----------------------------
(***************************************************************************)
(* loadGrammar of the Python package (monkeypatch.py): the whole file is   *)
(* split into sections first, and a malformed one raises before anything   *)
(* is added.  Then the calls of the grammar follow: all terminals,         *)
(* nonterminals and axioms, and only then the rules.                       *)
(***************************************************************************)
EXTENDS GrammarFile, SequenceFile

VARIABLE calls     \* the calls of the grammar that are still to be made

\* A variable of the loader that is None
None == [given |-> FALSE]
Some(v) == [given |-> TRUE, value |-> v]

\* getTokens: without the comments
Tokenize(stream) == SelectSeq(stream.words, LAMBDA w : ~Is(w, "#"))

\* float(): of a whole word, and of one without its first and last character
IsFloat(w) == Spelled[w].kind = "number" /\ ~Is(w, "[") /\ ~Closes(w, "]") /\ ~Closes(w, ":")
IsFloatInside(w) == Spelled[w].kind = "number" /\ Is(w, "[") /\ Closes(w, "]")

\* The locals of splitProductions
NoProduction == [done |-> <<>>, prev |-> None, lhs |-> None, rhs |-> <<>>,
                 prob |-> None, nextIsProb |-> FALSE, raised |-> FALSE]
IsEmpty(p) == ~p.lhs.given /\ p.rhs = <<>> /\ ~p.prob.given
IsComplete(p) == p.lhs.given /\ p.rhs # <<>> /\ p.prob.given
Raised(p) == [p EXCEPT !.raised = TRUE]
Finished(p, prob) ==
  [NoProduction EXCEPT !.done = Append(p.done, [lhs |-> p.lhs, rhs |-> p.rhs, prob |-> prob]),
                       !.prev = p.lhs]

\* One turn of its loop.  What follows [ must be a float and then ], both words of
\* their own; in "[x]" the closing bracket is cut off without a look.
SplitStep(p, w) ==
  CASE p.raised -> p
    [] Closes(w, ":") ->
         IF IsEmpty(p) THEN [p EXCEPT !.lhs = Some(Spelled[w].stem)] ELSE Raised(p)
    [] w = "|" ->
         IF p.prev.given /\ IsEmpty(p) THEN [p EXCEPT !.lhs = p.prev] ELSE Raised(p)
    [] w = "[" -> [p EXCEPT !.nextIsProb = TRUE]
    [] p.nextIsProb /\ ~p.prob.given ->
         IF IsFloat(w) THEN [p EXCEPT !.prob = Some(Spelled[w].share)] ELSE Raised(p)
    [] ~p.nextIsProb /\ Is(w, "[") ->
         IF IsFloatInside(w) THEN Finished(p, Spelled[w].share) ELSE Raised(p)
    [] p.nextIsProb /\ w = "]" ->
         IF IsComplete(p) THEN Finished(p, p.prob.value) ELSE Raised(p)
    [] p.nextIsProb -> Raised(p)
    [] OTHER -> [p EXCEPT !.rhs = Append(@, w)]
SplitProductions(words) ==
  CHOOSE end \in {IF IsEmpty(p) THEN p ELSE Raised(p) :
                    p \in FoldLeft(LAMBDA ps, w : {SplitStep(p, w) : p \in ps},
                                   {NoProduction}, words)} : TRUE

\* separate: a section is what follows one "Section", up to the next.
SectionsOf(tokens) ==
  LET IsStart(i) == tokens[i] = "Section"
      starts == SelectSeq([i \in DOMAIN tokens |-> i], IsStart)
      end(k) == IF k = Len(starts) THEN Len(tokens) ELSE starts[k + 1] - 1
  IN [k \in DOMAIN starts |-> SubSeq(tokens, starts[k] + 1, end(k))]
Under(sections, name) ==
  FlattenSeq([k \in DOMAIN sections |->
                IF sections[k][1] = name THEN Tail(sections[k]) ELSE <<>>])
ProductionsUnder(sections) ==
  FlattenSeq([k \in DOMAIN sections |->
                IF sections[k][1] = "Productions"
                  THEN SplitProductions(Tail(sections[k])).done ELSE <<>>])
Raises(tokens, sections) ==
  \/ tokens = <<>> \/ tokens[1] # "Section"
  \/ \E s \in Range(sections) :
       \/ s = <<>> \/ s[1] \notin Sections
       \/ s[1] = "Productions" /\ SplitProductions(Tail(s)).raised

Call(name, w) == [call |-> name, word |-> w]

CallsOf(sections) ==
  LET named(call, name) ==
        LET words == Under(sections, name) IN [k \in DOMAIN words |-> Call(call, words[k])]
      rules == ProductionsUnder(sections)
  IN named("addTerminal", "Terminals") \o named("addNonTerminal", "NonTerminals")
     \o named("addAxiom", "Axiom")
     \o [k \in DOMAIN rules |-> [call |-> "addRule", rule |-> rules[k]]]

\* parseLine
\* Too few words and one that is no number raise, more than are needed are ignored.
LineRaises(line, names, size) ==
  \E m \in 1..size * Len(names) : m > Len(line) \/ ~IsFloat(line[m])
LineOf(line, names, size) ==
  [j \in DOMAIN names |-> Observed(names[j], SubSeq(line, size * (j - 1) + 1, size * j))]

-----------------------------------------------------------------------------
\* A call of loadGrammar, for a grammar that has nothing yet
PythonStarts(stream) ==
  LET tokens == Tokenize(stream)
      sections == SectionsOf(tokens)
  IN IF Raises(tokens, sections)
       THEN calls' = <<>> /\ loaded' = "raised"
       ELSE calls' = CallsOf(sections) /\ loaded' = "reading"

PythonCall ==
  /\ loaded = "reading" /\ calls # <<>>
  /\ LET c == Head(calls)
     IN \/ c.call = "addTerminal" /\ AddTerminal(c.word)
        \/ c.call = "addNonTerminal" /\ AddNonTerminal(c.word)
        \/ c.call = "addAxiom" /\ AddAxiom(c.word)
        \/ c.call = "addRule" /\ c.rule.lhs.given
             /\ AddRule(c.rule.lhs.value, c.rule.rhs, c.rule.prob)
  /\ IF answer'.status = "OK"
       THEN calls' = Tail(calls) /\ UNCHANGED loaded
       ELSE calls' = <<>> /\ loaded' = answer'.status
  /\ UNCHANGED <<file, at, phase, section, localVars>>

\* The bindings cannot make a string of None.
PythonCallRaises ==
  /\ loaded = "reading" /\ calls # <<>>
  /\ Head(calls).call = "addRule" /\ ~Head(calls).rule.lhs.given
  /\ calls' = <<>> /\ loaded' = "raised"
  /\ UNCHANGED <<file, at, phase, section, localVars, GrammarVars>>

PythonDone ==
  /\ loaded = "reading" /\ calls = <<>>
  /\ loaded' = "OK"
  /\ UNCHANGED <<file, at, phase, section, localVars, GrammarVars, calls>>
=============================================================================
