----------------------------- MODULE GrammarFile -----------------------------
(***************************************************************************)
(* Stream::loadGrammar: a grammar file is read word by word, and each word *)
(* is at once a call of the grammar, so that a file that turns out to be   *)
(* wrong leaves a part of it behind.  One step is one turn of the loop of  *)
(* loadGrammar or of loadProduction.                                       *)
(***************************************************************************)
EXTENDS GrammarBuilder, WordStream

ASSUME FileAssumption ==
  /\ Words \subseteq (Axioms \cap TerminalNames \cap NonterminalNames) \ {Empty}
  /\ \A word \in Words : /\ Spelled[word].stem \in NonterminalNames
                         /\ Spelled[word].share \in Shares
  /\ 0 \in Shares

VARIABLES
  file, at,      \* the stream, and the place of the last word that was read
  phase,         \* where the loops are
  section,       \* currentSection
  lhs, rhs, share, closed,  \* the locals of loadProduction
  loaded         \* what loadGrammar returned

localVars == <<lhs, rhs, share, closed>>
readerVars == <<file, at, phase, section, localVars, loaded>>

Sections == {"Terminals", "NonTerminals", "Productions", "Axiom"}
GrammarVars == <<axiom, T, N, P, closures, parser, answer>>

\* getTerminals
NamedTerminals == Entries(T, {i \in DOMAIN T : T[i] # Empty})

\* The probability of loadProduction before anything is assigned to it
Unset == -1

word == file.words[at]
next == NextWord(file, at)
nextWord == file.words[next]

LoadEnds(status) == phase' = "done" /\ loaded' = status
LoadGoesOn(where) == phase' = where /\ UNCHANGED loaded

-----------------------------------------------------------------------------
(* loadGrammar *)

\* readNextWord at the top of the loop
ReadWord ==
  /\ phase = "read"
  /\ IF next = 0 THEN LoadGoesOn("check") /\ UNCHANGED at
     ELSE LoadGoesOn("word") /\ at' = next
  /\ UNCHANGED <<file, section, localVars, GrammarVars>>

\* Faulty: the word after the name of a section is taken to be there.
ReadHeaderUnchecked ==
  /\ phase = "word" /\ word = "Section"
  /\ IF next # 0 /\ nextWord \in Sections
       THEN LoadGoesOn("entry") /\ section' = nextWord /\ at' = NextWord(file, next)
       ELSE LoadEnds("ERR_READINGFILE") /\ UNCHANGED <<section, at>>
  /\ UNCHANGED <<file, localVars, GrammarVars>>

\* "Section" and its name; the word after that is an entry, whatever it is.
ReadHeader ==
  /\ phase = "word" /\ word = "Section"
  /\ LET entry == NextWord(file, next)
     IN IF next # 0 /\ nextWord \in Sections /\ entry # 0
          THEN LoadGoesOn("entry") /\ section' = nextWord /\ at' = entry
          ELSE LoadEnds("ERR_READINGFILE") /\ UNCHANGED <<section, at>>
  /\ UNCHANGED <<file, localVars, GrammarVars>>

AtEntry == phase = "entry" \/ (phase = "word" /\ word # "Section")

LoadAxiom ==
  /\ AtEntry /\ section = "Axiom" /\ AddAxiom(word)
  /\ IF answer'.status = "OK" THEN LoadGoesOn("read") ELSE LoadEnds(answer'.status)
  /\ UNCHANGED <<file, at, section, localVars>>

LoadTerminal ==
  /\ AtEntry /\ section = "Terminals" /\ AddTerminal(word)
  /\ LoadGoesOn("read")
  /\ UNCHANGED <<file, at, section, localVars>>

LoadNonTerminal ==
  /\ AtEntry /\ section = "NonTerminals" /\ AddNonTerminal(word)
  /\ LoadGoesOn("read")
  /\ UNCHANGED <<file, at, section, localVars>>

\* A word before the first header
NoSection ==
  /\ AtEntry /\ section = "UNKNOWN"
  /\ LoadEnds("ERR_READINGFILE")
  /\ UNCHANGED <<file, at, section, localVars, GrammarVars>>

\* The file is at its end: SGrammar::CheckGrammar decides.
CheckFile ==
  /\ phase = "check" /\ Check
  /\ LoadEnds(answer'.status)
  /\ UNCHANGED <<file, at, section, localVars>>

-----------------------------------------------------------------------------
(* loadProduction *)

\* Faulty: the symbols of the last production are still there.
StartProductionKept ==
  /\ AtEntry /\ section = "Productions"
  /\ lhs' = IF Closes(word, ":") THEN Spelled[word].stem ELSE word
  /\ closed' = FALSE /\ share' = Unset
  /\ LoadGoesOn("production")
  /\ UNCHANGED <<file, at, section, rhs, GrammarVars>>

\* A missing colon is a warning.
StartProduction ==
  /\ AtEntry /\ section = "Productions"
  /\ lhs' = IF Closes(word, ":") THEN Spelled[word].stem ELSE word
  /\ rhs' = <<>> /\ closed' = FALSE /\ share' = Unset
  /\ LoadGoesOn("production")
  /\ UNCHANGED <<file, at, section, GrammarVars>>

Reading == phase = "production" /\ next # 0
IsEndOfProduction(w) == (~Is(w, "<") /\ Closes(w, ":")) \/ w = "Section"

\* The end of the file, a header or the next head: the pending rule is added,
\* and what AddRule says of it is ignored.
EndProduction ==
  /\ phase = "production" /\ (next # 0 => IsEndOfProduction(nextWord))
  /\ IF closed
       THEN /\ AddRule(lhs, rhs, share)
            /\ LoadGoesOn(IF next = 0 THEN "check" ELSE "word")
            /\ at' = IF next = 0 THEN at ELSE next
       ELSE LoadEnds("ERR_INVPARAM") /\ UNCHANGED <<at, GrammarVars>>
  /\ UNCHANGED <<file, section, localVars>>

\* After the probability: a label is read and forgotten, | ends the rule, and
\* every other word is skipped.
LoadLabel ==
  /\ Reading /\ ~IsEndOfProduction(nextWord) /\ closed
  /\ Is(nextWord, "<") /\ ~(Closes(nextWord, ">") /\ Spelled[nextWord].kind = "blank")
  /\ LET end == Closing(file, next, ">")
     IN IF end = 0 THEN LoadEnds("ERR_INVPARAM") /\ UNCHANGED at
        ELSE LoadGoesOn("production") /\ at' = end
  /\ UNCHANGED <<file, section, localVars, GrammarVars>>

\* Faulty: the symbols of one alternative are left for the next.
NextAlternativeKept ==
  /\ Reading /\ ~IsEndOfProduction(nextWord) /\ closed /\ Is(nextWord, "|")
  /\ AddRule(lhs, rhs, share)
  /\ closed' = FALSE /\ at' = next
  /\ LoadGoesOn("production")
  /\ UNCHANGED <<file, section, lhs, rhs, share>>

NextAlternative ==
  /\ Reading /\ ~IsEndOfProduction(nextWord) /\ closed /\ Is(nextWord, "|")
  /\ AddRule(lhs, rhs, share)
  /\ rhs' = <<>> /\ closed' = FALSE /\ at' = next
  /\ LoadGoesOn("production")
  /\ UNCHANGED <<file, section, lhs, share>>

\* Faulty: the word is not read.
SkipWordForever ==
  /\ Reading /\ ~IsEndOfProduction(nextWord) /\ closed /\ ~Is(nextWord, "|")
  /\ LoadGoesOn("production")
  /\ UNCHANGED <<file, at, section, localVars, GrammarVars>>

SkipWord ==
  /\ Reading /\ ~IsEndOfProduction(nextWord) /\ closed /\ ~Is(nextWord, "|")
  /\ Is(nextWord, "<") => Closes(nextWord, ">") /\ Spelled[nextWord].kind = "blank"
  /\ at' = next /\ LoadGoesOn("production")
  /\ UNCHANGED <<file, section, localVars, GrammarVars>>

\* [] is a symbol like any other, and [ ] is a probability that is never set.
IsProbability(w) == Is(w, "[") /\ ~(Closes(w, "]") /\ Spelled[w].kind = "blank")

LoadProbability ==
  /\ Reading /\ ~IsEndOfProduction(nextWord) /\ ~closed /\ IsProbability(nextWord)
  /\ LET end == Closing(file, next, "]")
     IN IF end = 0 THEN LoadEnds("ERR_INVPARAM") /\ UNCHANGED <<at, share, closed>>
        ELSE /\ LET number == Number(file, next, end, share)
                IN share' \in IF number = Unset THEN Shares ELSE {number}
             /\ closed' = TRUE /\ at' = end /\ LoadGoesOn("production")
  /\ UNCHANGED <<file, section, lhs, rhs, GrammarVars>>

LoadSymbol ==
  /\ Reading /\ ~IsEndOfProduction(nextWord) /\ ~closed /\ ~IsProbability(nextWord)
  /\ rhs' = Append(rhs, nextWord) /\ at' = next
  /\ LoadGoesOn("production")
  /\ UNCHANGED <<file, section, lhs, share, closed, GrammarVars>>

-----------------------------------------------------------------------------
LoadStep ==
  \/ ReadWord \/ ReadHeader \/ LoadAxiom \/ LoadTerminal \/ LoadNonTerminal
  \/ NoSection \/ CheckFile
  \/ StartProduction \/ EndProduction \/ LoadLabel \/ NextAlternative \/ SkipWord
  \/ LoadProbability \/ LoadSymbol

-----------------------------------------------------------------------------
(* Properties *)

Phases == {"read", "word", "entry", "production", "check", "done"}

\* The reader never leaves its stream: a place that is used to read a word is one.
ReaderTypeOK ==
  /\ at \in 0..Len(file.words) /\ phase \in Phases
  /\ section \in Sections \cup {"UNKNOWN"}
  /\ phase \in {"word", "entry", "production"} => at > 0
  /\ lhs \in Names /\ rhs \in Seq(Words) /\ closed \in BOOLEAN
  /\ share \in Shares \cup {Unset} /\ (closed => share # Unset)

\* The symbols of a rule by name, as dumpGrammar writes them
SymbolNames(rule) == [i \in DOMAIN rule.rhs |-> rule.rhs[i].name]

\* The words that readNextWord returns behind the place i and before p
Between(stream, i, p) == Entries(stream.words, {k \in i + 1 .. p - 1 : MayReturn(stream, k)})

\* The word at g is between brackets that open behind h and close there or later.
Bracketed(stream, h, g) ==
  \E o \in h + 1 .. g - 1 :
    /\ MayReturn(stream, o)
    /\ \/ IsProbability(stream.words[o]) /\ Closing(stream, o, "]") >= g
       \/ Is(stream.words[o], "<") /\ Closing(stream, o, ">") >= g

\* The alternative behind the place i is one of the nonterminal whose head is at h:
\* it follows the head, or a "|" that has no other head before it.
Starts(stream, h, i, name) ==
  /\ name = IF Closes(stream.words[h], ":") THEN Spelled[stream.words[h]].stem
            ELSE stream.words[h]
  /\ i = h \/ Is(stream.words[i], "|")
  /\ MayReturn(stream, h) /\ MayReturn(stream, i)
  /\ \A g \in h + 1 .. i :
       MayReturn(stream, g) /\ IsEndOfProduction(stream.words[g]) => Bracketed(stream, h, g)

\* The symbols are all the words from i to p, and there is no probability or head.
Symbols(stream, i, p, names) ==
  /\ \A k \in i + 1 .. p - 1 : MayReturn(stream, k) =>
       ~IsProbability(stream.words[k]) /\ ~IsEndOfProduction(stream.words[k])
  /\ names = Between(stream, i, p)

\* The bracket that opens at p has this probability in it, or nothing.
Chance(stream, p, prob) ==
  LET end == Closing(stream, p, "]")
  IN /\ MayReturn(stream, p) /\ IsProbability(stream.words[p]) /\ end # 0
     /\ Number(stream, p, end, Unset) \in {prob, Unset}

\* A rule stands in a file: under its head, with its symbols and its probability.
StandsIn(stream, name, rule) ==
  \E h \in DOMAIN stream.words : \E i \in h..Len(stream.words) :
    /\ Starts(stream, h, i, name)
    /\ \E p \in i + 1 .. Len(stream.words) :
         Chance(stream, p, rule.prob) /\ Symbols(stream, i, p, SymbolNames(rule))
=============================================================================
