-------------------------- MODULE GrammarFileProofs --------------------------
(***************************************************************************)
(* What loadGrammar keeps while it reads, proved for every file, every     *)
(* spelling of its words and every set of probabilities.                   *)
(***************************************************************************)
EXTENDS GrammarFile, GrammarBuilderProofs, SequenceFileProofs

\* A load that ended with OK has just checked the grammar.
Accepted == phase = "done" /\ loaded = "OK" => CheckedOK

ReaderInv ==
  /\ IInv /\ ReaderTypeOK /\ Accepted
  /\ file \in Streams /\ Empty \notin NamesOf(N)

-----------------------------------------------------------------------------
(* Words and places *)

\* The words of a stream are among those that FileAssumption is about.
LEMMA WordsTyped ==
  ASSUME NEW stream \in Streams, NEW i \in 1..Len(stream.words)
  PROVE  /\ Len(stream.words) \in Nat
         /\ stream.words[i] \in Words
         /\ stream.words[i] \in Axioms \cap TerminalNames \cap NonterminalNames
         /\ stream.words[i] \in Names \ {Empty}
         /\ Spelled[stream.words[i]].stem \in Names
         /\ Spelled[stream.words[i]].share \in Shares
<1>1. stream.words \in Seq(Words)
  BY DEF Streams
<1>2. Len(stream.words) \in Nat /\ stream.words[i] \in Words
  BY <1>1, LenProperties
<1> QED  BY <1>2, FileAssumption DEF Names

LEMMA StreamLength == ASSUME NEW stream \in Streams PROVE Len(stream.words) \in Nat
<1> stream.words \in Seq(Words)
  BY DEF Streams
<1> QED  BY LenProperties

\* readNextWord goes forward, to the first word that it may return, or is at the end.
LEMMA NextWordIs ==
  ASSUME NEW stream \in Streams, NEW from \in Nat
  PROVE  LET to == NextWord(stream, from) IN
         \/ to = 0
         \/ /\ to \in from + 1 .. Len(stream.words) /\ MayReturn(stream, to)
            /\ \A j \in from + 1 .. to - 1 : ~MayReturn(stream, j)
<1>1. Len(stream.words) \in Nat
  BY StreamLength
<1> DEFINE S == {i \in from + 1 .. Len(stream.words) : MayReturn(stream, i)}
<1> DEFINE to == NextWord(stream, from)
<1> SUFFICES ASSUME S # {}
             PROVE  /\ to \in from + 1 .. Len(stream.words) /\ MayReturn(stream, to)
                    /\ \A j \in from + 1 .. to - 1 : ~MayReturn(stream, j)
  BY DEF NextWord
<1>0. S \subseteq Nat
  BY <1>1
<1>2. \E i \in S : \A j \in S : i <= j
  <2> HIDE DEF S
  <2> QED  BY <1>0, LeastElement
<1>4. PICK i \in S : \A j \in S : i <= j
  BY <1>2
<1>3. \A j \in from + 1 .. i - 1 : ~MayReturn(stream, j)
  BY <1>1, <1>4
<1> QED  BY <1>4, <1>3 DEF NextWord

LEMMA NextWordFound ==
  ASSUME NEW stream \in Streams, NEW from \in Nat
  PROVE  \/ NextWord(stream, from) = 0
         \/ NextWord(stream, from) \in from + 1 .. Len(stream.words)
BY NextWordIs

\* loadDelimited goes forward, or is at the end.
LEMMA ClosingFound ==
  ASSUME NEW stream \in Streams, NEW i \in 1..Len(stream.words), NEW c
  PROVE  Closing(stream, i, c) = 0 \/ Closing(stream, i, c) \in i..Len(stream.words)
<1>1. Len(stream.words) \in Nat
  BY StreamLength
<1> DEFINE S == {j \in i..Len(stream.words) : Closes(stream.words[j], c)}
<1> SUFFICES ASSUME S # {} PROVE Closing(stream, i, c) \in i..Len(stream.words)
  BY DEF Closing
<1>0. S \subseteq Nat
  BY <1>1
<1>2. \E j \in S : \A k \in S : j <= k
  <2> HIDE DEF S
  <2> QED  BY <1>0, LeastElement
<1>4. PICK j \in S : \A k \in S : j <= k
  BY <1>2
<1>3. \A k \in i..j - 1 : ~Closes(stream.words[k], c)
  BY <1>1, <1>4
<1> QED  BY <1>4, <1>3 DEF Closing

\* A number is a probability that occurs, or what was there before.
LEMMA NumberTyped ==
  ASSUME NEW stream \in Streams, NEW i \in 1..Len(stream.words),
         NEW j \in i..Len(stream.words), NEW old
  PROVE  Number(stream, i, j, old) \in Shares \cup {old}
<1>1. Len(stream.words) \in Nat
  BY StreamLength
<1> DEFINE filled == {k \in i..j : \/ Spelled[stream.words[k]].kind # "blank"
                                   \/ (k > i /\ Is(stream.words[k], "["))}
           k == CHOOSE f \in filled : \A g \in filled : f <= g
<1>2. CASE filled = {}
  BY <1>2 DEF Number
<1>3. CASE filled # {}
  <2>1. filled \subseteq Nat
    BY <1>1
  <2>2. \E f \in filled : \A g \in filled : f <= g
    <3> HIDE DEF filled
    <3> QED  BY <1>3, <2>1, LeastElement
  <2>3. k \in filled
    BY <2>2
  <2>4. k \in 1..Len(stream.words)
    <3> HIDE DEF k
    <3> QED  BY <1>1, <2>3
  <2>5. Spelled[stream.words[k]].share \in Shares
    BY <2>4, WordsTyped
  <2> HIDE DEF k
  <2>6. Number(stream, i, j, old) \in {Spelled[stream.words[k]].share, 0}
    BY <1>3 DEF Number, k
  <2> QED  BY <2>5, <2>6, FileAssumption
<1> QED  BY <1>2, <1>3

-----------------------------------------------------------------------------
(* Steps *)

\* Words that are read keep the reader in its stream.
LEMMA ReadOn ==
  ASSUME ReaderInv
  PROVE  /\ at \in Nat /\ Len(file.words) \in Nat
         /\ next = 0 \/ next \in at + 1 .. Len(file.words)
         /\ at > 0 => /\ at \in 1..Len(file.words)
                      /\ word \in Axioms \cap TerminalNames \cap NonterminalNames
                      /\ word \in Words /\ word \in Names \ {Empty}
                      /\ Spelled[word].stem \in Names
         /\ next # 0 => /\ next \in 1..Len(file.words) /\ nextWord \in Words
<1>1. file \in Streams /\ at \in 0..Len(file.words)
  BY DEF ReaderInv, ReaderTypeOK
<1>2. Len(file.words) \in Nat
  BY <1>1, StreamLength
<1>3. at \in Nat /\ (at > 0 => at \in 1..Len(file.words))
  BY <1>1, <1>2
<1>4. next = 0 \/ next \in at + 1 .. Len(file.words)
  BY <1>1, <1>3, NextWordFound DEF next
<1>5. next # 0 => next \in 1..Len(file.words)
  BY <1>2, <1>3, <1>4
<1> QED  BY <1>1, <1>2, <1>3, <1>4, <1>5, WordsTyped DEF word, nextWord

\* While the grammar stays as it is so do its invariants.
LEMMA GrammarStays ==
  ASSUME IInv, Empty \notin NamesOf(N), UNCHANGED GrammarVars
  PROVE  IInv' /\ (Empty \notin NamesOf(N))'
<1>1. UNCHANGED vars
  BY DEF vars, GrammarVars
<1>2. NamesOf(N)' = NamesOf(N)
  BY DEF GrammarVars, NamesOf
<1> QED  BY <1>1, <1>2, NextInv

\* A new rule declares no nonterminal.
LEMMA RuleKeeps ==
  ASSUME ReaderInv, rhs \in Seq(Words), share \in Shares, AddRule(lhs, rhs, share)
  PROVE  IInv' /\ (Empty \notin NamesOf(N))'
<1>1. rhs \in Seq(Names)
  <2>1. Words \subseteq Names
    BY FileAssumption DEF Names
  <2> QED  BY <2>1, SeqMonotonic
<1>2. IInv'
  BY <1>1, AddRuleInv DEF ReaderInv
<1>3. NamesOf(N)' = NamesOf(N)
  BY DEF AddRule, NamesOf
<1> QED  BY <1>2, <1>3 DEF ReaderInv

\* The steps that only read
LEMMA ReadingInv ==
  ASSUME ReaderInv,
         \/ ReadWord \/ ReadHeader \/ NoSection \/ StartProduction
         \/ LoadLabel \/ SkipWord \/ LoadProbability \/ LoadSymbol
  PROVE  ReaderInv'
<1>1. UNCHANGED GrammarVars /\ file' = file
  BY DEF ReadWord, ReadHeader, NoSection, StartProduction, LoadLabel, SkipWord,
         LoadProbability, LoadSymbol
<1>2. IInv' /\ (Empty \notin NamesOf(N))' /\ (file \in Streams)'
  BY <1>1, GrammarStays DEF ReaderInv
<1>3. Accepted'
  BY DEF ReadWord, ReadHeader, NoSection, StartProduction, LoadLabel, SkipWord,
         LoadProbability, LoadSymbol, LoadGoesOn, LoadEnds, Accepted
<1>4. ReaderTypeOK'
  <2> USE DEF ReaderInv, LoadGoesOn, LoadEnds, Phases
  <2>1. CASE ReadWord
    <3>1. at' \in 0..Len(file.words) /\ (phase' = "word" => at' > 0)
          /\ phase' \in {"check", "word"}
      BY <2>1, ReadOn DEF ReadWord, ReaderTypeOK
    <3> QED  BY <1>1, <2>1, <3>1 DEF ReadWord, ReaderTypeOK, localVars
  <2>2. CASE ReadHeader
    <3> DEFINE entry == NextWord(file, next)
    <3>1. CASE phase' = "done"
      BY <1>1, <2>2, <3>1 DEF ReadHeader, ReaderTypeOK, localVars
    <3>2. CASE phase' # "done"
      <4>1. next # 0 /\ entry # 0 /\ at' = entry /\ section' \in Sections /\ phase' = "entry"
        BY <2>2, <3>2 DEF ReadHeader
      <4>2. next \in Nat /\ Len(file.words) \in Nat
        BY <4>1, ReadOn
      <4>3. entry \in next + 1 .. Len(file.words)
        BY <4>1, <4>2, NextWordFound
      <4>4. at' \in 0..Len(file.words) /\ at' > 0
        BY <4>1, <4>2, <4>3
      <4> QED  BY <1>1, <2>2, <4>1, <4>4 DEF ReadHeader, ReaderTypeOK, localVars
    <3> QED  BY <3>1, <3>2
  <2>3. CASE NoSection
    BY <1>1, <2>3 DEF NoSection, ReaderTypeOK, localVars
  <2>4. CASE StartProduction
    <3>1. at > 0
      BY <2>4 DEF StartProduction, AtEntry, ReaderTypeOK
    <3>2. lhs' \in Names
      BY <2>4, <3>1, ReadOn DEF StartProduction
    <3> QED  BY <1>1, <2>4, <3>1, <3>2, EmptySeq DEF StartProduction, ReaderTypeOK
  <2>5. CASE LoadLabel
    <3> DEFINE end == Closing(file, next, ">")
    <3>1. /\ end = 0 \/ (end \in 0..Len(file.words) /\ end > 0)
      <4>1. next \in 1..Len(file.words) /\ Len(file.words) \in Nat
        BY <2>5, ReadOn DEF LoadLabel, Reading
      <4>2. end = 0 \/ end \in next..Len(file.words)
        BY <4>1, ClosingFound
      <4> QED  BY <4>1, <4>2
    <3>2. at' \in 0..Len(file.words) /\ (phase' # "done" => at' > 0)
          /\ phase' \in {"done", "production"}
      BY <2>5, <3>1 DEF LoadLabel, ReaderTypeOK
    <3> QED  BY <1>1, <2>5, <3>2 DEF LoadLabel, ReaderTypeOK, localVars
  <2>6. CASE SkipWord
    <3>1. at' \in 0..Len(file.words) /\ at' > 0 /\ phase' = "production"
      BY <2>6, ReadOn DEF SkipWord, Reading
    <3> QED  BY <1>1, <2>6, <3>1 DEF SkipWord, ReaderTypeOK, localVars
  <2>7. CASE LoadProbability
    <3> DEFINE end == Closing(file, next, "]")
    <3>1. CASE end = 0
      BY <1>1, <2>7, <3>1 DEF LoadProbability, ReaderTypeOK
    <3>2. CASE end # 0
      <4>1. next \in 1..Len(file.words) /\ Len(file.words) \in Nat
        BY <2>7, ReadOn DEF LoadProbability, Reading
      <4>2. end \in next..Len(file.words)
        BY <3>2, <4>1, ClosingFound
      <4>3. Number(file, next, end, share) \in Shares \cup {share}
        BY <4>1, <4>2, NumberTyped
      <4>4. share' \in Shares
        BY <2>7, <3>2, <4>3 DEF LoadProbability, ReaderTypeOK
      <4>5. share' # Unset
        BY <4>4, SharesAssumption DEF Unset
      <4>6. at' = end /\ closed' = TRUE /\ phase' = "production"
        BY <2>7, <3>2 DEF LoadProbability
      <4>7. at' \in 0..Len(file.words) /\ at' > 0
        BY <4>1, <4>2, <4>6
      <4> QED  BY <1>1, <2>7, <4>4, <4>5, <4>6, <4>7 DEF LoadProbability, ReaderTypeOK
    <3> QED  BY <3>1, <3>2
  <2>8. CASE LoadSymbol
    <3>1. at' \in 0..Len(file.words) /\ at' > 0 /\ phase' = "production" /\ nextWord \in Words
      BY <2>8, ReadOn DEF LoadSymbol, Reading
    <3>2. rhs' \in Seq(Words)
      BY <2>8, <3>1, AppendProperties DEF LoadSymbol, ReaderTypeOK
    <3> QED  BY <1>1, <2>8, <3>1, <3>2 DEF LoadSymbol, ReaderTypeOK
  <2> QED  BY <2>1, <2>2, <2>3, <2>4, <2>5, <2>6, <2>7, <2>8
<1> QED  BY <1>2, <1>3, <1>4 DEF ReaderInv

\* The steps that are calls of the grammar leave the reader's own state typed, if they
\* leave the place of a word.
LEMMA CallKeepsReader ==
  ASSUME ReaderInv, UNCHANGED <<file, section, lhs, closed, share>>,
         rhs' \in Seq(Words), at' \in 0..Len(file.words), phase' \in Phases,
         phase' = "done" \/ at' > 0 \/ phase' \in {"read", "check"}
  PROVE  ReaderTypeOK' /\ (file \in Streams)'
BY DEF ReaderInv, ReaderTypeOK, Phases

LEMMA DeclaringInv ==
  ASSUME ReaderInv, LoadAxiom \/ LoadTerminal \/ LoadNonTerminal
  PROVE  ReaderInv'
<1>1. /\ at \in 0..Len(file.words) /\ at > 0
      /\ word \in Axioms \cap TerminalNames \cap NonterminalNames /\ word # Empty
  <2>1. at > 0
    BY DEF LoadAxiom, LoadTerminal, LoadNonTerminal, AtEntry, ReaderInv, ReaderTypeOK
  <2> QED  BY <2>1, ReadOn DEF ReaderInv, ReaderTypeOK
<1>2. ReaderTypeOK' /\ (file \in Streams)'
  <2>1. UNCHANGED <<file, at, section, lhs, rhs, closed, share>>
        /\ phase' \in {"read", "done"}
    BY DEF LoadAxiom, LoadTerminal, LoadNonTerminal, LoadGoesOn, LoadEnds, localVars
  <2> QED  BY <1>1, <2>1, CallKeepsReader DEF ReaderInv, ReaderTypeOK, Phases
<1>3. Accepted'
  BY DEF LoadAxiom, LoadTerminal, LoadNonTerminal, LoadGoesOn, LoadEnds, Accepted
<1>4. CASE LoadAxiom
  <2>1. AddAxiom(word)
    BY <1>4 DEF LoadAxiom
  <2>2. IInv'
    BY <1>1, <2>1, AddAxiomInv DEF ReaderInv
  <2>3. NamesOf(N)' = NamesOf(N)
    BY <2>1 DEF AddAxiom, NamesOf
  <2> QED  BY <1>2, <1>3, <2>2, <2>3 DEF ReaderInv
<1>5. CASE LoadTerminal
  <2>1. AddTerminal(word)
    BY <1>5 DEF LoadTerminal
  <2>2. IInv'
    BY <1>1, <2>1, AddTerminalInv DEF ReaderInv
  <2>3. NamesOf(N)' = NamesOf(N)
    BY <2>1 DEF AddTerminal, NamesOf
  <2> QED  BY <1>2, <1>3, <2>2, <2>3 DEF ReaderInv
<1>6. CASE LoadNonTerminal
  <2>1. AddNonTerminal(word)
    BY <1>6 DEF LoadNonTerminal
  <2>2. IInv'
    BY <1>1, <2>1, AddNonTerminalInv DEF ReaderInv
  <2>3. Empty \notin NamesOf(N')
    <3> DEFINE new == IF axiom.name = word THEN axiom ELSE Token(word, "NONTERMINAL")
    <3>1. N \in Seq(LeftSides) /\ axiom \in LeftSides /\ word \in Names
      BY <1>1 DEF ReaderInv, IInv, TypeOK, Names
    <3>2. new \in LeftSides /\ new.name = word
      BY <3>1 DEF Token, LeftSides, Types
    <3>3. N' = N \/ N' = Append(N, new)
      BY <2>1 DEF AddNonTerminal
    <3> HIDE DEF new
    <3>4. Range(N') \subseteq Range(N) \cup {new}
      BY <3>1, <3>2, <3>3, RangeAppend
    <3> QED  BY <1>1, <3>2, <3>4 DEF ReaderInv, NamesOf
  <2>4. (Empty \notin NamesOf(N))'
    BY <2>3
  <2> QED  BY <1>2, <1>3, <2>2, <2>4 DEF ReaderInv
<1> QED  BY <1>4, <1>5, <1>6

LEMMA RuleInv ==
  ASSUME ReaderInv, EndProduction \/ NextAlternative
  PROVE  ReaderInv'
<1>1. /\ at \in 0..Len(file.words) /\ at > 0 /\ rhs \in Seq(Words)
      /\ closed => share \in Shares
  BY DEF EndProduction, NextAlternative, Reading, ReaderInv, ReaderTypeOK
<1>2. IInv' /\ (Empty \notin NamesOf(N))'
  <2>1. CASE UNCHANGED GrammarVars
    BY <2>1, GrammarStays DEF ReaderInv
  <2>2. CASE closed /\ AddRule(lhs, rhs, share)
    BY <1>1, <2>2, RuleKeeps
  <2> QED  BY <2>1, <2>2 DEF EndProduction, NextAlternative
<1>3. Accepted'
  BY DEF EndProduction, NextAlternative, LoadGoesOn, LoadEnds, Accepted
<1>4. CASE EndProduction
  <2>1. UNCHANGED <<file, section, lhs, rhs, closed, share>>
    BY <1>4 DEF EndProduction, localVars
  <2>2. at' \in 0..Len(file.words) /\ at' > 0 /\ phase' \in {"check", "word", "done"}
    BY <1>1, <1>4, ReadOn DEF EndProduction, LoadGoesOn, LoadEnds
  <2> QED  BY <1>1, <1>2, <1>3, <2>1, <2>2, CallKeepsReader DEF ReaderInv, Phases
<1>5. CASE NextAlternative
  <2>1. UNCHANGED <<file, section, lhs, share>> /\ rhs' = <<>> /\ closed' = FALSE
        /\ phase' = "production" /\ at' = next
    BY <1>5 DEF NextAlternative, LoadGoesOn
  <2>2. at' \in 0..Len(file.words) /\ at' > 0
    BY <1>5, <2>1, ReadOn DEF NextAlternative, Reading
  <2>3. ReaderTypeOK' /\ (file \in Streams)'
    BY <2>1, <2>2, EmptySeq DEF ReaderInv, ReaderTypeOK, Phases
  <2> QED  BY <1>2, <1>3, <2>3 DEF ReaderInv
<1> QED  BY <1>4, <1>5

\* OK is what the check of the whole grammar says.
LEMMA CheckFileInv == ASSUME ReaderInv, CheckFile PROVE ReaderInv'
<1>1. Check /\ phase' = "done" /\ loaded' = answer'.status
      /\ UNCHANGED <<file, at, section, lhs, rhs, closed, share>>
  BY DEF CheckFile, LoadEnds, localVars
<1>2. IInv'
  BY <1>1, NextInv DEF ReaderInv, Next, Use
<1>3. (Empty \notin NamesOf(N))'
  BY <1>1 DEF ReaderInv, Check, CheckGrammar, NamesOf
<1>4. Accepted'
  BY <1>1 DEF Accepted, CheckedOK, Check, Verdict, Returns
<1>5. ReaderTypeOK' /\ (file \in Streams)'
  BY <1>1, CallKeepsReader DEF ReaderInv, ReaderTypeOK, Phases
<1> QED  BY <1>2, <1>3, <1>4, <1>5 DEF ReaderInv

LEMMA LoadStepInv == ASSUME ReaderInv, LoadStep PROVE ReaderInv'
BY ReadingInv, DeclaringInv, RuleInv, CheckFileInv DEF LoadStep

\* A grammar that was loaded passes the check of SParser's constructor.
LEMMA LoadedPasses ==
  ASSUME ReaderInv, phase = "done", loaded = "OK"
  PROVE  Passes
<1>1. WellFormedBut /\ AddsUp /\ Readable
  BY DEF ReaderInv, Accepted, IInv, Checked
<1>2. Range(T) \cap NamesOf(N) = {}
  BY <1>1 DEF WellFormedBut, ReaderInv
<1> QED  BY <1>1, <1>2 DEF Passes, WellFormed, WellFormedBut

-----------------------------------------------------------------------------
(* Only what is written *)

Written == \A k \in DOMAIN P : \A rule \in Range(P[k].rules) :
             StandsIn(file, P[k].lhs.name, rule)

\* Where the head and the alternative are that the reader is in: what it read behind
\* them are the symbols, and then the probability and what is skipped.
Pending(h, i) ==
  /\ Starts(file, h, i, lhs)
  /\ \A g \in h + 1 .. at :
       MayReturn(file, g) /\ IsEndOfProduction(file.words[g]) => Bracketed(file, h, g)
  /\ IF closed
       THEN \E p \in i + 1 .. at : Chance(file, p, share) /\ Symbols(file, i, p, rhs)
       ELSE Symbols(file, i, at + 1, rhs)

WrittenInv ==
  /\ Written
  /\ phase \in {"word", "entry"} => MayReturn(file, at)
  /\ phase = "production" => \E h \in 1..at : \E i \in h..at : Pending(h, i)

\* The places of a stream are numbers, and the words that are read between two of
\* them none, or one more.
LEMMA BetweenNone ==
  ASSUME NEW stream \in Streams, NEW i \in Nat
  PROVE  Between(stream, i, i + 1) = <<>>
<1>1. stream.words \in Seq(Words)
  BY DEF Streams
<1>2. {k \in i + 1 .. (i + 1) - 1 : MayReturn(stream, k)} = {}
  OBVIOUS
<1> QED  BY <1>1, <1>2, EntriesOfNone DEF Between

LEMMA BetweenMore ==
  ASSUME NEW stream \in Streams, NEW i \in Nat, NEW from \in Nat, i <= from,
         NEW to \in from + 1 .. Len(stream.words), MayReturn(stream, to),
         \A j \in from + 1 .. to - 1 : ~MayReturn(stream, j)
  PROVE  /\ Between(stream, i, to) = Between(stream, i, from + 1)
         /\ Between(stream, i, to + 1) = Append(Between(stream, i, from + 1), stream.words[to])
<1> DEFINE S == {k \in i + 1 .. (from + 1) - 1 : MayReturn(stream, k)}
           R == {k \in i + 1 .. to - 1 : MayReturn(stream, k)}
           Q == {k \in i + 1 .. (to + 1) - 1 : MayReturn(stream, k)}
<1>1. stream.words \in Seq(Words) /\ Len(stream.words) \in Nat
  BY StreamLength DEF Streams
<1>2. R = S
  BY <1>1
<1>3. Q = S \cup {to}
  BY <1>1
<1>4. S \in SUBSET (1..Len(stream.words)) /\ to \in 1..Len(stream.words)
      /\ \A k \in S : k < to
  BY <1>1
<1> HIDE DEF S
<1>5. Entries(stream.words, S \cup {to}) = Append(Entries(stream.words, S), stream.words[to])
  BY <1>1, <1>4, EntriesAppend
<1> QED  BY <1>2, <1>3, <1>5 DEF Between, S

-----------------------------------------------------------------------------
\* What readNextWord passed over or was read as one word more has no head in it.
LEMMA HeadsPassed ==
  ASSUME ReaderInv, NEW h \in 1..at, next # 0, ~IsEndOfProduction(nextWord),
         \A g \in h + 1 .. at :
           MayReturn(file, g) /\ IsEndOfProduction(file.words[g]) => Bracketed(file, h, g),
         NEW end \in next..Len(file.words),
         \A g \in next + 1 .. end : Bracketed(file, h, g)
  PROVE  \A g \in h + 1 .. end :
           MayReturn(file, g) /\ IsEndOfProduction(file.words[g]) => Bracketed(file, h, g)
<1>1. /\ at \in Nat /\ Len(file.words) \in Nat /\ next \in at + 1 .. Len(file.words)
      /\ file \in Streams
  BY ReadOn DEF ReaderInv
<1>2. \A j \in at + 1 .. next - 1 : ~MayReturn(file, j)
  BY <1>1, NextWordIs DEF next
<1> SUFFICES ASSUME NEW g \in h + 1 .. end, MayReturn(file, g),
                    IsEndOfProduction(file.words[g])
             PROVE  Bracketed(file, h, g)
  OBVIOUS
<1>3. g # next
  BY DEF nextWord
<1>4. g \in h + 1 .. at \/ g \in at + 1 .. next - 1 \/ g \in next + 1 .. end
  BY <1>1, <1>3
<1> QED  BY <1>2, <1>4

\* A bracket that opens at the next word covers everything to its end.
LEMMA BracketCovers ==
  ASSUME ReaderInv, NEW h \in 1..at, next # 0, NEW end \in next..Len(file.words),
         \/ IsProbability(nextWord) /\ end = Closing(file, next, "]")
         \/ Is(nextWord, "<") /\ end = Closing(file, next, ">")
  PROVE  \A g \in next + 1 .. end : Bracketed(file, h, g)
<1>1. /\ at \in Nat /\ Len(file.words) \in Nat /\ next \in at + 1 .. Len(file.words)
      /\ file \in Streams
  BY ReadOn DEF ReaderInv
<1>2. MayReturn(file, next)
  BY <1>1, NextWordIs DEF next
<1> TAKE g \in next + 1 .. end
<1>3. next \in h + 1 .. g - 1 /\ end >= g
  BY <1>1
<1> HIDE DEF next
<1> QED  BY <1>2, <1>3 DEF Bracketed, nextWord

\* A number is read, or the variable keeps what it holds.
LEMMA NumberOrOld ==
  ASSUME NEW stream, NEW i, NEW j, NEW old
  PROVE  \/ Number(stream, i, j, Unset) = Unset /\ Number(stream, i, j, old) = old
         \/ Number(stream, i, j, Unset) = Number(stream, i, j, old)
<1> DEFINE filled == {k \in i..j : \/ Spelled[stream.words[k]].kind # "blank"
                                   \/ (k > i /\ Is(stream.words[k], "["))}
<1>1. CASE filled = {}
  BY <1>1 DEF Number
<1>2. CASE filled # {}
  <2> DEFINE k == CHOOSE f \in filled : \A g \in filled : f <= g
             w == stream.words[k]
             value == IF Spelled[w].kind = "number" /\ (k = i \/ ~Is(w, "["))
                        THEN Spelled[w].share ELSE 0
  <2>1. Number(stream, i, j, old) = value
    BY <1>2 DEF Number
  <2>2. Number(stream, i, j, Unset) = value
    BY <1>2 DEF Number
  <2> QED  BY <2>1, <2>2
<1> QED  BY <1>1, <1>2

\* A rule that is added stands in the file if what it is made of does.
LEMMA RuleIsWritten ==
  ASSUME ReaderInv, Written, closed, NEW h \in 1..at, NEW i \in h..at, Pending(h, i),
         AddRule(lhs, rhs, share), file' = file
  PROVE  Written'
<1>1. rhs \in Seq(Names) /\ share \in Shares /\ Len(file.words) \in Nat /\ at \in Nat
      /\ at \in 0..Len(file.words)
  <2>1. Words \subseteq Names
    BY FileAssumption DEF Names
  <2> QED  BY <2>1, SeqMonotonic, ReadOn DEF ReaderInv, ReaderTypeOK
<1>2. CASE UNCHANGED P
  BY <1>2 DEF Written
<1>3. CASE ~UNCHANGED P
  <2> DEFINE tokens == [k \in DOMAIN rhs |-> Lookup(rhs[k])]
             rule == [rhs |-> tokens, prob |-> share]
  <2>1. /\ lhs \in NamesOf(N) /\ (\A k \in DOMAIN rhs : Declared(rhs[k]))
        /\ P' = WithRule(lhs, rule)
    BY <1>3 DEF AddRule
  <2>2. rule \in RulesOf
    BY <1>1, <2>1, SymbolsLookedUp DEF ReaderInv, IInv
  <2>3. SymbolNames(rule) = rhs
    <3>1. \A k \in DOMAIN rhs : Lookup(rhs[k]).name = rhs[k]
      BY <2>1, NonTerminalFound DEF Lookup, Declared, Token
    <3>2. SymbolNames(rule) = [k \in DOMAIN rhs |-> Lookup(rhs[k]).name]
      BY DEF SymbolNames
    <3>3. SymbolNames(rule) = [k \in DOMAIN rhs |-> rhs[k]]
      BY <3>1, <3>2
    <3>4. rhs = [k \in DOMAIN rhs |-> rhs[k]]
      BY <1>1, LenProperties
    <3> QED  BY <3>3, <3>4
  <2>4. StandsIn(file, lhs, rule)
    <3>1. PICK p \in i + 1 .. at : Chance(file, p, share) /\ Symbols(file, i, p, rhs)
      BY DEF Pending
    <3>2. Starts(file, h, i, lhs)
      BY DEF Pending
    <3>3. rule.prob = share
      OBVIOUS
    <3>4. h \in DOMAIN file.words /\ i \in h..Len(file.words)
          /\ p \in i + 1 .. Len(file.words)
      <4>1. DOMAIN file.words = 1..Len(file.words)
        BY LenProperties DEF ReaderInv, Streams
      <4> QED  BY <1>1, <4>1
    <3> HIDE DEF rule
    <3> QED  BY <2>3, <3>1, <3>2, <3>3, <3>4 DEF StandsIn
  <2> HIDE DEF rule
  <2> SUFFICES ASSUME NEW k \in DOMAIN P', NEW r \in Range(P'[k].rules)
               PROVE  StandsIn(file, P'[k].lhs.name, r)
    BY DEF Written
  <2>5. \/ k \in DOMAIN P /\ P'[k].lhs = P[k].lhs /\ r \in Range(P[k].rules)
        \/ P'[k].lhs.name = lhs /\ r = rule
    BY <2>1, <2>2, RulesAfterwards DEF ReaderInv, IInv
  <2> QED  BY <2>4, <2>5 DEF Written
<1> QED  BY <1>2, <1>3

\* The reader is behind a head, or behind a "|".
LEMMA AlternativeStarts ==
  ASSUME NEW stream \in Streams, NEW h \in Nat, NEW i \in Nat, h <= i,
         NEW name, Starts(stream, h, i, name), NEW names, names = <<>>
  PROVE  /\ \A g \in h + 1 .. i : MayReturn(stream, g) /\ IsEndOfProduction(stream.words[g])
              => Bracketed(stream, h, g)
         /\ Symbols(stream, i, i + 1, names)
<1>1. \A k \in i + 1 .. (i + 1) - 1 : FALSE
  OBVIOUS
<1> QED  BY <1>1, BetweenNone DEF Starts, Symbols

LEMMA WrittenStarts == ASSUME ReaderInv, WrittenInv, StartProduction PROVE WrittenInv'
<1>1. /\ at > 0 /\ MayReturn(file, at) /\ at \in 1..Len(file.words) /\ at \in Nat
      /\ file \in Streams
  BY ReadOn DEF StartProduction, AtEntry, ReaderInv, ReaderTypeOK, WrittenInv
<1>2. /\ UNCHANGED <<file, at, P>> /\ rhs' = <<>> /\ closed' = FALSE /\ phase' = "production"
      /\ lhs' = IF Closes(word, ":") THEN Spelled[word].stem ELSE word
  BY DEF StartProduction, LoadGoesOn, GrammarVars
<1>3. \A g \in at + 1 .. at : FALSE
  BY <1>1
<1>4. Starts(file, at, at, lhs')
  BY <1>1, <1>2, <1>3 DEF Starts, word
<1>5. Symbols(file, at, at + 1, rhs')
  <2>1. \A k \in at + 1 .. (at + 1) - 1 : FALSE
    BY <1>1
  <2> QED  BY <1>1, <1>2, <2>1, BetweenNone DEF Symbols
<1>6. Pending(at, at)'
  BY <1>2, <1>3, <1>4, <1>5 DEF Pending
<1>7. at' \in 1..at' /\ at' \in at'..at'
  BY <1>1, <1>2
<1>8. Written'
  BY <1>2 DEF WrittenInv, Written
<1> QED  BY <1>2, <1>6, <1>7, <1>8 DEF WrittenInv

\* The steps that read on in a production: a symbol, a probability, a label, a word
\* that is skipped.
LEMMA WrittenGoesOn ==
  ASSUME ReaderInv, WrittenInv, LoadSymbol \/ LoadProbability \/ LoadLabel \/ SkipWord
  PROVE  WrittenInv'
<1>1. /\ UNCHANGED <<file, P, lhs>> /\ next # 0 /\ ~IsEndOfProduction(nextWord)
      /\ phase = "production" /\ phase' \in {"production", "done"}
  BY DEF LoadSymbol, LoadProbability, LoadLabel, SkipWord, Reading, LoadGoesOn, LoadEnds,
         GrammarVars, localVars
<1>2. /\ at \in Nat /\ at > 0 /\ Len(file.words) \in Nat /\ file \in Streams
      /\ next \in at + 1 .. Len(file.words)
  BY <1>1, ReadOn DEF ReaderInv, ReaderTypeOK
<1>3. MayReturn(file, next) /\ \A j \in at + 1 .. next - 1 : ~MayReturn(file, j)
  BY <1>1, <1>2, NextWordIs DEF next
<1>4. Written'
  BY <1>1 DEF WrittenInv, Written
<1>5. SUFFICES ASSUME (phase = "production")'
               PROVE  \E h \in 1..at' : \E i \in h..at' : Pending(h, i)'
  BY <1>1, <1>4 DEF WrittenInv
<1>6. PICK h \in 1..at : \E i \in h..at : Pending(h, i)
  BY <1>1 DEF WrittenInv
<1>13. PICK i \in h..at : Pending(h, i)
  BY <1>6
<1>7. /\ h \in Nat /\ i \in Nat /\ h <= i /\ i <= at /\ h \in 1..at
      /\ Starts(file, h, i, lhs)
      /\ \A g \in h + 1 .. at :
           MayReturn(file, g) /\ IsEndOfProduction(file.words[g]) => Bracketed(file, h, g)
  BY <1>2, <1>13 DEF Pending
<1>8. ASSUME NEW end \in next..Len(file.words), at' = end,
             \A g \in next + 1 .. end : Bracketed(file, h, g)
      PROVE  /\ h \in 1..at' /\ i \in h..at'
             /\ \A g \in h + 1 .. at' : MayReturn(file, g) /\ IsEndOfProduction(file.words[g])
                  => Bracketed(file, h, g)
  <2>1. \A g \in h + 1 .. end : MayReturn(file, g) /\ IsEndOfProduction(file.words[g])
          => Bracketed(file, h, g)
    BY <1>1, <1>7, <1>8, HeadsPassed
  <2> QED  BY <1>2, <1>7, <1>8, <2>1
<1>9. next \in next..Len(file.words) /\ \A g \in next + 1 .. next : Bracketed(file, h, g)
  BY <1>2
<1>10. CASE LoadSymbol
  <2>1. /\ rhs' = Append(rhs, nextWord) /\ at' = next /\ ~closed /\ closed' = closed
        /\ share' = share /\ ~IsProbability(nextWord)
    BY <1>10 DEF LoadSymbol
  <2>2. /\ rhs = Between(file, i, at + 1)
        /\ \A k \in i + 1 .. (at + 1) - 1 : MayReturn(file, k) =>
             ~IsProbability(file.words[k]) /\ ~IsEndOfProduction(file.words[k])
    BY <1>13, <2>1 DEF Pending, Symbols
  <2>3. rhs' = Between(file, i, next + 1)
    BY <1>2, <1>3, <1>7, <2>1, <2>2, BetweenMore DEF nextWord
  <2>4. \A k \in i + 1 .. (next + 1) - 1 : MayReturn(file, k) =>
          ~IsProbability(file.words[k]) /\ ~IsEndOfProduction(file.words[k])
    <3> TAKE k \in i + 1 .. (next + 1) - 1
    <3>1. k \in i + 1 .. (at + 1) - 1 \/ k \in at + 1 .. next - 1 \/ k = next
      BY <1>2, <1>7
    <3> QED  BY <1>1, <1>3, <2>1, <2>2, <3>1 DEF nextWord
  <2>5. Symbols(file, i, at' + 1, rhs')
    BY <2>1, <2>3, <2>4 DEF Symbols
  <2>6. h \in 1..at' /\ i \in h..at' /\ Pending(h, i)'
    BY <1>1, <1>7, <1>8, <1>9, <2>1, <2>5 DEF Pending
  <2> QED  BY <2>6
<1>11. CASE LoadProbability
  <2> DEFINE end == Closing(file, next, "]")
  <2>1. /\ rhs' = rhs /\ at' = end /\ ~closed /\ closed' = TRUE /\ end # 0
        /\ IsProbability(nextWord)
        /\ share' \in IF Number(file, next, end, share) = Unset THEN Shares
                      ELSE {Number(file, next, end, share)}
    BY <1>5, <1>11 DEF LoadProbability, LoadEnds
  <2>2. end \in next..Len(file.words)
    BY <1>2, <2>1, ClosingFound
  <2>3. \A g \in next + 1 .. end : Bracketed(file, h, g)
    BY <1>1, <1>7, <2>1, <2>2, BracketCovers
  <2>4. Chance(file, next, share')
    <3>1. share # Unset \/ share = Unset
      OBVIOUS
    <3>2. Number(file, next, end, Unset) \in {share', Unset}
      BY <2>1, NumberOrOld
    <3> QED  BY <1>3, <2>1, <3>2 DEF Chance, nextWord
  <2>5. Symbols(file, i, next, rhs')
    <3>1. /\ rhs = Between(file, i, at + 1)
          /\ \A k \in i + 1 .. (at + 1) - 1 : MayReturn(file, k) =>
               ~IsProbability(file.words[k]) /\ ~IsEndOfProduction(file.words[k])
      BY <1>13, <2>1 DEF Pending, Symbols
    <3>2. rhs' = Between(file, i, next)
      BY <1>2, <1>3, <1>7, <2>1, <3>1, BetweenMore
    <3>3. \A k \in i + 1 .. next - 1 : MayReturn(file, k) =>
            ~IsProbability(file.words[k]) /\ ~IsEndOfProduction(file.words[k])
      <4> TAKE k \in i + 1 .. next - 1
      <4>1. k \in i + 1 .. (at + 1) - 1 \/ k \in at + 1 .. next - 1
        BY <1>2, <1>7
      <4> QED  BY <1>3, <3>1, <4>1
    <3> QED  BY <3>2, <3>3 DEF Symbols
  <2>6. next \in i + 1 .. at'
    BY <1>2, <1>7, <2>1, <2>2
  <2>7. h \in 1..at' /\ i \in h..at' /\ Pending(h, i)'
    <3>1. /\ h \in 1..at' /\ i \in h..at'
          /\ \A g \in h + 1 .. at' : MayReturn(file, g) /\ IsEndOfProduction(file.words[g])
               => Bracketed(file, h, g)
      BY <1>8, <2>1, <2>2, <2>3
    <3>2. \E p \in i + 1 .. at' : Chance(file, p, share') /\ Symbols(file, i, p, rhs')
      BY <2>4, <2>5, <2>6
    <3> QED  BY <1>1, <1>7, <2>1, <3>1, <3>2 DEF Pending
  <2> QED  BY <2>7
<1>12. CASE LoadLabel \/ SkipWord
  <2>1. closed /\ UNCHANGED <<rhs, share, closed>>
    BY <1>12 DEF LoadLabel, SkipWord, localVars
  <2>2. \E end \in next..Len(file.words) :
          at' = end /\ \A g \in next + 1 .. end : Bracketed(file, h, g)
    <3>1. CASE SkipWord
      BY <1>9, <3>1 DEF SkipWord
    <3>2. CASE LoadLabel
      <4> DEFINE end == Closing(file, next, ">")
      <4>1. at' = end /\ end # 0 /\ Is(nextWord, "<")
        BY <1>5, <3>2 DEF LoadLabel, LoadEnds
      <4>2. end \in next..Len(file.words)
        BY <1>2, <4>1, ClosingFound
      <4> QED  BY <1>1, <1>7, <4>1, <4>2, BracketCovers
    <3> QED  BY <1>12, <3>1, <3>2
  <2>3. /\ h \in 1..at' /\ i \in h..at'
        /\ \A g \in h + 1 .. at' : MayReturn(file, g) /\ IsEndOfProduction(file.words[g])
             => Bracketed(file, h, g)
    BY <1>8, <2>2
  <2>4. \E p \in i + 1 .. at' : Chance(file, p, share) /\ Symbols(file, i, p, rhs)
    <3>1. PICK p \in i + 1 .. at : Chance(file, p, share) /\ Symbols(file, i, p, rhs)
      BY <1>13, <2>1 DEF Pending
    <3>2. p \in i + 1 .. at'
      BY <1>2, <1>7, <2>2
    <3> QED  BY <3>1, <3>2
  <2>5. Pending(h, i)'
    BY <1>1, <1>7, <2>1, <2>3, <2>4 DEF Pending
  <2> QED  BY <2>3, <2>5
<1> QED  BY <1>10, <1>11, <1>12

\* A rule is complete.
LEMMA WrittenAdds ==
  ASSUME ReaderInv, WrittenInv, NextAlternative \/ EndProduction PROVE WrittenInv'
<1>1. /\ UNCHANGED <<file, lhs>> /\ phase = "production"
      /\ at \in Nat /\ at > 0 /\ Len(file.words) \in Nat /\ file \in Streams
  BY ReadOn DEF NextAlternative, EndProduction, Reading, localVars, ReaderInv, ReaderTypeOK
<1>2. PICK h \in 1..at : \E i \in h..at : Pending(h, i)
  BY <1>1 DEF WrittenInv
<1>3. PICK i \in h..at : Pending(h, i)
  BY <1>2
<1>4. Written'
  <2>1. CASE UNCHANGED GrammarVars
    BY <1>1, <2>1 DEF WrittenInv, Written, GrammarVars
  <2>2. CASE closed /\ AddRule(lhs, rhs, share)
    BY <1>1, <1>3, <2>2, RuleIsWritten DEF WrittenInv
  <2> QED  BY <2>1, <2>2 DEF NextAlternative, EndProduction
<1>5. next = 0 \/ (next \in at + 1 .. Len(file.words) /\ MayReturn(file, next))
  BY <1>1, NextWordIs DEF next
<1>6. CASE EndProduction
  <2>1. phase' \in {"check", "word", "done"} /\ (phase' = "word" => next # 0 /\ at' = next)
    BY <1>6 DEF EndProduction, LoadGoesOn, LoadEnds
  <2>2. (phase = "word" => MayReturn(file, at))'
    BY <1>1, <1>5, <2>1
  <2> QED  BY <1>4, <2>1, <2>2 DEF WrittenInv
<1>7. CASE NextAlternative
  <2>1. /\ rhs' = <<>> /\ closed' = FALSE /\ at' = next /\ phase' = "production"
        /\ next # 0 /\ ~IsEndOfProduction(nextWord) /\ Is(nextWord, "|")
    BY <1>7 DEF NextAlternative, LoadGoesOn, Reading
  <2>2. /\ h \in Nat /\ Starts(file, h, i, lhs)
        /\ \A g \in h + 1 .. at :
             MayReturn(file, g) /\ IsEndOfProduction(file.words[g]) => Bracketed(file, h, g)
    BY <1>1, <1>3 DEF Pending
  <2>3. next \in next..Len(file.words) /\ \A g \in next + 1 .. next : Bracketed(file, h, g)
    BY <1>1, <1>5, <2>1
  <2>4. \A g \in h + 1 .. next : MayReturn(file, g) /\ IsEndOfProduction(file.words[g])
          => Bracketed(file, h, g)
    BY <2>1, <2>2, <2>3, HeadsPassed
  <2>5. Starts(file, h, next, lhs)
    BY <1>5, <2>1, <2>2, <2>4 DEF Starts, nextWord
  <2>6. next \in Nat /\ h \in 1..next /\ next \in h..next
    BY <1>1, <1>5, <2>1
  <2>7. Symbols(file, next, next + 1, rhs')
    <3>1. h <= next
      BY <2>6
    <3> QED  BY <1>1, <2>1, <2>2, <2>5, <2>6, <3>1, AlternativeStarts
  <2>10. PICK j \in Nat : j = next
    BY <2>6
  <2>8. Pending(h, j)'
    <3>1. /\ Starts(file', h, j, lhs') /\ Symbols(file', j, at' + 1, rhs') /\ ~closed'
          /\ \A g \in h + 1 .. at' :
               MayReturn(file', g) /\ IsEndOfProduction(file'.words[g]) =>
                 Bracketed(file', h, g)
      BY <1>1, <2>1, <2>4, <2>5, <2>7, <2>10
    <3> QED  BY <3>1 DEF Pending
  <2>9. h \in 1..at' /\ j \in h..at'
    BY <2>1, <2>6, <2>10
  <2> QED  BY <1>4, <2>1, <2>8, <2>9 DEF WrittenInv
<1> QED  BY <1>6, <1>7

\* The steps outside of the productions
LEMMA WrittenElsewhere ==
  ASSUME ReaderInv, WrittenInv,
         \/ ReadWord \/ ReadHeader \/ LoadAxiom \/ LoadTerminal \/ LoadNonTerminal
         \/ NoSection \/ CheckFile
  PROVE  WrittenInv'
<1>1. UNCHANGED <<file, P>> /\ phase' \in {"read", "word", "entry", "check", "done"}
  BY DEF ReadWord, ReadHeader, LoadAxiom, LoadTerminal, LoadNonTerminal, NoSection,
         CheckFile, LoadGoesOn, LoadEnds, GrammarVars, AddAxiom, AddTerminal,
         AddNonTerminal, Check, CheckGrammar
<1>2. Written'
  BY <1>1 DEF WrittenInv, Written
<1>3. (phase \in {"word", "entry"} => MayReturn(file, at))'
  <2>1. file \in Streams /\ at \in Nat
    BY ReadOn DEF ReaderInv
  <2>2. CASE ReadWord
    BY <1>1, <2>1, <2>2, NextWordIs DEF ReadWord, LoadGoesOn, next
  <2>3. CASE ReadHeader
    <3> DEFINE entry == NextWord(file, next)
    <3>1. ASSUME phase' # "done" PROVE next # 0 /\ entry # 0 /\ at' = entry
      BY <2>3, <3>1 DEF ReadHeader, LoadEnds
    <3>2. ASSUME next # 0, entry # 0 PROVE MayReturn(file, entry)
      BY <2>1, <3>2, ReadOn, NextWordIs
    <3> QED  BY <1>1, <3>1, <3>2
  <2>4. CASE LoadAxiom \/ LoadTerminal \/ LoadNonTerminal \/ NoSection \/ CheckFile
    BY <2>4 DEF LoadAxiom, LoadTerminal, LoadNonTerminal, NoSection, CheckFile,
                LoadGoesOn, LoadEnds
  <2> QED  BY <2>2, <2>3, <2>4
<1> QED  BY <1>1, <1>2, <1>3 DEF WrittenInv

LEMMA LoadStepWritten == ASSUME ReaderInv, WrittenInv, LoadStep PROVE WrittenInv'
BY WrittenStarts, WrittenGoesOn, WrittenAdds, WrittenElsewhere DEF LoadStep

-----------------------------------------------------------------------------
(* The symbols are words of a file. *)

NamesInv == Range(T) \subseteq Words \cup {Empty} /\ NamesOf(N) \subseteq Words

LEMMA CheckGrammarNames == ASSUME IInv, NamesInv, CheckGrammar PROVE NamesInv'
<1>1. T \in Seq(Names) /\ Empty \in Names /\ N' = N
  BY DEF IInv, TypeOK, Names, CheckGrammar
<1>2. Range(T') \subseteq Range(T) \cup {Empty}
  BY <1>1, RangeAppend DEF CheckGrammar
<1>3. NamesOf(N') = NamesOf(N)
  BY <1>1
<1> QED  BY <1>2, <1>3 DEF NamesInv

LEMMA LoadStepNames == ASSUME ReaderInv, NamesInv, LoadStep PROVE NamesInv'
<1>1. CASE LoadTerminal
  <2>1. word \in Words /\ word \in Names
    BY <1>1, ReadOn DEF LoadTerminal, AtEntry, ReaderInv, ReaderTypeOK
  <2>2. T \in Seq(Names)
    BY DEF ReaderInv, IInv, TypeOK
  <2>3. (T' = T \/ T' = Append(T, word)) /\ N' = N
    BY <1>1 DEF LoadTerminal, AddTerminal
  <2>6. Range(Append(T, word)) = Range(T) \cup {word}
    BY <2>1, <2>2, RangeAppend
  <2>4. Range(T') \subseteq Range(T) \cup {word}
    BY <2>3, <2>6
  <2>5. NamesOf(N') = NamesOf(N)
    BY <2>3
  <2> QED  BY <2>1, <2>4, <2>5 DEF NamesInv
<1>2. CASE LoadNonTerminal
  <2>1. word \in Words /\ word \in Names
    BY <1>2, ReadOn DEF LoadNonTerminal, AtEntry, ReaderInv, ReaderTypeOK
  <2> DEFINE new == IF axiom.name = word THEN axiom ELSE Token(word, "NONTERMINAL")
  <2>2. N \in Seq(LeftSides) /\ axiom \in LeftSides
    BY DEF ReaderInv, IInv, TypeOK
  <2>3. new \in LeftSides /\ new.name = word
    BY <2>1, <2>2 DEF Token, LeftSides, Types
  <2>4. (N' = N \/ N' = Append(N, new)) /\ T' = T
    BY <1>2 DEF LoadNonTerminal, AddNonTerminal
  <2> HIDE DEF new
  <2>5. Range(N') \subseteq Range(N) \cup {new}
    BY <2>2, <2>3, <2>4, RangeAppend
  <2>6. NamesOf(N') \subseteq NamesOf(N) \cup {word}
    BY <2>3, <2>5 DEF NamesOf
  <2>7. Range(T') = Range(T)
    BY <2>4
  <2> QED  BY <2>1, <2>6, <2>7 DEF NamesInv
<1>3. CASE CheckFile
  BY <1>3, CheckGrammarNames DEF CheckFile, Check, ReaderInv
<1>4. CASE UNCHANGED <<T, N>>
  <2>1. Range(T') = Range(T) /\ NamesOf(N') = NamesOf(N)
    BY <1>4
  <2> QED  BY <2>1 DEF NamesInv
<1>5. CASE LoadAxiom \/ EndProduction \/ NextAlternative
  BY <1>4, <1>5 DEF LoadAxiom, EndProduction, NextAlternative, AddAxiom, AddRule, GrammarVars
<1>6. CASE \/ ReadWord \/ ReadHeader \/ NoSection \/ StartProduction
           \/ LoadLabel \/ SkipWord \/ LoadProbability \/ LoadSymbol
  BY <1>4, <1>6 DEF ReadWord, ReadHeader, NoSection, StartProduction, LoadLabel, SkipWord,
                    LoadProbability, LoadSymbol, GrammarVars
<1> QED  BY <1>1, <1>2, <1>3, <1>5, <1>6 DEF LoadStep

\* The symbols of a rule that stands in a file are words.
LEMMA SymbolsAreWords ==
  ASSUME NEW stream \in Streams, NEW name, NEW rule, StandsIn(stream, name, rule)
  PROVE  SymbolNames(rule) \in Seq(Words)
<1>1. stream.words \in Seq(Words) /\ Len(stream.words) \in Nat
      /\ DOMAIN stream.words = 1..Len(stream.words)
  BY LenProperties DEF Streams
<1>2. PICK h \in 1..Len(stream.words) : \E i \in h..Len(stream.words) :
        \E p \in i + 1 .. Len(stream.words) : Symbols(stream, i, p, SymbolNames(rule))
  BY <1>1 DEF StandsIn
<1>4. PICK i \in h..Len(stream.words) : \E p \in i + 1 .. Len(stream.words) :
        Symbols(stream, i, p, SymbolNames(rule))
  BY <1>2
<1>5. PICK p \in i + 1 .. Len(stream.words) : Symbols(stream, i, p, SymbolNames(rule))
  BY <1>4
<1>3. {k \in i + 1 .. p - 1 : MayReturn(stream, k)} \in SUBSET (1..Len(stream.words))
  BY <1>1
<1> QED  BY <1>1, <1>5, <1>3, EntriesType DEF Symbols, Between
=============================================================================
