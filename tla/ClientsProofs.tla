--------------------------- MODULE ClientsProofs ---------------------------
(***************************************************************************)
(* What the program, and whoever loads a grammar in C++, can rely on,      *)
(* proved for every file, every command line and every set of invocations: *)
(* what a load leaves in the grammar, and what became of the sequence.     *)
(* What the functions of the Python package do is only checked.            *)
(***************************************************************************)
EXTENDS Clients, GrammarFileProofs

-----------------------------------------------------------------------------
(* What is written *)

\* FlattenSeq, of a sequence of sequences over X, by its recursion
Joins(seqs, f) == f = [i \in 1..Len(seqs) |-> IF i = 1 THEN seqs[i] ELSE f[i - 1] \o seqs[i]]

LEMMA JoinExists == ASSUME NEW seqs, Len(seqs) \in Nat PROVE \E f : Joins(seqs, f)
<1> DEFINE n == Len(seqs)
           At(f, i) == f[i] = IF i = 1 THEN seqs[i] ELSE f[i - 1] \o seqs[i]
           Upto(m, f) == \A i \in 1..m : At(f, i)
           Missing == {m \in Nat : ~\E f : Upto(m, f)}
<1>1. Missing = {}
  <2> SUFFICES ASSUME Missing # {} PROVE FALSE
    OBVIOUS
  <2>1. PICK m \in Missing : \A j \in Missing : m <= j
    BY LeastElement
  <2>2. m \in Nat /\ ~\E f : Upto(m, f)
    OBVIOUS
  <2>3. CASE m = 0
    <3>1. Upto(m, <<>>)
      BY <2>3
    <3> QED  BY <2>2, <3>1
  <2>4. CASE m # 0
    <3>1. m - 1 \in Nat /\ m - 1 \notin Missing
      <4> HIDE DEF Missing
      <4> QED  BY <2>1, <2>2, <2>4
    <3>2. PICK f : Upto(m - 1, f)
      BY <3>1
    <3> DEFINE last == IF m = 1 THEN seqs[m] ELSE f[m - 1] \o seqs[m]
               g == [i \in 1..m |-> IF i = m THEN last ELSE f[i]]
    <3>3. \A i \in 1..m : g[i] = IF i = m THEN last ELSE f[i]
      OBVIOUS
    <3> HIDE DEF g
    <3>4. ASSUME NEW i \in 1..m PROVE At(g, i)
      <4>1. i - 1 \in Nat /\ (i # 1 => i - 1 \in 1..m /\ i - 1 # m)
        BY <2>2
      <4>2. CASE i = m
        BY <3>3, <4>1, <4>2
      <4>3. CASE i # m
        <5>1. i \in 1..m - 1
          BY <2>2, <4>3
        <5>2. At(f, i)
          BY <3>2, <5>1
        <5> QED  BY <3>3, <4>1, <4>3, <5>2
      <4> QED  BY <4>2, <4>3
    <3>5. Upto(m, g)
      BY <3>4
    <3> QED  BY <2>2, <3>5
  <2> QED  BY <2>3, <2>4
<1>2. PICK g : Upto(n, g)
  BY <1>1
<1> DEFINE f == [i \in 1..n |-> g[i]]
<1>3. ASSUME NEW i \in 1..n
      PROVE  f[i] = IF i = 1 THEN seqs[i] ELSE f[i - 1] \o seqs[i]
  <2>1. i # 1 => i - 1 \in 1..n
    OBVIOUS
  <2>2. At(g, i)
    BY <1>2
  <2> QED  BY <2>1, <2>2
<1>4. f = [i \in 1..n |-> IF i = 1 THEN seqs[i] ELSE f[i - 1] \o seqs[i]]
  <2>1. f = [i \in 1..n |-> f[i]]
    OBVIOUS
  <2> HIDE DEF f
  <2> QED  BY <1>3, <2>1
<1> QED  BY <1>4 DEF Joins

LEMMA FlattenType ==
  ASSUME NEW X, NEW seqs \in Seq(Seq(X))
  PROVE  FlattenSeq(seqs) \in Seq(X)
<1> DEFINE n == Len(seqs)
           f == CHOOSE it : Joins(seqs, it)
<1>1. n \in Nat /\ \A i \in 1..n : seqs[i] \in Seq(X)
  BY LenProperties
<1>2. Joins(seqs, f)
  BY <1>1, JoinExists
<1>3. FlattenSeq(seqs) = IF n = 0 THEN seqs ELSE f[n]
  BY DEF FlattenSeq, Joins
<1> HIDE DEF f
<1>4. \A i \in 1..n : f[i] = IF i = 1 THEN seqs[i] ELSE f[i - 1] \o seqs[i]
  BY <1>2 DEF Joins
<1> HIDE DEF n
<1> DEFINE Bad == {i \in 1..n : f[i] \notin Seq(X)}
<1>5. Bad = {}
  <2> SUFFICES ASSUME Bad # {} PROVE FALSE
    OBVIOUS
  <2>1. Bad \subseteq Nat
    BY <1>1
  <2>2. PICK m \in Bad : \A j \in Bad : m <= j
    BY <2>1, LeastElement
  <2>3. m \in 1..n /\ m \in Nat /\ f[m] \notin Seq(X)
    BY <2>1
  <2>4. CASE m = 1
    BY <1>1, <1>4, <2>3, <2>4
  <2>5. CASE m # 1
    <3>1. m - 1 \in 1..n /\ m - 1 \notin Bad
      BY <1>1, <2>2, <2>3, <2>5
    <3>2. f[m - 1] \in Seq(X) /\ seqs[m] \in Seq(X)
      BY <1>1, <2>3, <3>1
    <3> QED  BY <1>4, <2>3, <2>5, <3>2, ConcatProperties
  <2> QED  BY <2>4, <2>5
<1>6. CASE n = 0
  BY <1>1, <1>3, <1>6, EmptySeq DEF n
<1>7. CASE n # 0
  BY <1>1, <1>3, <1>5, <1>7
<1> QED  BY <1>6, <1>7

\* What dumpGrammar has to print of a grammar that was accepted
LEMMA RulesArePrintable ==
  ASSUME ReaderInv, NamesInv, Written, CheckedOK, NEW name \in NamesOf(N),
         Productions(name) # {}
  PROVE  /\ Heads[name] \in Words /\ Len(RulesListed(name)) \in Nat
         /\ DOMAIN RulesListed(name) = 1..Len(RulesListed(name))
         /\ \A j \in 1..Len(RulesListed(name)) :
              /\ SymbolNames(RulesListed(name)[j]) \in Seq(Words)
              /\ Printed[RulesListed(name)[j].prob] \in Seq(Words)
<1> DEFINE k == First(Productions(name))
           rules == P[k].rules
<1>1. k \in DOMAIN P /\ P[k].lhs.name = name
  BY ProductionFound DEF ReaderInv, IInv, Productions
<1>2. P[k] \in ProductionsOf /\ rules # <<>>
  BY <1>1, LenProperties DEF ReaderInv, IInv, TypeOK, DeclaredBeforeUse
<1>3. /\ rules \in Seq(RulesOf) /\ Len(rules) \in Nat /\ Len(rules) # 0
      /\ DOMAIN rules = 1..Len(rules)
  BY <1>2, LenProperties, EmptySeq DEF ProductionsOf
<1>4. RulesListed(name) = rules
  BY DEF RulesListed
<1>5. Whole(rules) = Full
  BY <1>1 DEF ReaderInv, IInv, Checked, AddsUp
<1> HIDE DEF k, rules
<1>6. \A j \in 1..Len(rules) : /\ rules[j] \in RulesOf /\ rules[j] \in Range(rules)
                               /\ rules[j].prob \in Shares /\ rules[j].prob \in Nat
  <2> TAKE j \in 1..Len(rules)
  <2>1. rules[j] \in RulesOf
    BY <1>3, LenProperties
  <2> QED  BY <1>3, <2>1, SharesAssumption DEF RulesOf, Range
<1>7. \A j \in 1..Len(rules) : StandsIn(file, name, rules[j])
  BY <1>1, <1>6 DEF Written, rules
<1>8. \A j \in 1..Len(rules) : SymbolNames(rules[j]) \in Seq(Words)
  BY <1>7, SymbolsAreWords DEF ReaderInv
<1>9. Heads[name] \in Words
  <2>1. StandsIn(file, name, rules[1])
    BY <1>3, <1>7
  <2>2. PICK h \in DOMAIN file.words : \E i \in h..Len(file.words) : Starts(file, h, i, name)
    BY <2>1 DEF StandsIn
  <2>3. name = IF Closes(file.words[h], ":") THEN Spelled[file.words[h]].stem
               ELSE file.words[h]
    BY <2>2 DEF Starts
  <2>4. file.words[h] \in Words
    BY LenProperties DEF ReaderInv, Streams
  <2>5. name # Empty
    BY DEF ReaderInv
  <2> QED  BY <2>3, <2>4, <2>5, PrintingAssumption
<1>10. ASSUME NEW j \in 1..Len(rules) PROVE Printed[rules[j].prob] \in Seq(Words)
  <2> DEFINE t == [i \in DOMAIN rules |-> rules[i].prob]
  <2>1. IsFiniteSet(DOMAIN t) /\ \A i \in DOMAIN t : t[i] \in Nat
    <3>1. DOMAIN t = 1..Len(rules)
      BY <1>3
    <3>2. IsFiniteSet(1..Len(rules))
      BY <1>3, FS_Interval
    <3>3. \A i \in 1..Len(rules) : t[i] = rules[i].prob
      BY <1>3
    <3> QED  BY <1>6, <3>1, <3>2, <3>3
  <2>2. j \in DOMAIN t /\ t[j] = rules[j].prob /\ SumFunction(t) = Full
    BY <1>3, <1>5 DEF Whole
  <2> HIDE DEF t
  <2>3. t[j] <= SumFunction(t)
    BY <2>1, <2>2, SumIsNoLess
  <2> QED  BY <1>6, <2>2, <2>3, PrintingAssumption
<1> QED  BY <1>3, <1>4, <1>8, <1>9, <1>10

LEMMA ProductionIsPrinted ==
  ASSUME ReaderInv, NamesInv, Written, CheckedOK, NEW name \in NamesOf(N),
         Productions(name) # {}
  PROVE  DumpProduction(name) \in Seq(Words)
<1> DEFINE rules == RulesListed(name)
           line(j) == (IF j = 1 THEN <<>> ELSE <<"|">>) \o SymbolNames(rules[j])
                      \o Printed[rules[j].prob]
           lines == [j \in DOMAIN rules |-> line(j)]
<1>1. /\ Heads[name] \in Words /\ Len(rules) \in Nat /\ DOMAIN rules = 1..Len(rules)
      /\ \A j \in 1..Len(rules) : /\ SymbolNames(rules[j]) \in Seq(Words)
                                  /\ Printed[rules[j].prob] \in Seq(Words)
  BY RulesArePrintable
<1> HIDE DEF rules
<1>2. "|" \in Words
  BY PrintingAssumption
<1>3. ASSUME NEW j \in 1..Len(rules) PROVE line(j) \in Seq(Words)
  <2> DEFINE bar == IF j = 1 THEN <<>> ELSE <<"|">>
  <2>1. bar \in Seq(Words)
    BY <1>2, EmptySeq
  <2> HIDE DEF bar
  <2>2. bar \o SymbolNames(rules[j]) \in Seq(Words)
    BY <1>1, <2>1, ConcatProperties
  <2>3. (bar \o SymbolNames(rules[j])) \o Printed[rules[j].prob] \in Seq(Words)
    BY <1>1, <2>2, ConcatProperties
  <2> QED  BY <2>3 DEF bar
<1>4. lines \in [1..Len(rules) -> Seq(Words)]
  BY <1>1, <1>3
<1>5. lines \in Seq(Seq(Words))
  BY <1>1, <1>4, SeqDef
<1>6. FlattenSeq(lines) \in Seq(Words)
  BY <1>5, FlattenType
<1>7. <<Heads[name]>> \in Seq(Words)
  BY <1>1
<1>8. DumpProduction(name) = <<Heads[name]>> \o FlattenSeq(lines)
  BY DEF DumpProduction, rules
<1> QED  BY <1>6, <1>7, <1>8, ConcatProperties

\* What operator<< writes of a grammar that was accepted can be read.
LEMMA GrammarIsPrinted ==
  ASSUME ReaderInv, NamesInv, Written, CheckedOK
  PROVE  [words |-> DumpGrammar, ended |-> TRUE] \in Streams
<1>1. N \in Seq(LeftSides) /\ Len(N) \in Nat /\ DOMAIN N = 1..Len(N)
      /\ T \in Seq(Names) /\ Len(T) \in Nat /\ DOMAIN T = 1..Len(T)
  BY LenProperties DEF ReaderInv, IInv, TypeOK
<1>2. {"Section", "Terminals", "NonTerminals", "Axiom", "Productions"} \subseteq Words
  BY PrintingAssumption
<1>3. \A i \in 1..Len(N) : N[i].name \in NamesOf(N) /\ N[i].name \in Words
  BY <1>1 DEF NamesInv, NamesOf, Range
<1>4. axiom.name \in Words
  BY DEF ReaderInv, IInv, Checked, WellFormedBut, NamesInv
<1>5. NamedTerminals \in Seq(Words)
  <2> DEFINE S == {i \in DOMAIN T : T[i] # Empty}
  <2>1. S \in SUBSET (1..Len(T)) /\ \A i \in S : T[i] \in Words
    BY <1>1 DEF NamesInv, Range
  <2>2. /\ NamedTerminals \in Seq(Names) /\ Len(NamedTerminals) = Cardinality(S)
        /\ \A k \in 1..Cardinality(S) : NamedTerminals[k] = T[Ascending(S)[k]]
    BY <1>1, <2>1, EntriesType DEF NamedTerminals
  <2>3. \A k \in 1..Cardinality(S) : Ascending(S)[k] \in S
    BY <1>1, <2>1, AscendingEntries
  <2>4. Len(NamedTerminals) \in Nat
        /\ NamedTerminals \in [1..Len(NamedTerminals) -> Names]
    BY <2>2, LenProperties
  <2> HIDE DEF S
  <2>5. \A k \in 1..Len(NamedTerminals) : NamedTerminals[k] \in Words
    BY <2>1, <2>2, <2>3
  <2>6. NamedTerminals \in [1..Len(NamedTerminals) -> Words]
    BY <2>4, <2>5
  <2> QED  BY <2>4, <2>6, SeqDef
<1> DEFINE nonterminals == [i \in DOMAIN N |-> N[i].name]
           part(i) == IF Productions(N[i].name) = {} THEN <<>> ELSE DumpProduction(N[i].name)
           parts == [i \in DOMAIN N |-> part(i)]
<1>6. nonterminals \in Seq(Words)
  <2>1. nonterminals \in [1..Len(N) -> Words]
    BY <1>1, <1>3
  <2> QED  BY <1>1, <2>1, SeqDef
<1>7. FlattenSeq(parts) \in Seq(Words)
  <2>1. \A i \in 1..Len(N) : part(i) \in Seq(Words)
    BY <1>3, ProductionIsPrinted, EmptySeq
  <2>2. parts \in [1..Len(N) -> Seq(Words)]
    BY <1>1, <2>1
  <2>3. parts \in Seq(Seq(Words))
    <3> HIDE DEF parts
    <3> QED  BY <1>1, <2>2, SeqDef
  <2> QED  BY <2>3, FlattenType
<1> HIDE DEF nonterminals, parts
<1>8. /\ <<"Section", "Terminals">> \in Seq(Words)
      /\ <<"Section", "NonTerminals">> \in Seq(Words)
      /\ <<"Section", "Axiom", axiom.name>> \in Seq(Words)
      /\ <<"Section", "Productions">> \in Seq(Words)
  BY <1>2, <1>4
<1> DEFINE w1 == <<"Section", "Terminals">> \o NamedTerminals
           w2 == w1 \o <<"Section", "NonTerminals">>
           w3 == w2 \o nonterminals
           w4 == w3 \o <<"Section", "Axiom", axiom.name>>
           w5 == w4 \o <<"Section", "Productions">>
<1>9. w1 \in Seq(Words)
  BY <1>5, <1>8, ConcatProperties
<1>10. w2 \in Seq(Words)
  BY <1>8, <1>9, ConcatProperties
<1>11. w3 \in Seq(Words)
  BY <1>6, <1>10, ConcatProperties
<1>12. w4 \in Seq(Words)
  BY <1>8, <1>11, ConcatProperties
<1>13. w5 \in Seq(Words)
  BY <1>8, <1>12, ConcatProperties
<1>14. w5 \o FlattenSeq(parts) \in Seq(Words)
  BY <1>7, <1>13, ConcatProperties
<1>15. DumpGrammar = w5 \o FlattenSeq(parts)
  BY DEF DumpGrammar, nonterminals, parts
<1> QED  BY <1>14, <1>15 DEF Streams

InvocationOK ==
  invocation \in [client : {"program", "library", "python"}, args : Seq(STRING),
                  disk : [DOMAIN invocation.disk -> Streams],
                  input : Streams, simple : BOOLEAN]

\* The clients of Stream.h
InCpp == invocation.client # "python"

\* The grammar's stream is a file that was opened, and nothing was read of it yet
\* while the options are.
StreamsInv ==
  /\ argument \in Nat
  /\ opened \in Seq(STRING) /\ (opened # <<>> => opened[1] \in DOMAIN invocation.disk)
  /\ stage = "options" => at = 0 /\ phase = "read"

\* Where the clients are
StagesInv ==
  /\ invocation.client = "program" =>
       stage \in {"options", "load", "construct", "lines", "viterbi", "ended"}
  /\ stage = "options" => invocation.client = "program"
  /\ stage = "construct" => invocation.client = "program" /\ phase = "done" /\ loaded = "OK"
  /\ stage \in {"reload", "sequence"} => invocation.client = "library"
  /\ stage \in {"python", "constructInPython", "parseLine"} <=>
       invocation.client = "python" /\ stage # "ended"

\* What the reader makes of its file
SourceInv ==
  /\ stage = "options" => P = <<>>
  /\ stage \in {"load", "reload"} => WrittenInv

ClientsInv ==
  /\ InvocationOK /\ StreamsInv /\ StagesInv /\ SourceInv
  /\ InCpp => ReaderInv /\ NamesInv
  /\ loaded # "terminated" /\ exit # "terminated"

-----------------------------------------------------------------------------
LEMMA ClientsInitInv == ClientsInit => ClientsInv
<1> SUFFICES ASSUME ClientsInit PROVE ClientsInv
  OBVIOUS
<1>1. InvocationOK
  <2>1. invocation \in Invocations
    BY DEF ClientsInit
  <2> QED  BY <2>1, InvocationsAssumption DEF InvocationOK
<1>2. StreamsInv
  BY EmptySeq DEF ClientsInit, StreamsInv
<1>3. ReaderInv /\ NamesInv /\ SourceInv
  <2>1. IInv /\ Empty \notin NamesOf(N) /\ NamesInv /\ P = <<>>
    <3>1. Init
      BY DEF ClientsInit
    <3>2. N = <<>> /\ T = <<>> /\ P = <<>>
      BY <3>1 DEF Init
    <3> QED  BY <3>1, <3>2, InitInv DEF NamesOf, NamesInv, Range
  <2>2. file \in Streams
    <3>1. Blank \in Streams
      BY EmptySeq DEF Blank, Streams
    <3>2. invocation.client # "program" => "grammar" \in DOMAIN invocation.disk
      BY InvocationsAssumption DEF ClientsInit
    <3>3. \A name \in DOMAIN invocation.disk : invocation.disk[name] \in Streams
      BY <1>1 DEF InvocationOK
    <3> QED  BY <3>1, <3>2, <3>3 DEF ClientsInit
  <2>3. ReaderTypeOK
    <3>1. 0 \in 0..Len(file.words)
      BY <2>2, StreamLength
    <3>2. /\ at = 0 /\ phase = "read" /\ section = "UNKNOWN" /\ lhs = Empty /\ rhs = <<>>
          /\ closed = FALSE /\ share = Unset
      BY DEF ClientsInit
    <3> QED  BY <3>1, <3>2, EmptySeq DEF ReaderTypeOK, Phases, Names
  <2>4. Accepted /\ SourceInv
    BY <2>1 DEF ClientsInit, Accepted, SourceInv, WrittenInv, Written
  <2> QED  BY <2>1, <2>2, <2>3, <2>4 DEF ReaderInv
<1> QED  BY <1>1, <1>2, <1>3, InvocationsAssumption DEF ClientsInit, ClientsInv, StagesInv

-----------------------------------------------------------------------------
LEMMA ReaderStays ==
  ASSUME ReaderInv, NamesInv, UNCHANGED <<readerVars, GrammarVars>>
  PROVE  ReaderInv' /\ NamesInv'
<1>1. IInv' /\ (Empty \notin NamesOf(N))'
  BY GrammarStays DEF ReaderInv
<1>4. NamesInv'
  BY DEF NamesInv, NamesOf, GrammarVars
<1>2. UNCHANGED <<file, at, phase, section, lhs, rhs, share, closed, loaded, answer>>
  BY DEF readerVars, localVars, GrammarVars
<1>3. ReaderTypeOK' /\ Accepted' /\ (file \in Streams)'
  BY <1>2 DEF ReaderInv, ReaderTypeOK, Accepted, CheckedOK
<1> QED  BY <1>1, <1>3, <1>4 DEF ReaderInv

LEMMA SourceStays ==
  ASSUME SourceInv, UNCHANGED <<readerVars, GrammarVars>>,
         stage' = stage \/ stage' \notin {"options", "load", "reload"}
  PROVE  SourceInv'
<1>1. UNCHANGED <<file, at, phase, lhs, rhs, share, closed, P>>
  BY DEF readerVars, localVars, GrammarVars
<1>2. WrittenInv => WrittenInv'
  BY <1>1 DEF WrittenInv, Written, Pending
<1> QED  BY <1>1, <1>2 DEF SourceInv

\* How many words are printed is a number.
LEMMA PrintedCounts ==
  ASSUME ReaderInv
  PROVE  /\ Len(NamedTerminals) \in Nat /\ GrammarDump \in Nat
         /\ LineDump(Len(NamedTerminals)) \in Nat /\ Forecasts \subseteq Nat
<1>1. Len(NamedTerminals) \in Nat
  <2>1. T \in Seq(Names)
    BY DEF ReaderInv, IInv, TypeOK
  <2> QED  BY <2>1, NamedType DEF Named, NamedTerminals
<1>2. \A count \in Nat : LineDump(count) \in Nat
  BY DEF LineDump
<1>3. GrammarDump \in Nat
  BY <1>1 DEF GrammarDump
<1>4. Forecasts \subseteq Nat
  <2>1. \A count \in 0..Len(NamedTerminals) : 21 + 2 * count + LineDump(count) \in Nat
    <3> TAKE count \in 0..Len(NamedTerminals)
    <3>1. count \in Nat /\ LineDump(count) \in Nat
      BY <1>1, <1>2
    <3> QED  BY <3>1
  <2>2. CASE Taken("--predict")
    BY <2>1, <2>2 DEF Forecasts
  <2>3. CASE ~Taken("--predict")
    BY <2>3 DEF Forecasts
  <2> QED  BY <2>2, <2>3
<1> QED  BY <1>1, <1>2, <1>3, <1>4

\* Printing adds words to a file, and only where the program reads them again.
LEMMA PrintsInv ==
  ASSUME ClientsInv, NEW count \in Nat, Prints(count)
  PROVE  /\ InvocationOK' /\ invocation'.client = invocation.client
         /\ invocation'.args = invocation.args
         /\ DOMAIN invocation'.disk = DOMAIN invocation.disk
         /\ ~FeedsItself => invocation' = invocation
<1> DEFINE disk == invocation.disk
           text == [i \in 1..count |-> Prose]
           longer == [words |-> disk[opened[2]].words \o text, ended |-> TRUE]
           printed == [disk EXCEPT ![opened[2]] = longer]
<1>1. CASE ~FeedsItself
  BY <1>1 DEF Prints, ClientsInv, InvocationOK
<1>2. CASE FeedsItself
  <2>1. text \in Seq(Words)
    <3>1. \A i \in 1..count : Prose \in Words
      BY ProseAssumption
    <3> QED  BY <3>1, IsASeq
  <2>2. disk \in [DOMAIN disk -> Streams]
    BY DEF ClientsInv, InvocationOK
  <2> HIDE DEF text
  <2>3. opened[2] \in DOMAIN disk => longer \in Streams
    <3> SUFFICES ASSUME opened[2] \in DOMAIN disk PROVE longer \in Streams
      OBVIOUS
    <3>1. disk[opened[2]] \in Streams
      BY <2>2
    <3>2. disk[opened[2]].words \in Seq(Words)
      BY <3>1 DEF Streams
    <3>3. disk[opened[2]].words \o text \in Seq(Words)
      BY <2>1, <3>2, ConcatProperties
    <3> QED  BY <3>3 DEF Streams
  <2>4. invocation' = [invocation EXCEPT !.disk = printed]
    BY <1>2 DEF Prints, text
  <2> HIDE DEF longer
  <2>5. printed \in [DOMAIN disk -> Streams]
    BY <2>2, <2>3
  <2> HIDE DEF printed
  <2> QED  BY <1>2, <2>4, <2>5 DEF ClientsInv, InvocationOK
<1> QED  BY <1>1, <1>2

\* A turn of the loop, as far as files are concerned
LEMMA ParseLinePrints ==
  ASSUME ClientsInv, ParseLine
  PROVE  /\ InvocationOK' /\ invocation'.client = invocation.client
         /\ invocation'.args = invocation.args
         /\ DOMAIN invocation'.disk = DOMAIN invocation.disk
         /\ ~FeedsItself => invocation' = invocation
<1>1. ReaderInv
  BY DEF ClientsInv, StagesInv, InCpp, ParseLine
<1>2. invocation' = invocation
      \/ \E count \in Forecasts : Prints(LineDump(Len(NamedTerminals)) + count)
  BY DEF ParseLine, TakeLine
<1>3. CASE invocation' = invocation
  BY <1>3 DEF ClientsInv, InvocationOK
<1>4. CASE \E count \in Forecasts : Prints(LineDump(Len(NamedTerminals)) + count)
  <2>1. PICK count \in Forecasts : Prints(LineDump(Len(NamedTerminals)) + count)
    BY <1>4
  <2> DEFINE n == LineDump(Len(NamedTerminals)) + count
  <2>2. n \in Nat /\ Prints(n)
    BY <1>1, <2>1, PrintedCounts
  <2> HIDE DEF n
  <2> QED  BY <2>2, PrintsInv
<1> QED  BY <1>2, <1>3, <1>4

\* The steps after the grammar was loaded, and those of the options but one
LEMMA PlainStepInv ==
  ASSUME ClientsInv,
         \/ TakeOption \/ RefuseOption \/ RefuseStream \/ MissGrammar \/ ParseLine \/ Report
         \/ Reloaded \/ LoadSequence \/ PythonEnds \/ ParseLineInPython \/ LinesEnd
  PROVE  ClientsInv'
<1>1. /\ UNCHANGED <<opened, readerVars, GrammarVars>>
      /\ stage' \in {stage, "ended", "viterbi", "sequence", "constructInPython"}
  BY DEF TakeOption, RefuseOption, RefuseStream, MissGrammar, ParseLine, TakeLine, Report,
         Reloaded, LoadSequence, PythonEnds, ParseLineInPython, LinesEnd, Ends, Proceeds,
         clientVars
<1>2. loaded' = loaded /\ at' = at /\ phase' = phase
  BY <1>1 DEF readerVars
<1>3. /\ InvocationOK' /\ invocation'.client = invocation.client
      /\ DOMAIN invocation'.disk = DOMAIN invocation.disk
  <2>1. CASE ParseLine
    BY <2>1, ParseLinePrints
  <2>2. CASE ~ParseLine
    <3>1. invocation' = invocation
      BY <2>2 DEF TakeOption, RefuseOption, RefuseStream, MissGrammar, Report, Reloaded,
         LoadSequence, PythonEnds, ParseLineInPython, LinesEnd, clientVars
    <3> QED  BY <3>1 DEF ClientsInv, InvocationOK
  <2> QED  BY <2>1, <2>2
<1>4. StreamsInv'
  <2>1. argument' = argument \/ argument' = argument + 1
    BY DEF TakeOption, RefuseOption, RefuseStream, MissGrammar, ParseLine, Report, Reloaded,
           LoadSequence, PythonEnds, ParseLineInPython, LinesEnd, clientVars
  <2> QED  BY <1>1, <1>2, <1>3, <2>1 DEF ClientsInv, StreamsInv
<1>5. StagesInv'
  <2>1. /\ stage' = "sequence" => invocation.client = "library" \/ stage = "sequence"
        /\ stage' = "constructInPython" => stage \in {"python", "constructInPython"}
        /\ stage' = "viterbi" => stage \in {"lines", "viterbi"}
    BY DEF ClientsInv, StagesInv, TakeOption, RefuseOption, RefuseStream, MissGrammar,
           ParseLine, TakeLine, Report, Reloaded, LoadSequence, PythonEnds, ParseLineInPython,
           LinesEnd, Ends, Proceeds
  <2> QED  BY <1>1, <1>2, <1>3, <2>1 DEF ClientsInv, StagesInv
<1>6. (InCpp => ReaderInv /\ NamesInv)' /\ SourceInv'
  <2>1. InCpp' = InCpp
    BY <1>3 DEF InCpp
  <2> QED  BY <1>1, <2>1, ReaderStays, SourceStays DEF ClientsInv
<1>7. exit' # "terminated"
  BY DEF ClientsInv, TakeOption, RefuseOption, RefuseStream, MissGrammar, ParseLine, TakeLine,
         Report, Reloaded, LoadSequence, PythonEnds, ParseLineInPython, LinesEnd, Ends,
         Proceeds, LoadLine
<1> QED  BY <1>2, <1>3, <1>4, <1>5, <1>6, <1>7 DEF ClientsInv

\* A stream more, and possibly an empty file more.
LEMMA OpenStreamInv == ASSUME ClientsInv, OpenStream PROVE ClientsInv'
<1> DEFINE disk == invocation.disk
           emptied == [disk EXCEPT ![arg] = Blank]
<1>1. /\ UNCHANGED <<stage, exit, readerVars, GrammarVars>> /\ stage = "options"
      /\ opened' = Append(opened, arg) /\ argument' = argument + 1
      /\ argument < Len(invocation.args) /\ Opens
  BY DEF OpenStream, ArgumentLeft
<1>2. arg \in STRING /\ argument \in Nat
  <2>1. invocation.args \in Seq(STRING) /\ argument \in Nat
    BY DEF ClientsInv, InvocationOK, StreamsInv
  <2>2. argument + 1 \in 1..Len(invocation.args)
    BY <1>1, <2>1, LenProperties
  <2> QED  BY <2>1, <2>2, LenProperties DEF arg
<1>3. /\ InvocationOK' /\ invocation'.client = invocation.client
      /\ DOMAIN invocation'.disk = DOMAIN invocation.disk
  <2>1. emptied \in [DOMAIN disk -> Streams]
    BY EmptySeq DEF Blank, Streams, ClientsInv, InvocationOK
  <2>2. CASE invocation' = invocation
    BY <2>2 DEF ClientsInv, InvocationOK
  <2>3. CASE invocation' = [invocation EXCEPT !.disk = emptied]
    <3> HIDE DEF emptied
    <3> QED  BY <2>1, <2>3 DEF ClientsInv, InvocationOK
  <2> QED  BY <2>2, <2>3 DEF OpenStream
<1>4. StreamsInv'
  <2>1. opened \in Seq(STRING) /\ (opened # <<>> => opened[1] \in DOMAIN disk)
    BY DEF ClientsInv, StreamsInv
  <2>2. opened' \in Seq(STRING) /\ Len(opened') = Len(opened) + 1
    BY <1>1, <1>2, <2>1, AppendProperties
  <2>3. opened'[1] \in DOMAIN disk
    <3>1. CASE opened = <<>>
      BY <1>1, <3>1, EmptySeq DEF Opens
    <3>2. CASE opened # <<>>
      <4>1. 1 \in 1..Len(opened)
        BY <2>1, <3>2, EmptySeq, LenProperties
      <4> QED  BY <1>1, <1>2, <2>1, <3>2, <4>1, AppendProperties
    <3> QED  BY <3>1, <3>2
  <2> QED  BY <1>1, <1>2, <1>3, <2>2, <2>3 DEF ClientsInv, StreamsInv, readerVars
<1>5. StagesInv'
  BY <1>1, <1>3 DEF ClientsInv, StagesInv
<1>6. (InCpp => ReaderInv /\ NamesInv)' /\ SourceInv'
  BY <1>1, <1>3, ReaderStays, SourceStays DEF ClientsInv, InCpp
<1> QED  BY <1>1, <1>3, <1>4, <1>5, <1>6 DEF ClientsInv, readerVars

\* The reader starts at the beginning of a file that exists.
LEMMA TakeStreamsInv == ASSUME ClientsInv, TakeStreams PROVE ClientsInv'
<1>1. /\ UNCHANGED <<invocation, argument, opened, exit, at, phase, section, lhs, rhs, share,
                     closed, loaded, GrammarVars>>
      /\ stage = "options" /\ stage' = "load" /\ opened # <<>>
      /\ file' = invocation.disk[opened[1]]
  BY DEF TakeStreams, Proceeds, clientVars, localVars
<1>2. InvocationOK' /\ StreamsInv' /\ StagesInv'
  BY <1>1 DEF ClientsInv, InvocationOK, StreamsInv, StagesInv
<1>3. ReaderInv' /\ NamesInv' /\ SourceInv'
  <2>1. file' \in Streams
    BY <1>1 DEF ClientsInv, InvocationOK, StreamsInv
  <2>2. ReaderInv /\ NamesInv /\ P = <<>>
    BY <1>1 DEF ClientsInv, StagesInv, SourceInv, InCpp
  <2>3. IInv' /\ (Empty \notin NamesOf(N))'
    BY <1>1, <2>2, GrammarStays DEF ReaderInv
  <2>4. at = 0 /\ phase = "read"
    BY <1>1 DEF ClientsInv, StreamsInv
  <2>5. 0 \in 0..Len(file'.words)
    BY <2>1, StreamLength
  <2>6. ReaderTypeOK' /\ Accepted'
    BY <1>1, <2>2, <2>4, <2>5 DEF ReaderInv, ReaderTypeOK, Accepted, Phases
  <2>7. NamesInv' /\ SourceInv'
    BY <1>1, <2>2, <2>4 DEF NamesInv, NamesOf, GrammarVars, SourceInv, WrittenInv, Written
  <2> QED  BY <2>1, <2>3, <2>6, <2>7 DEF ReaderInv
<1> QED  BY <1>1, <1>2, <1>3 DEF ClientsInv

LEMMA TakeGrammarInv == ASSUME ClientsInv, TakeGrammar PROVE ClientsInv'
<1>1. /\ UNCHANGED <<argument, opened, readerVars, GrammarVars>>
      /\ stage = "load" /\ invocation.client = "program" /\ phase = "done"
      /\ stage' \in {"construct", "ended"} /\ (stage' = "construct" => loaded = "OK")
      /\ exit' \in {exit, "killed", "-2"}
      /\ invocation' = invocation \/ Prints(GrammarDump)
  BY DEF TakeGrammar, Proceeds, Ends
<1>2. InvocationOK' /\ StreamsInv' /\ StagesInv'
  <2>1. /\ InvocationOK' /\ invocation'.client = invocation.client
        /\ DOMAIN invocation'.disk = DOMAIN invocation.disk
    <3>1. CASE invocation' = invocation
      BY <3>1 DEF ClientsInv, InvocationOK
    <3>2. CASE Prints(GrammarDump)
      <4>1. GrammarDump \in Nat
        BY <1>1, PrintedCounts DEF ClientsInv, InCpp
      <4> QED  BY <3>2, <4>1, PrintsInv
    <3> QED  BY <1>1, <3>1, <3>2
  <2> QED  BY <1>1, <2>1 DEF ClientsInv, StreamsInv, StagesInv, readerVars
<1>3. ReaderInv' /\ NamesInv' /\ SourceInv'
  BY <1>1, ReaderStays, SourceStays DEF ClientsInv, InCpp
<1> QED  BY <1>1, <1>2, <1>3 DEF ClientsInv, readerVars

\* The second check finds what the first one found: nothing is thrown.
LEMMA ConstructInv == ASSUME ClientsInv, Construct PROVE ClientsInv'
<1>1. /\ ReaderInv /\ NamesInv /\ phase = "done" /\ loaded = "OK"
      /\ invocation.client = "program"
  BY DEF ClientsInv, StagesInv, InCpp, Construct
<1>2. NewParser /\ UNCHANGED <<argument, opened, readerVars>>
  BY DEF Construct
<1>3. answer' = [call |-> "SParser", status |-> "OK"]
  BY <1>1, <1>2, LoadedPasses DEF NewParser, Verdict, Returns
<1>4. stage' = "lines" /\ exit' = exit
  BY <1>3 DEF Construct, Proceeds
<1>5. InvocationOK' /\ StreamsInv' /\ StagesInv'
  <2>1. PICK count \in Forecasts : Prints(count)
    BY <1>3 DEF Construct
  <2>2. count \in Nat
    BY <1>1, PrintedCounts
  <2>3. /\ InvocationOK' /\ invocation'.client = invocation.client
        /\ DOMAIN invocation'.disk = DOMAIN invocation.disk
    BY <2>1, <2>2, PrintsInv
  <2>4. UNCHANGED <<argument, opened, at, phase, loaded>>
    BY <1>2 DEF readerVars
  <2> QED  BY <1>1, <1>4, <2>3, <2>4 DEF ClientsInv, StreamsInv, StagesInv
<1>7. NamesInv' /\ SourceInv'
  BY <1>1, <1>2, <1>4, CheckGrammarNames DEF NewParser, ReaderInv, SourceInv
<1>6. ReaderInv'
  <2>1. IInv'
    BY <1>1, <1>2, NextInv DEF ReaderInv, Next, Use
  <2>2. (Empty \notin NamesOf(N))'
    BY <1>1, <1>2 DEF ReaderInv, NewParser, CheckGrammar, NamesOf
  <2>3. Accepted'
    BY <1>3 DEF Accepted, CheckedOK
  <2>4. ReaderTypeOK' /\ (file \in Streams)'
    BY <1>1, <1>2 DEF ReaderInv, ReaderTypeOK, readerVars, localVars
  <2> QED  BY <2>1, <2>2, <2>3, <2>4 DEF ReaderInv
<1> QED  BY <1>1, <1>2, <1>4, <1>5, <1>6, <1>7 DEF ClientsInv, readerVars

\* No status of a load is called "terminated".
LEMMA LoadStatus ==
  ASSUME loaded # "terminated", LoadStep \/ PythonCall \/ PythonCallRaises \/ PythonDone
  PROVE  loaded' # "terminated"
<1>1. ASSUME NEW w, AddAxiom(w) \/ AddTerminal(w) \/ AddNonTerminal(w)
      PROVE  answer'.status # "terminated"
  BY <1>1 DEF AddAxiom, AddTerminal, AddNonTerminal, Returns
<1>2. ASSUME NEW l, NEW r, NEW p, AddRule(l, r, p) PROVE answer'.status # "terminated"
  BY <1>2 DEF AddRule, Returns
<1>3. Check => answer'.status # "terminated"
  BY DEF Check, Verdict, Returns
<1>4. CASE LoadStep
  BY <1>1, <1>3, <1>4 DEF LoadStep, LoadEnds, LoadGoesOn, ReadWord, ReadHeader, LoadAxiom,
     LoadTerminal, LoadNonTerminal, NoSection, CheckFile, StartProduction, EndProduction,
     LoadLabel, NextAlternative, SkipWord, LoadProbability, LoadSymbol
<1>5. CASE PythonCall
  BY <1>1, <1>2, <1>5 DEF PythonCall
<1>6. CASE PythonCallRaises \/ PythonDone
  BY <1>6 DEF PythonCallRaises, PythonDone
<1> QED  BY <1>4, <1>5, <1>6

LEMMA LoadInv == ASSUME ClientsInv, Load PROVE ClientsInv'
<1>1. /\ LoadStep /\ stage \in {"load", "reload"}
      /\ UNCHANGED <<invocation, argument, opened, stage, exit>>
  BY DEF Load, clientVars
<1>2. InvocationOK' /\ StreamsInv' /\ StagesInv'
  BY <1>1 DEF ClientsInv, InvocationOK, StreamsInv, StagesInv
<1>3. ReaderInv' /\ NamesInv' /\ SourceInv'
  <2>1. ReaderInv /\ NamesInv /\ WrittenInv
    BY <1>1 DEF ClientsInv, StagesInv, SourceInv, InCpp
  <2> QED  BY <1>1, <2>1, LoadStepInv, LoadStepNames, LoadStepWritten DEF SourceInv
<1>4. loaded' # "terminated"
  BY <1>1, LoadStatus DEF ClientsInv
<1> QED  BY <1>1, <1>2, <1>3, <1>4 DEF ClientsInv

\* A new grammar is as empty as the first.
LEMMA NewGrammarInv == Init' => IInv'
BY InitInv, PTL

\* What was written can be read: the second load starts as the first did.
LEMMA ReloadInv == ASSUME ClientsInv, DumpAndReload PROVE ClientsInv'
<1>1. /\ stage = "load" /\ invocation.client = "library" /\ phase = "done" /\ loaded = "OK"
      /\ file' = [words |-> DumpGrammar, ended |-> TRUE] /\ at' = 0 /\ phase' = "read"
      /\ section' = "UNKNOWN" /\ loaded' = "reading" /\ lhs' = Empty /\ rhs' = <<>>
      /\ closed' = FALSE /\ share' = Unset /\ stage' = "reload"
      /\ UNCHANGED <<invocation, argument, opened, exit>>
  BY DEF DumpAndReload, Proceeds, clientVars
<1>2. InvocationOK' /\ StreamsInv' /\ StagesInv'
  BY <1>1 DEF ClientsInv, InvocationOK, StreamsInv, StagesInv
<1>3. ReaderInv /\ NamesInv /\ Written /\ CheckedOK
  BY <1>1 DEF ClientsInv, InCpp, SourceInv, WrittenInv, ReaderInv, Accepted
<1>4. file' \in Streams
  BY <1>1, <1>3, GrammarIsPrinted
<1>5. /\ axiom' = Token(Empty, "UNKNOWN") /\ T' = <<>> /\ N' = <<>> /\ P' = <<>>
      /\ closures' = [size |-> 0, pl |-> <<>>, pu |-> <<>>]
      /\ parser' = "none" /\ answer' = [call |-> "none", status |-> "OK"]
  BY DEF DumpAndReload, NewGrammar
<1>6. IInv'
  BY <1>5, NewGrammarInv DEF Init
<1>7. NamesInv' /\ (Empty \notin NamesOf(N))' /\ SourceInv'
  BY <1>1, <1>5 DEF NamesInv, NamesOf, Range, SourceInv, WrittenInv, Written
<1>8. ReaderTypeOK' /\ Accepted'
  <2>1. 0 \in 0..Len(file'.words)
    BY <1>4, StreamLength
  <2> QED  BY <1>1, <2>1, EmptySeq DEF ReaderTypeOK, Accepted, Phases, Names
<1>9. ReaderInv'
  BY <1>4, <1>6, <1>7, <1>8 DEF ReaderInv
<1> QED  BY <1>1, <1>2, <1>7, <1>9 DEF ClientsInv

\* The steps in Python
LEMMA PythonLoadInv ==
  ASSUME ClientsInv, LoadInPython \/ PythonStep \/ ConstructInPython
  PROVE  ClientsInv'
<1>1. /\ invocation' \in {invocation, [invocation EXCEPT !.client = "python"]}
      /\ UNCHANGED <<argument, opened>>
  BY DEF LoadInPython, PythonStep, ConstructInPython, clientVars
<1>2. InvocationOK' /\ invocation'.client = "python"
      /\ DOMAIN invocation'.disk = DOMAIN invocation.disk
  <2>1. invocation'.client = "python"
    BY <1>1 DEF ClientsInv, InvocationOK, StagesInv, LoadInPython, PythonStep,
       ConstructInPython, clientVars
  <2> QED  BY <1>1, <2>1 DEF ClientsInv, InvocationOK
<1>3. /\ stage' \in {"python", "parseLine", "ended"}
      /\ exit' \in {exit, "killed", "raised"}
  <2>1. NewParser => answer'.status \in {"OK", "died", "invalid_argument"}
    BY DEF NewParser, Verdict, Returns
  <2>2. CASE ConstructInPython
    BY <2>1, <2>2 DEF ConstructInPython, Proceeds, Ends
  <2> QED
    BY <2>2 DEF LoadInPython, PythonStep, Proceeds
<1>4. StreamsInv' /\ StagesInv' /\ ~InCpp' /\ SourceInv'
  <2>1. opened' = opened /\ argument' = argument
    BY <1>1
  <2> QED  BY <1>2, <1>3, <2>1 DEF ClientsInv, StreamsInv, StagesInv, InCpp, SourceInv
<1>5. exit' # "terminated"
  BY <1>3 DEF ClientsInv
<1>6. loaded' # "terminated"
  <2>1. CASE LoadInPython
    BY <2>1 DEF LoadInPython, PythonStarts
  <2>2. CASE PythonStep
    BY <2>2, LoadStatus DEF ClientsInv, PythonStep
  <2>3. CASE ConstructInPython
    BY <2>3 DEF ClientsInv, ConstructInPython, readerVars
  <2> QED  BY <2>1, <2>2, <2>3
<1> QED  BY <1>2, <1>4, <1>5, <1>6 DEF ClientsInv

LEMMA EndedInv == ASSUME ClientsInv, UNCHANGED allVars PROVE ClientsInv'
<1>1. UNCHANGED <<invocation, argument, opened, stage, exit, readerVars, GrammarVars>>
  BY DEF allVars, clientVars, vars, GrammarVars
<1>2. InvocationOK' /\ StreamsInv' /\ StagesInv'
  BY <1>1 DEF ClientsInv, InvocationOK, StreamsInv, StagesInv, readerVars
<1>3. (InCpp => ReaderInv /\ NamesInv)' /\ SourceInv'
  BY <1>1, ReaderStays, SourceStays DEF ClientsInv, InCpp
<1> QED  BY <1>1, <1>2, <1>3 DEF ClientsInv, readerVars

LEMMA ClientsNextInv == ClientsInv /\ [Step \/ Ended]_allVars => ClientsInv'
<1> SUFFICES ASSUME ClientsInv, [Step \/ Ended]_allVars PROVE ClientsInv'
  OBVIOUS
<1>1. CASE ProgramStep
  BY <1>1, PlainStepInv, OpenStreamInv, TakeStreamsInv, TakeGrammarInv, ConstructInv
     DEF ProgramStep
<1>2. CASE UNCHANGED allVars
  BY <1>2, EndedInv
<1> QED
  BY <1>1, <1>2, PlainStepInv, LoadInv, ReloadInv, PythonLoadInv DEF Step, Ended

-----------------------------------------------------------------------------
(* The properties *)

THEOREM ClientsInvariant == ClientsSpec => []ClientsInv
<1>1. ClientsInv /\ [Step \/ Ended]_allVars => ClientsInv'
  BY ClientsNextInv
<1> QED  BY <1>1, ClientsInitInv, PTL DEF ClientsSpec

\* Whatever the grammar file, the constructor of SParser does not throw an exception
\* that parse() of app/parser.cpp would not catch.
THEOREM NothingIsUncaught == ClientsSpec => []LoadedIsAccepted
<1>1. ClientsInv => LoadedIsAccepted
  BY DEF ClientsInv, LoadedIsAccepted
<1> QED  BY <1>1, ClientsInvariant, PTL

\* Each state that the loader of Stream.cpp leaves a grammar in, half-way or in the
\* end, has no rule with a symbol that is not declared, and no nonterminal with two
\* productions.
THEOREM LoadedIsDeclared == ClientsSpec => [](InCpp => DeclaredBeforeUse)
<1>1. ClientsInv => (InCpp => DeclaredBeforeUse)
  BY DEF ClientsInv, ReaderInv, IInv
<1> QED  BY <1>1, ClientsInvariant, PTL

\* The loader never leaves its stream, and adds no rule without a probability.
THEOREM ReaderStaysInFile == ClientsSpec => [](InCpp => ReaderTypeOK)
<1>1. ClientsInv => (InCpp => ReaderTypeOK)
  BY DEF ClientsInv, ReaderInv
<1> QED  BY <1>1, ClientsInvariant, PTL

\* Whatever is in a file, be it the first or the one that operator<< wrote, and however
\* far loadGrammar() came with it: each rule in the grammar is one that the file has,
\* under its head, with all of its own symbols and no others, and its own probability.
THEOREM RulesAreWritten == ClientsSpec => []OnlyWhatIsWritten
<1>1. ClientsInv => OnlyWhatIsWritten
  BY DEF ClientsInv, SourceInv, WrittenInv, Written, OnlyWhatIsWritten
<1> QED  BY <1>1, ClientsInvariant, PTL

-----------------------------------------------------------------------------
(* Reading the sequence *)

\* How many words the client of this invocation reads for a terminal
Width == IF invocation.client = "program" \/ invocation.simple THEN 1 ELSE 3

\* All of the data was read.
AtEnd == \/ stage = "viterbi"
         \/ invocation.client = "program" /\ exit = "0"
         \/ exit = "OK"

\* The lines that were parsed are the data up to a place, and how the client ended tells
\* what is behind it; but for data that grows as it is read.
Reads ==
  /\ stage \in {"lines", "viterbi", "sequence", "ended"}
  /\ invocation.client # "python" /\ ~FeedsItself
ReadInv ==
  Reads =>
    \E place \in 0..Len(DataStream.words) :
      LET left == Len(Places(DataStream, place)) IN
      /\ ReadSoFar(DataStream, place, parsed, NamedTerminals, Width)
      /\ stage # "ended" => place = dataAt
      /\ AtEnd => left = 0
      /\ invocation.client = "program" /\ exit = "-3" =>
           left > 0 /\ left < Width * Len(NamedTerminals)

\* The terminals are a sequence, of which the program's first has a name.
TerminalsInv ==
  /\ T \in Seq(Range(T))
  /\ invocation.client = "program" /\ T # <<>> => T[1] # Empty

\* The program's parser was constructed.
Constructed == \/ stage \in {"lines", "viterbi"}
               \/ invocation.client = "program" /\ exit \in {"0", "-3"}

\* What is not read yet, and what was there when reading began
StartsInv ==
  /\ Len(opened) >= 2 => opened[2] \in DOMAIN invocation.disk
  /\ stage # "ended" => exit = "none"
  /\ stage \in {"options", "load", "construct", "reload", "python", "constructInPython"} =>
       parsed = <<>> /\ dataAt = 0
  /\ Constructed =>
       loaded = "OK" /\ parser = "alive" /\ T # <<>>
  /\ stage \in {"lines", "viterbi"} => invocation.client = "program"
  /\ stage = "sequence" => invocation.client = "library"
  /\ invocation.client = "library" => stage \in {"load", "reload", "sequence", "ended"}
  /\ stage \in {"python", "constructInPython", "parseLine"} => invocation.client = "python"

SequenceInv == TerminalsInv /\ StartsInv /\ ReadInv

LEMMA SequenceInitInv == ClientsInit => SequenceInv
<1> SUFFICES ASSUME ClientsInit PROVE SequenceInv
  OBVIOUS
<1>1. T = <<>> /\ opened = <<>> /\ exit = "none" /\ parsed = <<>> /\ dataAt = 0
      /\ stage = IF invocation.client = "program" THEN "options" ELSE "load"
  BY DEF ClientsInit, Init
<1>2. TerminalsInv
  BY <1>1, EmptySeq DEF TerminalsInv
<1>3. StartsInv
  <2>1. ~(Len(opened) >= 2)
    BY <1>1, EmptySeq
  <2> QED  BY <1>1, <2>1 DEF StartsInv, Constructed
<1>4. ReadInv
  BY <1>1 DEF ReadInv, Reads
<1> QED  BY <1>2, <1>3, <1>4 DEF SequenceInv

LEMMA DataIsAStream ==
  ASSUME ClientsInv, SequenceInv
  PROVE  DataStream \in Streams /\ Len(DataStream.words) \in Nat
<1>1. /\ invocation.input \in Streams
      /\ \A name \in DOMAIN invocation.disk : invocation.disk[name] \in Streams
  BY DEF ClientsInv, InvocationOK
<1>2. Len(opened) \in Nat
  BY LenProperties DEF ClientsInv, StreamsInv
<1>3. Len(opened) >= 2 => opened[2] \in DOMAIN invocation.disk
  BY DEF SequenceInv, StartsInv
<1>4. DataStream \in Streams
  <2>1. CASE Len(opened) < 2
    BY <1>1, <2>1 DEF DataStream
  <2>2. CASE ~(Len(opened) < 2)
    BY <1>1, <1>2, <1>3, <2>2 DEF DataStream
  <2> QED  BY <2>1, <2>2
<1> QED  BY <1>4, LenProperties DEF Streams

\* The terminals of a grammar, and one more
LEMMA TerminalsGrow ==
  ASSUME TerminalsInv, NEW name, T' = Append(T, name),
         invocation'.client = "program" =>
           invocation.client = "program" /\ (T = <<>> => name # Empty)
  PROVE  TerminalsInv' /\ T' # <<>>
<1> DEFINE S == Range(T) \cup {name}
<1>1. T \in Seq(S) /\ name \in S
  <2>1. T \in Seq(Range(T))
    BY DEF TerminalsInv
  <2>2. \A i \in 1..Len(T) : T[i] \in S
    BY <2>1, LenProperties
  <2> QED  BY <2>1, <2>2, LenProperties, IsASeq
<1>2. /\ T' \in Seq(S) /\ Len(T) \in Nat /\ Len(T') = Len(T) + 1
      /\ \A i \in 1..Len(T) : T'[i] = T[i]
      /\ T'[Len(T) + 1] = name
  BY <1>1, AppendProperties, LenProperties
<1>3. Range(T') = S
  BY <1>1, RangeAppend DEF Range
<1>4. T' # <<>>
  BY <1>2, EmptySeq
<1>5. invocation'.client = "program" => T'[1] # Empty
  <2>1. CASE T = <<>>
    <3>1. Len(T) = 0
      BY <2>1, EmptySeq
    <3> QED  BY <1>2, <2>1, <3>1
  <2>2. CASE T # <<>>
    <3>1. 1 \in 1..Len(T)
      BY <1>1, <1>2, <2>2, EmptySeq
    <3> QED  BY <1>2, <2>2, <3>1 DEF TerminalsInv
  <2> QED  BY <2>1, <2>2
<1> HIDE DEF S
<1> QED  BY <1>2, <1>3, <1>4, <1>5 DEF TerminalsInv

\* No terminals, or the same
LEMMA TerminalsStay ==
  ASSUME TerminalsInv, T' = T \/ T' = <<>>,
         invocation'.client = "program" => invocation.client = "program"
  PROVE  TerminalsInv'
<1>1. CASE T' = T
  BY <1>1 DEF TerminalsInv, Range
<1>2. CASE T' = <<>>
  BY <1>2, EmptySeq DEF TerminalsInv
<1> QED  BY <1>1, <1>2

LEMMA TerminalsChecked ==
  ASSUME TerminalsInv, CheckGrammar, invocation'.client = invocation.client
  PROVE  TerminalsInv' /\ (WellFormed => T' # <<>>)
<1>1. CASE WellFormed /\ Empty \notin Range(T)
  <2>1. T' = Append(T, Empty) /\ T # <<>>
    BY <1>1 DEF CheckGrammar, WellFormed
  <2> QED  BY <2>1, TerminalsGrow
<1>2. CASE ~(WellFormed /\ Empty \notin Range(T))
  <2>1. T' = T
    BY <1>2 DEF CheckGrammar
  <2> QED  BY <2>1, TerminalsStay DEF WellFormed
<1> QED  BY <1>1, <1>2

\* What a program reads does not become what it prints.
LEMMA FeedsOn ==
  ASSUME UNCHANGED <<opened, argument>>, invocation'.args = invocation.args
  PROVE  FeedsItself' = FeedsItself
BY DEF FeedsItself, Taken

\* A client that ends before it reads the sequence has read nothing of it.
LEMMA EndedUnread ==
  ASSUME ClientsInv, SequenceInv, parsed = <<>>,
         UNCHANGED <<invocation, opened, T, parsed>>,
         stage' = "ended", exit' # "OK",
         invocation.client = "program" => exit' \notin {"0", "-3"}
  PROVE  ReadInv'
<1>1. DataStream' = DataStream /\ NamedTerminals' = NamedTerminals /\ Width' = Width
  BY DEF DataStream, NamedTerminals, Width
<1>2. Len(NamedTerminals) \in Nat
  <2>1. T \in Seq(Range(T))
    BY DEF SequenceInv, TerminalsInv
  <2> QED  BY <2>1, NamedType DEF Named, NamedTerminals
<1>3. Width \in {1, 3}
  BY DEF Width
<1>4. ReadSoFar(DataStream, 0, <<>>, NamedTerminals, Width)
  BY <1>2, <1>3, DataIsAStream, NothingRead
<1>5. 0 \in 0..Len(DataStream.words)
  BY DataIsAStream
<1>6. ~AtEnd' /\ ~(invocation'.client = "program" /\ exit' = "-3")
  BY DEF AtEnd
<1>7. ReadSoFar(DataStream', 0, parsed', NamedTerminals', Width')
  BY <1>1, <1>4
<1>8. 0 \in 0..Len(DataStream'.words)
  BY <1>1, <1>5
<1> QED  BY <1>6, <1>7, <1>8 DEF ReadInv, Reads

\* Reading begins.
LEMMA ReadingStarts ==
  ASSUME ClientsInv, SequenceInv, parsed = <<>>, dataAt = 0,
         UNCHANGED <<invocation, opened, dataAt, parsed, exit>>, exit = "none",
         stage' \in {"lines", "sequence"}, T' \in Seq(Range(T'))
  PROVE  ReadInv'
<1>1. DataStream' = DataStream /\ Width' \in {1, 3}
  BY DEF DataStream, Width
<1>2. Len(NamedTerminals') \in Nat
  BY NamedType DEF Named, NamedTerminals
<1>3. ReadSoFar(DataStream, 0, <<>>, NamedTerminals', Width')
  BY <1>1, <1>2, DataIsAStream, NothingRead
<1>4. 0 \in 0..Len(DataStream'.words)
  BY <1>1, DataIsAStream
<1>5. ~AtEnd' /\ exit' # "-3"
  BY DEF AtEnd
<1>6. ReadSoFar(DataStream', 0, parsed', NamedTerminals', Width')
  BY <1>1, <1>3
<1>7. dataAt' = 0
  OBVIOUS
<1> QED  BY <1>4, <1>5, <1>6, <1>7 DEF ReadInv, Reads

\* The steps of the options and of the loads
LEMMA OptionsKeep ==
  ASSUME ClientsInv, SequenceInv,
         \/ TakeOption \/ OpenStream \/ TakeStreams
         \/ RefuseOption \/ RefuseStream \/ MissGrammar
  PROVE  SequenceInv'
<1>1. /\ UNCHANGED <<dataAt, parsed, loaded, T, parser>> /\ stage = "options"
      /\ invocation'.client = invocation.client
      /\ stage' \in {"options", "load", "ended"}
      /\ stage' # "ended" => exit' = exit
      /\ stage' = "ended" => exit' \in {"-1", "killed"} /\ UNCHANGED <<invocation, opened>>
  <2>1. CASE OpenStream
    <3>1. invocation'.client = invocation.client
      BY <2>1 DEF OpenStream, ClientsInv, InvocationOK
    <3> QED  BY <2>1, <3>1 DEF OpenStream, ArgumentLeft, readerVars, GrammarVars
  <2>2. CASE TakeStreams
    BY <2>2 DEF TakeStreams, Proceeds, clientVars, GrammarVars
  <2>3. CASE TakeOption
    BY <2>3 DEF TakeOption, ArgumentLeft, readerVars, GrammarVars
  <2>4. CASE RefuseOption \/ RefuseStream \/ MissGrammar
    BY <2>4 DEF RefuseOption, RefuseStream, MissGrammar, ArgumentLeft, Ends, clientVars,
       readerVars, GrammarVars
  <2> QED  BY <2>1, <2>2, <2>3, <2>4
<1>2. TerminalsInv'
  BY <1>1, TerminalsStay DEF SequenceInv
<1>3. Len(opened') >= 2 => opened'[2] \in DOMAIN invocation'.disk
  <2>1. CASE UNCHANGED <<invocation, opened>>
    BY <2>1 DEF SequenceInv, StartsInv
  <2>2. CASE OpenStream
    <3>1. /\ opened \in Seq(STRING) /\ Len(opened) \in Nat
          /\ invocation.args \in Seq(STRING) /\ argument \in Nat
          /\ DOMAIN invocation'.disk = DOMAIN invocation.disk
      BY <2>2, LenProperties DEF OpenStream, ClientsInv, StreamsInv, InvocationOK
    <3>2. arg \in STRING
      <4>1. argument + 1 \in 1..Len(invocation.args)
        BY <2>2, <3>1, LenProperties DEF OpenStream, ArgumentLeft
      <4> QED  BY <3>1, <4>1, LenProperties DEF arg
    <3>3. /\ Len(opened') = Len(opened) + 1
          /\ \A i \in 1..Len(opened) : opened'[i] = opened[i]
          /\ opened'[Len(opened) + 1] = arg
      BY <2>2, <3>1, <3>2, AppendProperties DEF OpenStream
    <3>4. CASE Len(opened) < 2
      <4>1. arg \in DOMAIN invocation.disk
        BY <2>2, <3>1, <3>4 DEF OpenStream, Opens
      <4> QED  BY <3>1, <3>3, <3>4, <4>1
    <3>5. CASE Len(opened) >= 2
      BY <3>1, <3>3, <3>5 DEF SequenceInv, StartsInv
    <3> QED  BY <3>1, <3>4, <3>5
  <2> QED
    BY <2>1, <2>2 DEF TakeOption, TakeStreams, RefuseOption, RefuseStream, MissGrammar, clientVars
<1>4. parsed = <<>> /\ dataAt = 0 /\ exit = "none" /\ invocation.client = "program"
  BY <1>1 DEF SequenceInv, StartsInv, ClientsInv, StagesInv
<1>5. StartsInv'
  BY <1>1, <1>3, <1>4 DEF StartsInv, Constructed
<1>6. ReadInv'
  <2>1. CASE stage' = "ended"
    BY <1>1, <1>4, <2>1, EndedUnread
  <2>2. CASE stage' # "ended"
    BY <1>1, <2>2 DEF ReadInv, Reads
  <2> QED  BY <2>1, <2>2
<1> QED  BY <1>2, <1>5, <1>6 DEF SequenceInv

\* What a step of the reader does to the terminals
LEMMA LoadStepTerminals ==
  ASSUME TerminalsInv, LoadStep, UNCHANGED invocation,
         invocation.client = "program" => ReaderInv
  PROVE  TerminalsInv'
<1>1. CASE LoadTerminal
  <2>1. T' = T \/ T' = Append(T, word)
    BY <1>1 DEF LoadTerminal, AddTerminal
  <2>2. invocation.client = "program" => word # Empty
    <3> SUFFICES ASSUME ReaderInv PROVE word # Empty
      OBVIOUS
    <3>1. file.words \in Seq(Words) /\ at \in 0..Len(file.words) /\ at > 0
      BY <1>1 DEF LoadTerminal, AtEntry, ReaderInv, ReaderTypeOK, Streams
    <3>2. word \in Words
      <4>1. at \in 1..Len(file.words)
        BY <3>1, LenProperties
      <4> QED  BY <3>1, <4>1, LenProperties DEF word
    <3> QED  BY <3>2, FileAssumption
  <2> QED  BY <2>1, <2>2, TerminalsGrow, TerminalsStay
<1>2. CASE CheckFile
  BY <1>2, TerminalsChecked DEF CheckFile, Check
<1>3. CASE ~LoadTerminal /\ ~CheckFile
  <2>1. T' = T
    BY <1>3 DEF LoadStep, ReadWord, ReadHeader, LoadAxiom, LoadNonTerminal, NoSection,
       StartProduction, EndProduction, LoadLabel, NextAlternative, SkipWord, LoadProbability,
       LoadSymbol, AddAxiom, AddNonTerminal, AddRule, GrammarVars
  <2> QED  BY <2>1, TerminalsStay
<1> QED  BY <1>1, <1>2, <1>3

LEMMA LoadKeeps == ASSUME ClientsInv, SequenceInv, Load PROVE SequenceInv'
<1>1. /\ LoadStep /\ stage \in {"load", "reload"}
      /\ UNCHANGED <<invocation, opened, dataAt, parsed, stage, exit>>
  BY DEF Load, clientVars
<1>2. invocation.client = "program" => ReaderInv
  BY DEF ClientsInv, InCpp
<1>3. TerminalsInv'
  BY <1>1, <1>2, LoadStepTerminals DEF SequenceInv
<1>4. exit = "none"
  BY <1>1 DEF SequenceInv, StartsInv
<1>5. StartsInv'
  BY <1>1, <1>4 DEF SequenceInv, StartsInv, Constructed
<1>6. ReadInv'
  BY <1>1 DEF ReadInv, Reads
<1> QED  BY <1>3, <1>5, <1>6 DEF SequenceInv

LEMMA TakeGrammarKeeps == ASSUME ClientsInv, SequenceInv, TakeGrammar PROVE SequenceInv'
<1>1. /\ UNCHANGED <<opened, dataAt, parsed, loaded, T, parser>>
      /\ stage = "load" /\ invocation.client = "program"
      /\ \/ stage' = "construct" /\ exit' = exit /\ Prints(GrammarDump)
         \/ stage' = "ended" /\ exit' \in {"killed", "-2"} /\ invocation' = invocation
  BY DEF TakeGrammar, Proceeds, Ends, readerVars, GrammarVars
<1>2. /\ invocation'.client = invocation.client
      /\ DOMAIN invocation'.disk = DOMAIN invocation.disk
  <2>1. GrammarDump \in Nat
    BY <1>1, PrintedCounts DEF ClientsInv, InCpp
  <2> QED  BY <1>1, <2>1, PrintsInv
<1>3. TerminalsInv'
  BY <1>1, <1>2, TerminalsStay DEF SequenceInv
<1>4. parsed = <<>> /\ dataAt = 0 /\ exit = "none"
  BY <1>1 DEF SequenceInv, StartsInv
<1>5. StartsInv'
  <2>1. Len(opened') >= 2 => opened'[2] \in DOMAIN invocation'.disk
    BY <1>1, <1>2 DEF SequenceInv, StartsInv
  <2> QED  BY <1>1, <1>2, <1>4, <2>1 DEF StartsInv, Constructed
<1>6. ReadInv'
  <2>1. CASE stage' = "ended"
    BY <1>1, <1>4, <2>1, EndedUnread
  <2>2. CASE stage' # "ended"
    BY <1>1, <2>2 DEF ReadInv, Reads
  <2> QED  BY <2>1, <2>2
<1> QED  BY <1>3, <1>5, <1>6 DEF SequenceInv

LEMMA ConstructKeeps == ASSUME ClientsInv, SequenceInv, Construct PROVE SequenceInv'
<1>1. /\ ReaderInv /\ phase = "done" /\ loaded = "OK" /\ invocation.client = "program"
      /\ stage = "construct"
  BY DEF ClientsInv, StagesInv, InCpp, Construct
<1>2. NewParser /\ UNCHANGED <<opened, argument, dataAt, parsed, loaded>>
  BY DEF Construct, readerVars
<1>3. Passes /\ answer' = [call |-> "SParser", status |-> "OK"]
  BY <1>1, <1>2, LoadedPasses DEF NewParser, Verdict, Returns
<1>4. stage' = "lines" /\ exit' = exit /\ parser' = "alive"
  BY <1>2, <1>3 DEF Construct, Proceeds, NewParser
<1>5. /\ invocation'.client = invocation.client /\ invocation'.args = invocation.args
      /\ DOMAIN invocation'.disk = DOMAIN invocation.disk
      /\ ~FeedsItself => invocation' = invocation
  <2>1. PICK count \in Forecasts : Prints(count)
    BY <1>3 DEF Construct
  <2>2. count \in Nat
    BY <1>1, PrintedCounts
  <2> QED  BY <2>1, <2>2, PrintsInv
<1>6. TerminalsInv' /\ T' # <<>>
  BY <1>2, <1>3, <1>5, TerminalsChecked DEF SequenceInv, NewParser, Passes
<1>7. parsed = <<>> /\ dataAt = 0 /\ exit = "none"
  BY <1>1 DEF SequenceInv, StartsInv
<1>8. StartsInv'
  <2>1. Len(opened') >= 2 => opened'[2] \in DOMAIN invocation'.disk
    BY <1>2, <1>5 DEF SequenceInv, StartsInv
  <2> QED  BY <1>1, <1>2, <1>4, <1>5, <1>6, <1>7, <2>1 DEF StartsInv, Constructed
<1>9. ReadInv'
  <2>1. CASE FeedsItself'
    BY <2>1 DEF ReadInv, Reads
  <2>2. CASE ~FeedsItself'
    <3>1. invocation' = invocation
      BY <1>2, <1>5, <2>2, FeedsOn
    <3> QED  BY <1>2, <1>4, <1>6, <1>7, <3>1, ReadingStarts DEF TerminalsInv
  <2> QED  BY <2>1, <2>2
<1> QED  BY <1>6, <1>8, <1>9 DEF SequenceInv

\* One line, or the end of the data
LEMMA LineKeeps ==
  ASSUME ClientsInv, SequenceInv, NEW simple \in BOOLEAN, Width = IF simple THEN 1 ELSE 3,
         stage \in {"lines", "sequence"}, invocation.client # "python", ~FeedsItself,
         UNCHANGED <<invocation, opened, T>>,
         NEW read, read = LoadLine(DataStream, dataAt, T, Empty, simple),
         dataAt' = read.at,
         \/ /\ read.status = "OK" /\ parsed' = Append(parsed, read.line)
            /\ stage' = stage /\ exit' = exit
         \/ /\ read.status # "OK" /\ parsed' = parsed
            /\ stage' \in {"viterbi", "ended"}
            /\ stage' = "viterbi" \/ exit' \in {"0", "OK"} => read.status = "ERR_EOF"
            /\ exit' = "-3" /\ invocation.client = "program" =>
                 read.status = "ERR_READINGFILE" /\ T[1] # Empty
            /\ stage' = "viterbi" => exit' = exit
  PROVE  ReadInv'
<1> DEFINE stream == DataStream
           names == NamedTerminals
           left == Len(Places(stream, dataAt))
<1>1. /\ stream \in Streams /\ Len(stream.words) \in Nat
      /\ T \in Seq(Range(T))
  BY DataIsAStream DEF SequenceInv, TerminalsInv
<1>2. /\ dataAt \in 0..Len(stream.words)
      /\ ReadSoFar(stream, dataAt, parsed, names, Width)
      /\ exit = "none"
  BY DEF SequenceInv, StartsInv, ReadInv, Reads
<1>3. /\ stream' = stream /\ names' = names /\ Width' = Width
      /\ names = Named(T, Empty)
  BY DEF DataStream, NamedTerminals, Named, Width
<1>4. LineTaken(stream, dataAt, T, Empty, simple)
  BY <1>1, <1>2, LineRead
<1> HIDE DEF stream, names
<1>5. read = LoadLine(stream, dataAt, T, Empty, simple)
  BY DEF stream
<1>6. CASE read.status = "OK"
  <2>1. /\ parsed' = Append(parsed, read.line) /\ stage' = stage /\ exit' = "none"
        /\ dataAt' = read.at
    BY <1>2, <1>6
  <2>2. ReadSoFar(stream, read.at, Append(parsed, read.line), names, Width)
    BY <1>1, <1>2, <1>3, <1>5, <1>6, OneMoreRead
  <2>3. read.at \in 0..Len(stream.words)
    BY <1>4, <1>5 DEF LineTaken
  <2>4. ReadSoFar(stream', dataAt', parsed', names', Width')
    BY <1>3, <2>1, <2>2
  <2>5. dataAt' \in 0..Len(stream'.words)
    BY <1>3, <2>1, <2>3
  <2>6. ~AtEnd' /\ exit' # "-3"
    BY <2>1 DEF AtEnd
  <2> QED  BY <2>4, <2>5, <2>6 DEF ReadInv, Reads, stream, names
<1>7. CASE read.status # "OK" /\ stage' = "ended"
  <2>1. ReadSoFar(stream', dataAt, parsed', names', Width') /\ dataAt \in 0..Len(stream'.words)
    BY <1>2, <1>3, <1>7
  <2>2. /\ Len(Places(stream, dataAt)) < Width * Len(names)
        /\ read.status = "ERR_EOF" => Len(Places(stream, dataAt)) = 0
        /\ read.status = "ERR_READINGFILE" =>
             (Len(Places(stream, dataAt)) = 0 => T[1] = Empty)
    BY <1>3, <1>4, <1>5, <1>7 DEF LineTaken
  <2>3. Len(Places(stream, dataAt)) \in Nat
    BY <1>1, <1>2, WordsAre
  <2>4. AtEnd' => Len(Places(stream', dataAt)) = 0
    <3>1. AtEnd' => exit' \in {"0", "OK"}
      BY <1>7 DEF AtEnd
    <3> QED  BY <1>3, <1>7, <2>2, <3>1
  <2>5. invocation'.client = "program" /\ exit' = "-3" =>
          /\ Len(Places(stream', dataAt)) > 0
          /\ Len(Places(stream', dataAt)) < Width' * Len(names')
    BY <1>3, <1>7, <2>2, <2>3
  <2> QED  BY <1>7, <2>1, <2>4, <2>5 DEF ReadInv, Reads, stream, names
<1>8. CASE read.status # "OK" /\ stage' = "viterbi"
  <2>1. Len(Places(stream, dataAt)) = 0 /\ read.at = Len(stream.words)
    BY <1>4, <1>5, <1>8 DEF LineTaken
  <2>2. Len(Places(stream, read.at)) = 0 /\ read.at \in 0..Len(stream.words)
    BY <1>1, <2>1, NoPlacesLeft
  <2>3. ReadSoFar(stream, read.at, parsed, names, Width)
    <3>1. Len(Places(stream, dataAt)) = Len(Places(stream, read.at))
      BY <2>1, <2>2
    <3>2. 1..Len(Places(stream, read.at)) = {}
      BY <2>2
    <3> QED  BY <1>2, <2>2, <3>1, <3>2 DEF ReadSoFar
  <2>4. ReadSoFar(stream', dataAt', parsed', names', Width')
    BY <1>3, <1>8, <2>3
  <2>5. dataAt' \in 0..Len(stream'.words) /\ Len(Places(stream', dataAt')) = 0
    BY <1>3, <2>2
  <2>6. exit' # "-3"
    BY <1>2, <1>8
  <2> QED  BY <1>8, <2>4, <2>5, <2>6 DEF ReadInv, Reads, stream, names
<1> QED  BY <1>6, <1>7, <1>8

LEMMA ParseLineKeeps == ASSUME ClientsInv, SequenceInv, ParseLine PROVE SequenceInv'
<1> DEFINE read == LoadLine(DataStream, dataAt, T, Empty, TRUE)
<1>1. /\ stage = "lines" /\ dataAt' = read.at
      /\ UNCHANGED <<opened, argument, T, loaded, parser>>
      /\ IF read.status = "OK"
           THEN parsed' = Append(parsed, read.line) /\ UNCHANGED <<stage, exit>>
           ELSE /\ IF read.status = "ERR_EOF" THEN Proceeds("viterbi") ELSE Ends("-3")
                /\ UNCHANGED parsed
  BY DEF ParseLine, TakeLine, readerVars, GrammarVars
<1>2. /\ invocation.client = "program" /\ exit = "none" /\ loaded = "OK" /\ parser = "alive"
      /\ T # <<>> /\ T[1] # Empty
  BY <1>1 DEF SequenceInv, StartsInv, Constructed, TerminalsInv
<1>3. read.status \in {"OK", "ERR_EOF", "ERR_READINGFILE"}
  BY DEF LoadLine
<1> HIDE DEF read
<1>4. \/ read.status = "OK" /\ stage' = stage /\ exit' = exit
      \/ read.status = "ERR_EOF" /\ stage' = "viterbi" /\ exit' = exit
      \/ read.status = "ERR_READINGFILE" /\ stage' = "ended" /\ exit' = "-3"
  BY <1>1, <1>3 DEF Proceeds, Ends
<1>5. /\ invocation'.client = invocation.client /\ invocation'.args = invocation.args
      /\ DOMAIN invocation'.disk = DOMAIN invocation.disk
      /\ ~FeedsItself => invocation' = invocation
  BY ParseLinePrints
<1>6. TerminalsInv'
  BY <1>1, <1>5, TerminalsStay DEF SequenceInv
<1>7. StartsInv'
  <2>1. Len(opened') >= 2 => opened'[2] \in DOMAIN invocation'.disk
    BY <1>1, <1>5 DEF SequenceInv, StartsInv
  <2>2. stage' \in {"lines", "viterbi", "ended"} /\ (stage' # "ended" => exit' = "none")
    BY <1>1, <1>2, <1>4
  <2> QED  BY <1>1, <1>2, <1>5, <2>1, <2>2 DEF StartsInv
<1>8. Width = IF TRUE THEN 1 ELSE 3
  BY <1>2 DEF Width
<1>9. read = LoadLine(DataStream, dataAt, T, Empty, TRUE)
  BY DEF read
<1>10. \/ /\ read.status = "OK" /\ parsed' = Append(parsed, read.line)
          /\ stage' = stage /\ exit' = exit
       \/ /\ read.status # "OK" /\ parsed' = parsed
          /\ stage' \in {"viterbi", "ended"}
          /\ stage' = "viterbi" \/ exit' \in {"0", "OK"} => read.status = "ERR_EOF"
          /\ exit' = "-3" /\ invocation.client = "program" =>
               read.status = "ERR_READINGFILE" /\ T[1] # Empty
          /\ stage' = "viterbi" => exit' = exit
  BY <1>1, <1>2, <1>4
<1>11. ReadInv'
  <2>1. CASE FeedsItself'
    BY <2>1 DEF ReadInv, Reads
  <2>2. CASE ~FeedsItself'
    <3>1. ~FeedsItself /\ invocation' = invocation
      BY <1>1, <1>5, <2>2, FeedsOn
    <3>2. TRUE \in BOOLEAN /\ stage \in {"lines", "sequence"} /\ invocation.client # "python"
          /\ dataAt' = read.at /\ UNCHANGED <<opened, T>>
      BY <1>1, <1>2
    <3> QED  BY <1>8, <1>9, <1>10, <3>1, <3>2, LineKeeps
  <2> QED  BY <2>1, <2>2
<1> QED  BY <1>6, <1>7, <1>11 DEF SequenceInv

LEMMA LoadSequenceKeeps == ASSUME ClientsInv, SequenceInv, LoadSequence PROVE SequenceInv'
<1> DEFINE read == LoadLine(DataStream, dataAt, T, Empty, invocation.simple)
<1>1. /\ stage = "sequence" /\ dataAt' = read.at
      /\ UNCHANGED <<invocation, opened, argument, T, loaded, parser>>
      /\ IF read.status = "OK"
           THEN parsed' = Append(parsed, read.line) /\ UNCHANGED <<stage, exit>>
           ELSE /\ Ends(IF read.status = "ERR_EOF" /\ parsed # <<>> THEN "OK"
                        ELSE read.status)
                /\ UNCHANGED parsed
  BY DEF LoadSequence, readerVars, GrammarVars
<1>2. invocation.client = "library" /\ exit = "none" /\ invocation.simple \in BOOLEAN
  BY <1>1 DEF SequenceInv, StartsInv, ClientsInv, InvocationOK
<1>3. read.status \in {"OK", "ERR_EOF", "ERR_READINGFILE"}
  BY DEF LoadLine
<1> HIDE DEF read
<1>4. \/ read.status = "OK" /\ stage' = stage /\ exit' = exit
      \/ read.status = "ERR_EOF" /\ stage' = "ended" /\ exit' \in {"OK", "ERR_EOF"}
      \/ read.status = "ERR_READINGFILE" /\ stage' = "ended" /\ exit' = "ERR_READINGFILE"
  BY <1>1, <1>3 DEF Ends
<1>5. TerminalsInv'
  BY <1>1, TerminalsStay DEF SequenceInv
<1>6. StartsInv'
  <2>1. Len(opened') >= 2 => opened'[2] \in DOMAIN invocation'.disk
    BY <1>1 DEF SequenceInv, StartsInv
  <2>2. stage' \in {"sequence", "ended"} /\ (stage' # "ended" => exit' = "none")
        /\ invocation'.client = "library"
    BY <1>1, <1>2, <1>4
  <2> QED  BY <2>1, <2>2 DEF StartsInv, Constructed
<1>7. Width = IF invocation.simple THEN 1 ELSE 3
  BY <1>2 DEF Width
<1>8. read = LoadLine(DataStream, dataAt, T, Empty, invocation.simple)
  BY DEF read
<1>9. \/ /\ read.status = "OK" /\ parsed' = Append(parsed, read.line)
         /\ stage' = stage /\ exit' = exit
      \/ /\ read.status # "OK" /\ parsed' = parsed
         /\ stage' \in {"viterbi", "ended"}
         /\ stage' = "viterbi" \/ exit' \in {"0", "OK"} => read.status = "ERR_EOF"
         /\ exit' = "-3" /\ invocation.client = "program" =>
              read.status = "ERR_READINGFILE" /\ T[1] # Empty
         /\ stage' = "viterbi" => exit' = exit
  BY <1>1, <1>2, <1>4
<1>10. ReadInv'
  <2>1. CASE FeedsItself'
    BY <2>1 DEF ReadInv, Reads
  <2>2. CASE ~FeedsItself'
    <3>1. ~FeedsItself
      BY <1>1, <2>2, FeedsOn
    <3>2. stage \in {"lines", "sequence"} /\ invocation.client # "python"
          /\ dataAt' = read.at /\ UNCHANGED <<invocation, opened, T>>
      BY <1>1, <1>2
    <3> QED  BY <1>2, <1>7, <1>8, <1>9, <3>1, <3>2, LineKeeps
  <2> QED  BY <2>1, <2>2
<1> QED  BY <1>5, <1>6, <1>10 DEF SequenceInv

LEMMA ReportKeeps == ASSUME ClientsInv, SequenceInv, Report PROVE SequenceInv'
<1>1. /\ stage = "viterbi" /\ stage' = "ended" /\ exit' \in {"0", "killed"}
      /\ UNCHANGED <<invocation, opened, argument, dataAt, parsed, T, loaded, parser>>
  BY DEF Report, Ends, clientVars, readerVars, GrammarVars
<1>2. /\ invocation.client = "program" /\ exit = "none" /\ loaded = "OK" /\ parser = "alive"
      /\ T # <<>>
  BY <1>1 DEF SequenceInv, StartsInv, Constructed
<1>3. TerminalsInv'
  BY <1>1, TerminalsStay DEF SequenceInv
<1>4. StartsInv'
  BY <1>1, <1>2 DEF SequenceInv, StartsInv
<1>5. DataStream' = DataStream /\ NamedTerminals' = NamedTerminals /\ Width' = Width
  BY <1>1 DEF DataStream, NamedTerminals, Width
<1>6. ReadInv'
  <2>1. CASE FeedsItself'
    BY <2>1 DEF ReadInv, Reads
  <2>2. CASE ~FeedsItself'
    <3>1. ~FeedsItself
      BY <1>1, <2>2, FeedsOn
    <3>2. PICK place \in 0..Len(DataStream.words) :
            /\ ReadSoFar(DataStream, place, parsed, NamedTerminals, Width)
            /\ Len(Places(DataStream, place)) = 0
      BY <1>1, <1>2, <3>1 DEF SequenceInv, ReadInv, Reads, AtEnd
    <3>3. /\ place \in 0..Len(DataStream'.words) /\ Len(Places(DataStream', place)) = 0
          /\ ReadSoFar(DataStream', place, parsed', NamedTerminals', Width')
      BY <1>1, <1>5, <3>2
    <3> QED  BY <1>1, <3>3 DEF ReadInv, Reads
  <2> QED  BY <2>1, <2>2
<1> QED  BY <1>3, <1>4, <1>6 DEF SequenceInv

\* The second loads, and the one in Python
LEMMA SecondLoadKeeps ==
  ASSUME ClientsInv, SequenceInv, DumpAndReload \/ LoadInPython
  PROVE  SequenceInv'
<1>1. /\ stage = "load" /\ invocation.client = "library" /\ T' = <<>> /\ exit' = exit
      /\ UNCHANGED <<opened, dataAt, parsed>>
      /\ DOMAIN invocation'.disk = DOMAIN invocation.disk
      /\ \/ stage' = "reload" /\ invocation' = invocation
         \/ stage' = "python" /\ invocation'.client = "python"
  BY DEF DumpAndReload, LoadInPython, NewGrammar, Proceeds, clientVars, ClientsInv, InvocationOK
<1>2. TerminalsInv'
  BY <1>1, TerminalsStay DEF SequenceInv
<1>3. StartsInv'
  BY <1>1 DEF SequenceInv, StartsInv, Constructed
<1>4. ReadInv'
  BY <1>1 DEF ReadInv, Reads
<1> QED  BY <1>2, <1>3, <1>4 DEF SequenceInv

LEMMA ReloadedKeeps == ASSUME ClientsInv, SequenceInv, Reloaded PROVE SequenceInv'
<1>1. /\ stage \in {"load", "reload"} /\ invocation.client = "library"
      /\ UNCHANGED <<invocation, opened, dataAt, parsed, T, loaded, parser>>
      /\ \/ stage' = "ended" /\ exit' # "OK"
         \/ stage' = "sequence" /\ exit' = exit
  BY DEF Reloaded, Ends, Proceeds, clientVars, readerVars, GrammarVars
<1>2. parsed = <<>> /\ dataAt = 0 /\ exit = "none"
  BY <1>1 DEF SequenceInv, StartsInv
<1>3. TerminalsInv'
  BY <1>1, TerminalsStay DEF SequenceInv
<1>4. StartsInv'
  BY <1>1, <1>2 DEF SequenceInv, StartsInv, Constructed
<1>5. ReadInv'
  <2>1. CASE stage' = "ended"
    BY <1>1, <1>2, <2>1, EndedUnread
  <2>2. CASE stage' = "sequence"
    BY <1>1, <1>2, <1>3, <2>2, ReadingStarts DEF TerminalsInv
  <2> QED  BY <1>1, <2>1, <2>2
<1> QED  BY <1>3, <1>4, <1>5 DEF SequenceInv

\* In Python a call adds at most one terminal.
LEMMA PythonStepKeeps == ASSUME ClientsInv, SequenceInv, PythonStep PROVE SequenceInv'
<1>1. stage = "python" /\ UNCHANGED <<invocation, opened, dataAt, parsed, stage, exit>>
  BY DEF PythonStep, clientVars
<1>2. invocation.client = "python"
  BY <1>1 DEF SequenceInv, StartsInv
<1>3. TerminalsInv'
  <2>1. T' = T \/ \E name : T' = Append(T, name)
    <3>1. ASSUME NEW name, AddTerminal(name) \/ AddAxiom(name) \/ AddNonTerminal(name)
          PROVE  T' = T \/ T' = Append(T, name)
      BY <3>1 DEF AddTerminal, AddAxiom, AddNonTerminal
    <3>2. ASSUME NEW lhs0, NEW rhs0, NEW prob0, AddRule(lhs0, rhs0, prob0) PROVE T' = T
      BY <3>2 DEF AddRule
    <3>3. CASE PythonCall
      BY <3>1, <3>2, <3>3 DEF PythonCall
    <3>4. CASE PythonCallRaises \/ PythonDone
      BY <3>4 DEF PythonCallRaises, PythonDone, GrammarVars
    <3> QED  BY <3>3, <3>4 DEF PythonStep
  <2>2. CASE T' = T
    BY <1>1, <2>2, TerminalsStay DEF SequenceInv
  <2>3. CASE T' # T
    <3>1. PICK name : T' = Append(T, name)
      BY <2>1, <2>3
    <3> QED  BY <1>1, <1>2, <3>1, TerminalsGrow DEF SequenceInv
  <2> QED  BY <2>2, <2>3
<1>4. StartsInv'
  BY <1>1, <1>2 DEF SequenceInv, StartsInv, Constructed
<1>5. ReadInv'
  BY <1>1, <1>2 DEF ReadInv, Reads
<1> QED  BY <1>3, <1>4, <1>5 DEF SequenceInv

\* The rest of what the client in Python does
LEMMA PythonKeeps ==
  ASSUME ClientsInv, SequenceInv,
         PythonEnds \/ ConstructInPython \/ ParseLineInPython \/ LinesEnd
  PROVE  SequenceInv'
<1>1. /\ stage \in {"python", "constructInPython", "parseLine"}
      /\ UNCHANGED <<invocation, opened>>
      /\ stage' \in {"constructInPython", "parseLine", "ended"}
      /\ stage' # "ended" => exit' = exit
      /\ stage' = "constructInPython" => stage = "python" /\ UNCHANGED <<dataAt, parsed>>
  <2>1. CASE PythonEnds
    BY <2>1 DEF PythonEnds, Ends, Proceeds, clientVars
  <2>2. CASE ConstructInPython
    <3>1. answer'.status \in {"OK", "died", "invalid_argument"}
      BY <2>2 DEF ConstructInPython, NewParser, Verdict, Returns
    <3> QED  BY <2>2, <3>1 DEF ConstructInPython, Ends, Proceeds, clientVars
  <2>3. CASE ParseLineInPython
    BY <2>3 DEF ParseLineInPython, Ends
  <2>4. CASE LinesEnd
    BY <2>4 DEF LinesEnd, Ends, clientVars
  <2> QED  BY <2>1, <2>2, <2>3, <2>4
<1>2. invocation.client = "python"
  BY <1>1 DEF SequenceInv, StartsInv
<1>3. TerminalsInv'
  <2>1. CASE ConstructInPython
    BY <1>1, <2>1, TerminalsChecked DEF ConstructInPython, NewParser, SequenceInv
  <2>2. CASE PythonEnds \/ ParseLineInPython \/ LinesEnd
    BY <1>1, <2>2, TerminalsStay
       DEF PythonEnds, ParseLineInPython, LinesEnd, SequenceInv, GrammarVars
  <2> QED  BY <2>1, <2>2
<1>4. StartsInv'
  BY <1>1, <1>2 DEF SequenceInv, StartsInv, Constructed
<1>5. ReadInv'
  BY <1>1, <1>2 DEF ReadInv, Reads
<1> QED  BY <1>3, <1>4, <1>5 DEF SequenceInv

LEMMA SequenceNextInv ==
  ClientsInv /\ SequenceInv /\ [Step \/ Ended]_allVars => SequenceInv'
<1> SUFFICES ASSUME ClientsInv, SequenceInv, [Step \/ Ended]_allVars PROVE SequenceInv'
  OBVIOUS
<1>1. CASE ProgramStep
  BY <1>1, OptionsKeep, TakeGrammarKeeps, ConstructKeeps, ParseLineKeeps, ReportKeeps
     DEF ProgramStep
<1>2. CASE UNCHANGED allVars
  <2>1. UNCHANGED <<invocation, opened, argument, dataAt, parsed, stage, exit, T, loaded, parser>>
    BY <1>2 DEF allVars, clientVars, vars, readerVars
  <2>2. DataStream' = DataStream /\ NamedTerminals' = NamedTerminals /\ Width' = Width
    BY <2>1 DEF DataStream, NamedTerminals, Width
  <2>3. TerminalsInv' /\ StartsInv'
    BY <2>1, TerminalsStay DEF SequenceInv, StartsInv, Constructed
  <2>4. ReadInv'
    BY <2>1, <2>2, FeedsOn DEF SequenceInv, ReadInv, Reads, AtEnd
  <2> QED  BY <2>3, <2>4 DEF SequenceInv
<1> QED
  BY <1>1, <1>2, LoadKeeps, SecondLoadKeeps, ReloadedKeeps, LoadSequenceKeeps,
     PythonStepKeeps, PythonKeeps DEF Step, Ended

THEOREM SequenceInvariant == ClientsSpec => []SequenceInv
<1>1. ClientsInv /\ SequenceInv /\ [Step \/ Ended]_allVars => SequenceInv'
  BY SequenceNextInv
<1> QED  BY <1>1, SequenceInitInv, ClientsInvariant, PTL DEF ClientsSpec

\* A quotient and a remainder
LEMMA Division ==
  ASSUME NEW n, NEW q \in Nat, NEW c \in Nat, NEW r \in Nat, n = q * c + r, r < c
  PROVE  n \div c = q /\ n % c = r
<1> DEFINE d == n \div c
           m == n % c
<1>1. n \in Nat /\ c > 0
  OBVIOUS
<1>2. d \in Int /\ m \in 0..c - 1
  BY <1>1
<1>3. n = c * d + m
  BY <1>1
<1> HIDE DEF d, m
<1>4. c * (q - d) = m - r /\ m - r < c /\ m - r > -c /\ q - d \in Int
  BY <1>1, <1>2, <1>3
<1>5. ASSUME NEW k \in Int, k > 0 PROVE c * k >= c /\ c * (-k) <= -c
  BY <1>5
<1>6. q = d
  <2>1. CASE q - d > 0
    BY <1>1, <1>2, <1>4, <1>5, <2>1
  <2>2. CASE q - d < 0
    <3>1. d - q \in Int /\ d - q > 0 /\ -(d - q) = q - d
      BY <1>2, <2>2
    <3>2. c * (-(d - q)) <= -c
      BY <1>5, <3>1
    <3> QED  BY <1>1, <1>2, <1>4, <3>1, <3>2
  <2> QED  BY <1>2, <2>1, <2>2
<1>7. r = m
  BY <1>1, <1>2, <1>4, <1>6
<1> QED  BY <1>6, <1>7 DEF d, m

LEMMA ExitCodes == ASSUME ClientsInv, SequenceInv, ~FeedsItself PROVE ExitCodeTells
<1> SUFFICES ASSUME invocation.client = "program", exit \in {"0", "-3"}
             PROVE  /\ loaded = "OK" /\ parser = "alive"
                    /\ exit = "0" => Len(DataWords) = Len(parsed) * Len(NamedTerminals)
                    /\ exit = "-3" => /\ Len(DataWords) \div Len(NamedTerminals) = Len(parsed)
                                      /\ Len(DataWords) % Len(NamedTerminals) # 0
  BY DEF ExitCodeTells
<1>1. loaded = "OK" /\ parser = "alive" /\ stage = "ended" /\ Width = 1
  BY DEF SequenceInv, StartsInv, Constructed, Width
<1>2. PICK place \in 0..Len(DataStream.words) :
        /\ ReadSoFar(DataStream, place, parsed, NamedTerminals, 1)
        /\ exit = "0" => Len(Places(DataStream, place)) = 0
        /\ exit = "-3" => /\ Len(Places(DataStream, place)) > 0
                          /\ Len(Places(DataStream, place)) < 1 * Len(NamedTerminals)
  BY <1>1 DEF SequenceInv, ReadInv, Reads, AtEnd
<1> DEFINE r == Len(Places(DataStream, place))
           q == Len(parsed)
           c == Len(NamedTerminals)
<1>3. DataStream \in Streams /\ place \in Nat
  <2>1. DataStream \in Streams /\ Len(DataStream.words) \in Nat
    BY DataIsAStream
  <2> QED  BY <2>1
<1>4. r \in Nat /\ Len(DataWords) = Len(Places(DataStream, 0))
  BY <1>3, WordsAre DEF DataWords
<1>5. Len(Places(DataStream, 0)) = q * (1 * c) + r /\ q \in Nat
  <2>1. parsed \in Seq({LineOfWords(DataStream, NamedTerminals, 1, Places(DataStream, 0), before) :
                          before \in Nat})
    BY <1>2 DEF ReadSoFar
  <2> QED  BY <1>2, <2>1, LenProperties DEF ReadSoFar
<1>6. c \in Nat
  <2>1. T \in Seq(Range(T))
    BY DEF SequenceInv, TerminalsInv
  <2> QED  BY <2>1, NamedType DEF Named, NamedTerminals
<1>7. 1 * c = c
  BY <1>6
<1>8. Len(DataWords) = q * c + r
  BY <1>4, <1>5, <1>7
<1>9. CASE exit = "0"
  <2>1. r = 0
    BY <1>2, <1>9
  <2> HIDE DEF r, q, c
  <2>2. q * c \in Nat
    BY <1>5, <1>6
  <2>3. Len(DataWords) = q * c
    BY <1>8, <2>1, <2>2
  <2> QED  BY <1>1, <1>9, <2>3 DEF q, c
<1>10. CASE exit = "-3"
  <2>1. r > 0 /\ r < c
    BY <1>2, <1>7, <1>10
  <2> HIDE DEF r, q, c
  <2>2. Len(DataWords) \div c = q /\ Len(DataWords) % c = r
    BY <1>4, <1>5, <1>6, <1>8, <2>1, Division
  <2>3. r # 0
    BY <1>4, <2>1
  <2> QED  BY <1>1, <1>10, <2>2, <2>3 DEF q, c
<1> QED  BY <1>9, <1>10

\* When the program exits with 0, all words of its input were parsed, but for one that
\* the end of the file follows at once; with -3, the words end within a line, and the
\* lines before it were parsed.  Data that the program itself adds to is left aside.
THEOREM ExitCodesTell == ClientsSpec => [](~FeedsItself => ExitCodeTells)
<1>1. ClientsInv /\ SequenceInv => (~FeedsItself => ExitCodeTells)
  BY ExitCodes
<1> QED  BY <1>1, ClientsInvariant, SequenceInvariant, PTL

\* The value of a word is a number.
LEMMA ValueType == ASSUME NEW word0 \in Words PROVE Value(word0) \in Int
<1>1. Spelled[word0].share \in Nat
  BY FileAssumption, SharesAssumption
<1> QED  BY <1>1 DEF Value

\* The fields of an entry
EntryTells(entry, name, size, words) ==
  /\ entry.terminal = name
  /\ entry.probability = Value(words[1])
  /\ size = 3 => /\ entry.highMark = Value(words[2])
                 /\ entry.highMark - entry.lowMark = Value(words[3])

LEMMA ObservedTells ==
  ASSUME NEW name, NEW size, size \in {1, 3}, NEW words, words \in Seq(Words), Len(words) = size
  PROVE  EntryTells(Observed(name, words), name, size, words)
<1>1. CASE size = 1
  BY <1>1 DEF Observed, EntryTells
<1>2. CASE size = 3
  <2>1. Value(words[2]) \in Int /\ Value(words[3]) \in Int
    <3>1. 2 \in 1..Len(words) /\ 3 \in 1..Len(words)
      BY <1>2
    <3>2. words[2] \in Words /\ words[3] \in Words
      BY <3>1, LenProperties
    <3> QED  BY <3>2, ValueType
  <2>2. /\ Observed(name, words).terminal = name
        /\ Observed(name, words).probability = Value(words[1])
        /\ Observed(name, words).highMark = Value(words[2])
        /\ Observed(name, words).lowMark = Value(words[2]) - Value(words[3])
    BY <1>2 DEF Observed
  <2> QED  BY <2>1, <2>2 DEF EntryTells
<1> QED  BY <1>1, <1>2

LEMMA LinesOf ==
  ASSUME ClientsInv, SequenceInv, invocation.client # "python", ~FeedsItself
  PROVE  LinesAreWhole
<1> DEFINE count == Len(NamedTerminals)
           Word(k, j, m) == Value(Sequence[((k - 1) * count + j - 1) * Width + m])
           words(k, j) == EntryWords(DataStream, count, Width, k, j)
<1>1. /\ Width = IF invocation.client = "program" THEN 1 ELSE Size
      /\ Width \in {1, 3} /\ Sequence = WordsLeft(DataStream, 0)
  BY DEF Width, Size, Sequence, DataWords
<1> SUFFICES ASSUME parsed # <<>>
             PROVE  /\ \A k \in DOMAIN parsed :
                         /\ DOMAIN parsed[k] = 1..count
                         /\ \A j \in 1..count :
                              LET entry == parsed[k][j]
                              IN /\ entry.terminal = NamedTerminals[j]
                                 /\ entry.probability = Word(k, j, 1)
                                 /\ Width = 3 =>
                                      /\ entry.highMark = Word(k, j, 2)
                                      /\ entry.highMark - entry.lowMark = Word(k, j, 3)
                    /\ exit = "OK" => Len(Sequence) = Len(parsed) * count * Width
  BY <1>1 DEF LinesAreWhole
<1>2. stage \in {"lines", "viterbi", "sequence", "ended"}
  BY DEF SequenceInv, StartsInv, ClientsInv, StagesInv, InvocationOK
<1>3. PICK place \in 0..Len(DataStream.words) :
        /\ ReadSoFar(DataStream, place, parsed, NamedTerminals, Width)
        /\ exit = "OK" => Len(Places(DataStream, place)) = 0
  BY <1>2 DEF SequenceInv, ReadInv, Reads, AtEnd
<1>4. count \in Nat
  <2>1. T \in Seq(Range(T))
    BY DEF SequenceInv, TerminalsInv
  <2> QED  BY <2>1, NamedType DEF Named, NamedTerminals
<1>5. DataStream \in Streams
  BY DataIsAStream
<1>6. /\ Len(parsed) \in Nat /\ DOMAIN parsed = 1..Len(parsed)
      /\ Len(Places(DataStream, 0))
           = Len(parsed) * (Width * count) + Len(Places(DataStream, place))
  <2>1. parsed \in Seq({LineOfWords(DataStream, NamedTerminals, Width, Places(DataStream, 0),
                                    before) : before \in Nat})
    BY <1>3 DEF ReadSoFar
  <2> QED  BY <1>3, <2>1, LenProperties DEF ReadSoFar
<1>7. Len(Sequence) = Len(Places(DataStream, 0)) /\ Len(Sequence) \in Nat
      /\ Len(Places(DataStream, place)) \in Nat
  <2>1. place \in Nat
    BY DataIsAStream
  <2> QED  BY <1>1, <1>5, <2>1, WordsAre
<1>8. ASSUME NEW k \in DOMAIN parsed
      PROVE  LineIsWritten(DataStream, parsed, NamedTerminals, Width, k)
  <2>1. k \in 1..Len(parsed)
    BY <1>6, <1>8
  <2> QED  BY <1>1, <1>3, <1>4, <1>5, <2>1, EntriesAreTheirs
<1>9. ASSUME NEW k \in DOMAIN parsed, NEW j \in 1..count
      PROVE  /\ parsed[k][j].terminal = NamedTerminals[j]
             /\ parsed[k][j].probability = Word(k, j, 1)
             /\ Width = 3 =>
                  /\ parsed[k][j].highMark = Word(k, j, 2)
                  /\ parsed[k][j].highMark - parsed[k][j].lowMark = Word(k, j, 3)
  <2>1. /\ words(k, j) \in Seq(Words) /\ Len(words(k, j)) = Width
        /\ parsed[k][j] = Observed(NamedTerminals[j], words(k, j))
    BY <1>8, <1>9 DEF LineIsWritten
  <2>2. \A m \in 1..Width : Value(words(k, j)[m]) = Word(k, j, m)
    BY <1>1 DEF EntryWords
  <2> HIDE DEF words, Word
  <2>3. EntryTells(parsed[k][j], NamedTerminals[j], Width, words(k, j))
    BY <1>1, <2>1, ObservedTells
  <2> QED  BY <1>1, <2>2, <2>3 DEF EntryTells
<1>10. ASSUME exit = "OK" PROVE Len(Sequence) = Len(parsed) * count * Width
  <2>1. Len(Sequence) = Len(parsed) * (Width * count)
    <3> DEFINE c == Width * count
    <3>1. Len(parsed) * c \in Nat
      <4>1. c \in Nat
        BY <1>1, <1>4
      <4> HIDE DEF c
      <4> QED  BY <1>6, <4>1
    <3> HIDE DEF c
    <3> QED  BY <1>3, <1>6, <1>7, <1>10, <3>1 DEF c
  <2>2. CASE Width = 1
    <3> HIDE DEF count
    <3> QED  BY <1>4, <1>6, <2>1, <2>2
  <2>3. CASE Width = 3
    <3> HIDE DEF count
    <3> QED  BY <1>4, <1>6, <2>1, <2>3
  <2> QED  BY <1>1, <2>2, <2>3
<1>11. \A k \in DOMAIN parsed : DOMAIN parsed[k] = 1..count
  BY <1>8 DEF LineIsWritten
<1> QED  BY <1>9, <1>10, <1>11

\* The program and loadPTFile of the library read the lines in the same way: each has an
\* entry for each terminal with a name, made of the next words of the data, and if a
\* client of the library ends with OK there is no word left.  Data that the program
\* itself adds to is left aside.
THEOREM LinesAreTheirs ==
  ClientsSpec => [](invocation.client # "python" /\ ~FeedsItself => LinesAreWhole)
<1>1. ClientsInv /\ SequenceInv =>
        (invocation.client # "python" /\ ~FeedsItself => LinesAreWhole)
  BY LinesOf
<1> QED  BY <1>1, ClientsInvariant, SequenceInvariant, PTL
=============================================================================
