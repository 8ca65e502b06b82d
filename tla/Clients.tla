------------------------------- MODULE Clients -------------------------------
(***************************************************************************)
(* Those who load files: the program of CommandLine, and a client of       *)
(* Stream.h that loads a grammar and then either writes it with operator<< *)
(* and loads what it wrote, and a sequence, or loads the same file in      *)
(* Python, and the sequence line by line.                                  *)
(***************************************************************************)
EXTENDS CommandLine, PythonLoader

CONSTANTS
  Invocations,   \* the command lines and files
  Heads,         \* a nonterminal's name with a colon
  Printed        \* the words of a probability: two digits, at least two columns

ASSUME InvocationsAssumption ==
  \A i \in Invocations :
    /\ i \in [client : {"program", "library"}, args : Seq(STRING),
              disk : [DOMAIN i.disk -> Streams], input : Streams, simple : BOOLEAN]
    /\ i.client = "library" => "grammar" \in DOMAIN i.disk

\* What operator<< writes is among the words that occur.
ASSUME PrintingAssumption ==
  /\ {"Section", "Terminals", "NonTerminals", "Axiom", "Productions", "|"} \subseteq Words
  /\ \A w \in Words : LET name == IF Closes(w, ":") THEN Spelled[w].stem ELSE w
                     IN name = Empty \/ Heads[name] \in Words
  /\ \A prob \in Shares : prob <= Full => Printed[prob] \in Seq(Words)

VARIABLE kept    \* the grammar that was loaded first

allVars == <<vars, readerVars, clientVars, stage, exit, calls, kept>>

\* A new CFGrammar (Grammar::Grammar)
NewGrammar ==
  /\ axiom' = Token(Empty, "UNKNOWN") /\ T' = <<>> /\ N' = <<>> /\ P' = <<>>
  /\ closures' = [size |-> 0, pl |-> <<>>, pu |-> <<>>]
  /\ parser' = "none" /\ answer' = [call |-> "none", status |-> "OK"]

Snapshot == [status |-> loaded, axiom |-> axiom, T |-> T, N |-> N, P |-> P]

ClientsInit ==
  /\ Init
  /\ invocation \in Invocations
  /\ file = IF invocation.client = "program" THEN Blank ELSE invocation.disk["grammar"]
  /\ at = 0 /\ phase = "read" /\ section = "UNKNOWN"
  /\ lhs = Empty /\ rhs = <<>> /\ closed = FALSE /\ share = Unset /\ loaded = "reading"
  /\ stage = IF invocation.client = "program" THEN "options" ELSE "load"
  /\ argument = 0 /\ opened = <<>> /\ dataAt = 0 /\ parsed = <<>> /\ exit = "none"
  /\ calls = <<>> /\ kept = [status |-> "none"]

Load ==
  /\ stage \in {"load", "reload"} /\ LoadStep
  /\ UNCHANGED <<clientVars, stage, exit, calls, kept>>

-----------------------------------------------------------------------------
(* Writing a grammar and reading it again *)

\* Faulty: the alternatives are not told apart.
DumpProductionInOne(name) ==
  LET rules == RulesListed(name)
  IN <<Heads[name]>>
     \o FlattenSeq([j \in DOMAIN rules |-> SymbolNames(rules[j]) \o Printed[rules[j].prob]])

\* One production as dumpGrammar writes it
DumpProduction(name) ==
  LET rules == RulesListed(name)
  IN <<Heads[name]>>
     \o FlattenSeq([j \in DOMAIN rules |->
          (IF j = 1 THEN <<>> ELSE <<"|">>) \o SymbolNames(rules[j]) \o Printed[rules[j].prob]])

\* operator<<, of a CFGrammar
DumpGrammar ==
  <<"Section", "Terminals">> \o NamedTerminals \o <<"Section", "NonTerminals">>
  \o [i \in DOMAIN N |-> N[i].name] \o <<"Section", "Axiom", axiom.name>>
  \o <<"Section", "Productions">>
  \o FlattenSeq([i \in DOMAIN N |->
       IF Productions(N[i].name) = {} THEN <<>> ELSE DumpProduction(N[i].name)])

DumpAndReload ==
  /\ stage = "load" /\ invocation.client = "library" /\ phase = "done" /\ loaded = "OK"
  /\ kept' = Snapshot
  /\ file' = [words |-> DumpGrammar, ended |-> TRUE] /\ at' = 0
  /\ phase' = "read" /\ section' = "UNKNOWN" /\ loaded' = "reading"
  /\ lhs' = Empty /\ rhs' = <<>> /\ closed' = FALSE /\ share' = Unset
  /\ NewGrammar
  /\ Proceeds("reload")
  /\ UNCHANGED <<clientVars, calls>>

\* A load that failed, or the second one
Reloaded ==
  /\ invocation.client = "library" /\ phase = "done"
  /\ \/ stage = "load" /\ loaded # "OK" /\ Ends(loaded)
     \/ stage = "reload" /\ IF loaded = "OK" THEN Proceeds("sequence") ELSE Ends(loaded)
  /\ UNCHANGED <<clientVars, readerVars, GrammarVars, calls, kept>>

\* Faulty: what was read of a line that breaks off is kept.
LoadSequenceTornOff ==
  /\ stage = "sequence"
  /\ LET read == LoadLine(DataStream, dataAt, T, Empty, invocation.simple)
     IN /\ dataAt' = read.at /\ parsed' = Append(parsed, read.line)
        /\ IF read.status = "OK" THEN UNCHANGED <<stage, exit>> ELSE Ends(read.status)
  /\ UNCHANGED <<invocation, argument, opened, readerVars, GrammarVars, calls, kept>>

\* loadPTFile, of loadParseFile() and loadSimpleParseFile()
LoadSequence ==
  /\ stage = "sequence"
  /\ LET read == LoadLine(DataStream, dataAt, T, Empty, invocation.simple)
     IN /\ dataAt' = read.at
        /\ IF read.status = "OK"
             THEN parsed' = Append(parsed, read.line) /\ UNCHANGED <<stage, exit>>
             ELSE /\ Ends(IF read.status = "ERR_EOF" /\ parsed # <<>> THEN "OK"
                          ELSE read.status)
                  /\ UNCHANGED parsed
  /\ UNCHANGED <<invocation, argument, opened, readerVars, GrammarVars, calls, kept>>

-----------------------------------------------------------------------------
(* The same file in Python *)

LoadInPython ==
  /\ stage = "load" /\ invocation.client = "library" /\ phase = "done"
  /\ invocation' = [invocation EXCEPT !.client = "python"]
  /\ kept' = Snapshot
  /\ PythonStarts(file) /\ NewGrammar
  /\ Proceeds("python")
  /\ UNCHANGED <<argument, opened, dataAt, parsed, file, at, phase, section, localVars>>

PythonStep ==
  /\ stage = "python"
  /\ PythonCall \/ PythonCallRaises \/ PythonDone
  /\ UNCHANGED <<clientVars, stage, exit, kept>>

PythonEnds ==
  /\ stage = "python" /\ loaded # "reading"
  /\ IF loaded = "OK" THEN Proceeds("constructInPython") ELSE Ends(loaded)
  /\ UNCHANGED <<clientVars, readerVars, GrammarVars, calls, kept>>

ConstructInPython ==
  /\ stage = "constructInPython" /\ NewParser
  /\ CASE answer'.status = "OK" -> Proceeds("parseLine")
       [] answer'.status = "died" -> Ends("killed")
       [] answer'.status = "invalid_argument" -> Ends("raised")
  /\ UNCHANGED <<clientVars, readerVars, calls, kept>>

Size == IF invocation.simple THEN 1 ELSE 3

\* "for line in fp: parser.parseLine(line)": a line without words is no call.
ParseLineInPython ==
  /\ stage = "parseLine" /\ dataAt < Len(DataStream.words)
  /\ LET line == LineAt(DataStream, dataAt)
     IN IF line # <<>> /\ LineRaises(line, NamedTerminals, Size)
          THEN Ends("raised") /\ UNCHANGED <<dataAt, parsed>>
          ELSE /\ dataAt' = LineEnd(DataStream, dataAt)
               /\ parsed' = IF line = <<>> THEN parsed
                            ELSE Append(parsed, LineOf(line, NamedTerminals, Size))
               /\ UNCHANGED <<stage, exit>>
  /\ UNCHANGED <<invocation, argument, opened, readerVars, GrammarVars, calls, kept>>

LinesEnd ==
  /\ stage = "parseLine" /\ dataAt = Len(DataStream.words)
  /\ Ends("OK")
  /\ UNCHANGED <<clientVars, readerVars, GrammarVars, calls, kept>>

-----------------------------------------------------------------------------
Step ==
  \/ ProgramStep /\ UNCHANGED <<calls, kept>>
  \/ Load
  \/ DumpAndReload \/ Reloaded \/ LoadSequence
  \/ LoadInPython \/ PythonStep \/ PythonEnds
  \/ ConstructInPython \/ ParseLineInPython \/ LinesEnd
Ended == (stage = "ended" \/ ~ReadsOn) /\ UNCHANGED allVars

ClientsSpec == ClientsInit /\ [][Step \/ Ended]_allVars /\ WF_allVars(Step)

-----------------------------------------------------------------------------
(* Properties *)

\* The words of a file without its comments
Plain(stream) == SelectSeq(stream.words, LAMBDA w : ~Is(w, "#"))

\* Whatever is wrong with a file, and even if loadGrammar() fails half-way, each rule
\* in the grammar is one that the file has, under its head, with its own symbols and
\* its own probability.
OnlyWhatIsWritten ==
  stage \in {"load", "reload"} =>
    \A i \in DOMAIN P : \A rule \in Range(P[i].rules) : StandsIn(file, P[i].lhs.name, rule)

EmptySection(stream) ==
  \E s \in Range(SectionsOf(Plain(stream))) : Len(s) < 2

\* If both loaders accept a file, the C++ one and the one in Python, they make the same
\* grammar of it, provided that its last word is followed by white space, no section is
\* empty, every rule has a probability, and those of a nonterminal add up to one, which
\* only C++ checks.
LoadersAgree ==
  stage = "python" /\ loaded = "OK" /\ kept.status = "OK" =>
    \/ ~file.ended \/ EmptySection(file) \/ ~AddsUp
    \/ \E i \in DOMAIN P : \E rule \in Range(P[i].rules) : rule.prob = 0
    \/ /\ axiom = kept.axiom /\ N = kept.N /\ P = kept.P
       /\ Append(T, Empty) = kept.T

\* What a rule has after it was written and read
Reread(rule) ==
  LET stream == [words |-> Printed[rule.prob], ended |-> TRUE]
  IN [rule EXCEPT !.prob = Number(stream, 1, Len(stream.words), Unset)]
RereadRules(name) ==
  LET i == CHOOSE i \in DOMAIN kept.P : kept.P[i].lhs.name = name
  IN [j \in DOMAIN kept.P[i].rules |-> Reread(kept.P[i].rules[j])]

\* A grammar that is written and read again comes back whole, but for what two digits
\* cannot say of its probabilities; and it is accepted if they still add up.  A
\* symbol called "Section" is the exception.
RoundTrip ==
  LET names == NamesOf(kept.N) \cup Range(kept.T)
  IN phase = "done" /\ stage = "reload" /\ "Section" \notin names =>
       /\ axiom = kept.axiom /\ N = kept.N
       /\ Range(T) \cup {Empty} = Range(kept.T)
       /\ \A w \in NamesOf(N) : RulesListed(w) = RereadRules(w)
       /\ loaded = IF \A w \in NamesOf(N) : Whole(RereadRules(w)) = Full
                     THEN "OK" ELSE "ERR_INVPARAM"

\* What the readers of sequences make of a word that has nothing after it
Sequence == IF invocation.client = "python"
              THEN WordsLeft([DataStream EXCEPT !.ended = TRUE], 0) ELSE DataWords
TooLong == \E i \in 0..dataAt - 1 :
             Len(LineAt(DataStream, i)) > Size * Len(NamedTerminals)

\* The three readers of sequences agree: each line that was read, in whichever form,
\* has one entry for each named terminal of the grammar, in order, made of the next
\* words of the data; and if the reader ends well there is no word left.  The
\* exception is a line in Python with more words than it needs.
LinesAreWhole ==
  LET size == IF invocation.client = "program" THEN 1 ELSE Size
      count == Len(NamedTerminals)
      Word(k, j, m) == Value(Sequence[((k - 1) * count + j - 1) * size + m])
  IN parsed # <<>> =>
       \/ invocation.client = "python" /\ TooLong
       \/ /\ \A k \in DOMAIN parsed :
               /\ DOMAIN parsed[k] = 1..count
               /\ \A j \in 1..count :
                    LET entry == parsed[k][j]
                    IN /\ entry.terminal = NamedTerminals[j]
                       /\ entry.probability = Word(k, j, 1)
                       /\ size = 3 => /\ entry.highMark = Word(k, j, 2)
                                      /\ entry.highMark - entry.lowMark = Word(k, j, 3)
          /\ exit = "OK" => Len(Sequence) = Len(parsed) * count * size

\* Whatever the files and the arguments, the client's process comes to an end.  The one
\* exception is the program that prints into its data file, with --debug or --predict,
\* and finds another line there whenever it has parsed one.
ProgramEnds ==
  \/ <>(stage = "ended")
  \/ <>[](/\ stage = "lines" /\ FeedsItself
           /\ Len(WordsLeft(DataStream, dataAt)) >= Len(NamedTerminals))
=============================================================================
