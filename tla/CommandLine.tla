----------------------------- MODULE CommandLine -----------------------------
(***************************************************************************)
(* The program in app/parser.cpp: its options, the grammar file, the       *)
(* sequence of inputs, and how it ends.  What it prints matters only if    *)
(* the output file is the data file too, and it prints while it reads,     *)
(* with --debug or --predict: then it is as so many words more to read.    *)
(***************************************************************************)
EXTENDS GrammarFile, SequenceFile

CONSTANTS
  Options, Supported,  \* arguments that begin with -, and those this build accepts
  Writable,            \* names of files that can be opened for writing
  Prose,               \* a word of what the program prints, whatever it is
  MaxPrinted           \* the words of a data file it prints into, until which the model
                       \* follows it

ASSUME PrintingOptions ==
  {"--debug", "--predict"} \subseteq Supported /\ Supported \subseteq Options
ASSUME ProseAssumption == Prose \in Words /\ ~Is(Prose, "#") /\ Prose # NewLine

VARIABLES
  invocation,    \* [client, args, disk, input, simple]: who it is, the command line,
                 \* the files by their names, and what comes from std::cin
  stage,         \* where the client is
  argument,      \* how many arguments it has looked at
  opened,        \* the names behind grammarStream_, dataStream_ and outputStream_
  dataAt,        \* the place of the data stream
  parsed,        \* the lines it parsed
  exit           \* how the process ended

clientVars == <<invocation, argument, opened, dataAt, parsed>>

Ends(how) == stage' = "ended" /\ exit' = how
Proceeds(to) == stage' = to /\ UNCHANGED exit

-----------------------------------------------------------------------------
(* Options::init *)

arg == invocation.args[argument + 1]
ArgumentLeft == stage = "options" /\ argument < Len(invocation.args)

TakeOption ==
  /\ ArgumentLeft /\ arg \in Supported
  /\ argument' = argument + 1
  /\ UNCHANGED <<invocation, stage, opened, dataAt, parsed, exit, readerVars, GrammarVars>>

\* Unknown or not built: the exception leaves the streams to the destructor.
RefuseOption ==
  /\ ArgumentLeft /\ arg \in Options \ Supported
  /\ Ends("-1")
  /\ UNCHANGED <<clientVars, readerVars, GrammarVars>>

Opens == IF Len(opened) = 2 THEN arg \in Writable
         ELSE Len(opened) < 2 /\ arg \in DOMAIN invocation.disk

\* An ofstream empties the file it opens, be it the one the grammar is to be read from.
OpenStream ==
  /\ ArgumentLeft /\ arg \notin Options /\ Opens
  /\ argument' = argument + 1 /\ opened' = Append(opened, arg)
  /\ invocation' = IF Len(opened) = 2 /\ arg \in DOMAIN invocation.disk
                     THEN [invocation EXCEPT !.disk[arg] = Blank] ELSE invocation
  /\ UNCHANGED <<stage, dataAt, parsed, exit, readerVars, GrammarVars>>

\* A file that does not open, or one too many: deletePtrs() here and once more in the
\* destructor, which deletes the same streams again.
RefuseStream ==
  /\ ArgumentLeft /\ arg \notin Options /\ ~Opens
  /\ \E how \in {"-1", "killed"} : Ends(how)
  /\ UNCHANGED <<clientVars, readerVars, GrammarVars>>

\* There is nothing to delete twice.
MissGrammar ==
  /\ stage = "options" /\ argument = Len(invocation.args) /\ opened = <<>>
  /\ Ends("-1")
  /\ UNCHANGED <<clientVars, readerVars, GrammarVars>>

\* grammarStream() is read from its beginning.
TakeStreams ==
  /\ stage = "options" /\ argument = Len(invocation.args) /\ opened # <<>>
  /\ Proceeds("load") /\ file' = invocation.disk[opened[1]]
  /\ UNCHANGED <<clientVars, at, phase, section, localVars, loaded, GrammarVars>>

-----------------------------------------------------------------------------
(* What is printed *)

\* dataStream(); the other clients have a stream of their own.
DataStream == IF Len(opened) < 2 THEN invocation.input ELSE invocation.disk[opened[2]]

Taken(option) == \E i \in 1..argument : invocation.args[i] = option

\* The program reads what it prints.
FeedsItself ==
  /\ Len(opened) = 3 /\ opened[3] = opened[2]
  /\ Taken("--debug") \/ Taken("--predict")

\* Whatever is printed in a turn ends with std::endl, which flushes it.
Prints(count) ==
  invocation' = IF ~FeedsItself THEN invocation
                ELSE [invocation EXCEPT !.disk[opened[2]] =
                        [words |-> @.words \o [i \in 1..count |-> Prose], ended |-> TRUE]]

\* operator<< of the grammar, and ParseLine's "Reading" for a line of count terminals.
\* Rules, matrices and cells come on top of it: with fewer words to read the program
\* would come to their end no later.
GrammarDump == IF Taken("--debug") THEN 2 + Len(NamedTerminals) ELSE 0
LineDump(count) == IF Taken("--debug") THEN 1 + 2 * count ELSE 0

\* getCurrentMaxAlpha() and getPrediction(), and the line that the latter parses, of
\* some of the terminals
Forecasts ==
  IF Taken("--predict")
    THEN {21 + 2 * count + LineDump(count) : count \in 0..Len(NamedTerminals)} ELSE {0}

-----------------------------------------------------------------------------
(* main and parse<SParser> *)

TakeGrammar ==
  /\ stage = "load" /\ invocation.client = "program" /\ phase = "done"
  /\ IF loaded = "OK" THEN Proceeds("construct") /\ Prints(GrammarDump)
     ELSE Ends(IF loaded = "died" THEN "killed" ELSE "-2") /\ UNCHANGED invocation
  /\ UNCHANGED <<argument, opened, dataAt, parsed, readerVars, GrammarVars>>

\* parse() catches runtime_error, of which invalid_argument is none.
Construct ==
  /\ stage = "construct" /\ NewParser
  /\ CASE answer'.status = "OK" ->
              Proceeds("lines") /\ \E count \in Forecasts : Prints(count)
       [] answer'.status = "died" -> Ends("killed") /\ UNCHANGED invocation
       [] answer'.status = "invalid_argument" -> Ends("terminated") /\ UNCHANGED invocation
  /\ UNCHANGED <<argument, opened, dataAt, parsed, readerVars>>

\* SParser::parse() knows all terminals of the line.
TakeLine(line) ==
  /\ parsed' = Append(parsed, line) /\ UNCHANGED <<stage, exit>>
  /\ \E count \in Forecasts : Prints(LineDump(Len(NamedTerminals)) + count)

\* The bound: a data file that grows is followed to MaxPrinted words.
ReadsOn == FeedsItself => Len(DataStream.words) <= MaxPrinted

\* Faulty: a line that breaks off is taken for the end of the file.
ParseLineLoosely ==
  /\ stage = "lines" /\ ReadsOn
  /\ LET read == LoadLine(DataStream, dataAt, T, Empty, TRUE)
     IN /\ dataAt' = read.at
        /\ IF read.status = "OK" THEN TakeLine(read.line)
           ELSE Proceeds("viterbi") /\ UNCHANGED <<invocation, parsed>>
  /\ UNCHANGED <<argument, opened, readerVars, GrammarVars>>

\* One turn of the loop
ParseLine ==
  /\ stage = "lines" /\ ReadsOn
  /\ LET read == LoadLine(DataStream, dataAt, T, Empty, TRUE)
     IN /\ dataAt' = read.at
        /\ IF read.status = "OK" THEN TakeLine(read.line)
           ELSE /\ IF read.status = "ERR_EOF" THEN Proceeds("viterbi") ELSE Ends("-3")
                /\ UNCHANGED <<invocation, parsed>>
  /\ UNCHANGED <<argument, opened, readerVars, GrammarVars>>

\* getViterbiParse(), which may not return: see Chart.
Report ==
  /\ stage = "viterbi"
  /\ \E how \in {"0", "killed"} : Ends(how)
  /\ UNCHANGED <<clientVars, readerVars, GrammarVars>>

ProgramStep ==
  \/ TakeOption \/ RefuseOption \/ OpenStream \/ RefuseStream \/ MissGrammar \/ TakeStreams
  \/ TakeGrammar \/ Construct \/ ParseLine \/ Report

-----------------------------------------------------------------------------
(* Properties *)

DataWords == WordsLeft(DataStream, 0)

\* The exit code tells what became of the inputs: 0 that all of them were parsed, but
\* for a word the end of the file follows at once, and -3 that they end within a line.
ExitCodeTells ==
  invocation.client = "program" =>
    /\ exit = "0" => /\ loaded = "OK" /\ parser = "alive"
                     /\ Len(DataWords) = Len(parsed) * Len(NamedTerminals)
    /\ exit = "-3" => /\ loaded = "OK" /\ parser = "alive"
                      /\ Len(DataWords) \div Len(NamedTerminals) = Len(parsed)
                      /\ Len(DataWords) % Len(NamedTerminals) # 0

\* A grammar that loadGrammar() accepted does not make the constructor of SParser
\* throw: nothing in the program would catch it.
LoadedIsAccepted == exit # "terminated"
=============================================================================
