# A formal model of sartparser

sartparser is a C++ library (with Python bindings and a command line front end)
that parses a stream of uncertain, timed observations with a stochastic
context-free grammar, using Stolcke's probabilistic version of Earley's
algorithm. This directory holds TLA+ modules that model its core, the TLC runs
that check them, and TLAPS proofs. Paths below are relative to the repository's
`src/` directory.

## 1. Inventory

| Component | Source | State | Operations | Module |
|---|---|---|---|---|
| Session and cell chain | `SParser.cpp`, `CellUtils.cpp` | embedded `cellHead_`, heap-allocated `SCell`s linked by `NextCell`/`PrevCell`, `currentCell_` | `parse`, `reset`, `getPrediction`, `getCurrentMaxAlpha`, `getViterbiParse`, the destructor | `CellChain`, `Session` |
| Chart | `SCell.cpp`, `SState.cpp` | per cell: an array of states (item, alpha, gamma, V, marks, children) and `highMark_` | `Scan`, `Complete`, `Predict`, `AddState`, `Filter` | `Chart` |
| Queries | `SParser.cpp` | none of its own; reads the chart, pushes a lookahead cell | `getMaxAlpha`, `getPredictedLine`, `GetMostLikelyFinalState`, `ExpandState`, `ParseTreeFromState` | `Chart` |
| Grammar closures | `SGrammar.cpp` | `Rl`, `Ru` | `ComputeClosures`, `MakeR` | `Closures` |
| Grammar construction | `Grammar.cpp`, `SGrammar.cpp`, `CFGrammar.cpp` | symbol tables `N`, `T`, productions, axiom, closures, "checked" | `addAxiom`, `addTerminal`, `addNonTerminal`, `addRule`, `check`, `newParser` | `GrammarBuilder` |
| Loaders | `Stream.cpp` | the place in the stream, `currentSection`, the locals of `loadProduction` | `loadGrammar`, `loadProduction`, `loadLine`, `loadParseFile`, `loadSimpleParseFile`, `operator<<` of a grammar | `WordStream`, `GrammarFile`, `SequenceFile`, `Clients` |
| Command line program | `app/parser.cpp` | the three streams of `Options`, the lines parsed, the exit code | `Options::init`, `main`, `parse<SParser>` | `CommandLine` |
| Python package | `python/monkeypatch.py` | the locals of `splitProductions` | `loadGrammar`, `parseLine` | `PythonLoader` |
| Printing, Boost declarations, generator, build | `CellUtils.cpp`, `python/pysartparser.cpp`, `Generate.cpp` | – | formatting, conversions | not modelled |

**How they interact.** A client builds a grammar, checks it (which computes the
closures), and asks it for parsers. A parser keeps a reference to its grammar.
`parse()` turns an input into a `Line` of tokens and runs `ParseLine`: `Scan`
creates a cell from the current one and links it in, `Complete` and `Predict`
fill it. States point to the states of earlier cells as children. Two of the
three queries push a *lookahead* cell through that same path (one for the
predicted tokens, one for the end of the string), read it, take it off the chain
with `backtrack()` and delete it. Grammars and sequences come from files: the
loaders of `Stream.cpp` call the grammar once per word or rule they have read,
those of the Python package split the whole file first and then make the same
calls. The command line program opens its files, loads the grammar, constructs
one parser and gives it the sequence line by line. Everything is single-threaded
and synchronous; the only thing that is written and read again is a grammar.

**What is hard about it.**

* *Pointers and shared cells.* Children are raw pointers into other cells, and
  cells are deleted by four different paths. Whether a pointer outlives its
  target depends on sequences of calls, not on any one of them.
* *Loops over arrays that grow.* `Complete` runs over the very array into which
  `AddState` makes sorted insertions. A state's gamma is multiplied into its
  parents when the cursor reaches it: all its weight must be there by then.
* *Merging.* Equal states are merged: their weights add, the better V wins, and
  the children follow it, except for unit states, which were skipped by the
  closure and are spliced into the children afterwards.
* *Closures.* Left recursion and chains of unit rules are not followed but summed
  by matrix inversion. Unit states are nevertheless built, for the tree, and must
  then not count again.
* *Boundaries.* The marks' slack, rejected inputs, the `""` terminal.
* *Files that are not quite right.* `loadGrammar` changes the grammar while it
  reads, ignores what `AddRule` answers, and stops wherever it meets something wrong, so
  that a part of the file stays behind. Its locals outlive the rule they belong
  to, an unclosed bracket swallows words to the next one that closes, and a last
  word that no white space follows is taken for the end.
* *Resources in an order.* `Options::init` opens the output, and so empties it,
  before anything is read, and deletes the streams twice when it refuses an argument.

The hazards this gives rise to are listed in `PROJECT.json`, each at its line
with the properties that cover it.

## 2. The modules

```
Session  <--implements--  CellChain  <--  CellChainProofs  <--  MCCellChain
Chart  <--  ChartReference  <--  MCChart  -->  Closures  -->  Rational
Chart  <--  ChartProofs
GrammarBuilder  <--  GrammarBuilderProofs  -->  SumLemmas
GrammarBuilder  <--  MCGrammarBuilder

GrammarBuilder, WordStream  <--  GrammarFile       WordStream  <--  SequenceFile
GrammarFile, SequenceFile  <--  CommandLine, PythonLoader
CommandLine, PythonLoader  <--  Clients  <--  MCClients
GrammarFile  <--  GrammarFileProofs  <--  ClientsProofs  -->  Clients
SequenceFile  <--  SequenceFileProofs  <--  ClientsProofs
NaturalLemmas  <--  ChartProofs, GrammarFileProofs, SequenceFileProofs, SumLemmas
```

### Session
What a client may rely on: a parser *is* the sequence of inputs it accepted since
the last reset, and an answer is a function of that sequence.

### CellChain
The pointers of an `SParser`. `heap` is the set of live cells, `next`, `prev`
and `index` are the fields of `SCell`, `cur` is `currentCell_`, and the local
pointers of the running call (`fresh` = Scan's `pCell`, `limbo` = the cell
`backtrack()` returned, `doomed` = the cursor of `destroyCells`) are variables
as well, since what must never happen is that one of them leads to freed memory.
A freed address may be allocated again at once. The contents of a cell are
abstracted to `word`, the lines it was built from, and `refs`, the cells which
its states' children are in. A call is a few steps, and `pc` says where it is; calls do not
overlap, because the library has no threads and no callbacks.

The code's failure branch in `ParseLine` (Scan returns `NULL` and
`currentCell_` becomes `NULL`) is not here: it is taken only when Scan meets a
duplicate state, which `Chart` models and shows (`NeverLost`) not to happen.

### Chart
The algorithm, over the grammar as a constant: `cells` is the chain as a sequence
(the refinement that `CellChain` proves), `x`, `y` and `upto` are the loop variables
of whichever of `Scan`, `Complete` and `Predict` is running. One step is one turn
of the innermost loop that adds or merges a state; turns which find nothing to do
are skipped over in one step, in the code's order (`First`).

* A child pointer is modelled as its cell's index and the item of the state it
  points to. That is faithful as long as a cell holds one state per item
  (`NoDuplicates`), which is checked and proved.
* Where the code searches an array, the model has the set of the indices that match
  (`Same`, `Position`) and takes the least; a `Line`, which is a set ordered by name, has its
  names in the order of the grammar's terminals (`InOrder`).
* Weights are abstract constants (`Plus`, `Times`, `Less`, ...); the runs give
  them exact fractions. `V` is a sum of logarithms in the code and a product here;
  the log of zero is minus infinity and compares as zero does.
* `purpose` tells what ParseLine was called for, and so which query goes on after it.
* `Dead` stands for the undefined behaviour of `ExpandState` (see the findings):
  the read through a NULL reference either works out or kills the process.

Left out: partial mode (the `?` states), which the only constructor of SParser turns
off; the lengths that scale probabilities; debug output.

### ChartReference
What the numbers should be, independently of the chart: from the parse trees of
the grammar, or from the recursive definition of all derivations of a span.

### Closures, Rational
`ComputeClosures` and `MakeR` over exact fractions. `MCChart` gives the closures
of its grammars as literals (TLC would compute them again at each use) and its
`ClosureAssumption`, which TLC evaluates at the start of every run, compares them
with `MakeR(Pl(Rules))` and `MakeR(Pu(Rules))`.

### GrammarBuilder
The public calls of a grammar in any order: what `check()` computes and what
later calls leave as it was. Section 5 has the details.

### WordStream
An `istream` as the loaders see it: the words between white space, and whether
white space follows the last one. A word is a model value; what the code looks at
in its spelling is a record: the first and the last character, the word
without a colon at its end (`stem`), and what stands between its brackets: nothing, a
number (of value `share`) or text. `NextWord` is `readNextWord`, which skips
comments and reports the end of the file even if the extraction that met it got a
word; `Places` are the places of the words that are left, in their order (`Ascending`), and
`Closing` is the `getline` of `loadDelimited`, which knows no comments, and
`Number` the extraction of a number from what stands between the brackets.

### GrammarFile
`loadGrammar` and `loadProduction`, one step per turn of their loops, over the
actions of `GrammarBuilder`: `LoadTerminal` *is* an `AddTerminal`, and so on. `file`
and `at` are the stream and its position, `section` is `currentSection`, `lhs`,
`rhs`, `share` and `closed` are the locals of `loadProduction`, and `phase` says
which loop is running. The status of `AddRule` is ignored and that of
`addAxiom` is not, as in the code. `[ ]`, a bracket with nothing in it, leaves the
probability as it is: if it was never assigned (`Unset`), the rule gets an
arbitrary one of `Shares`, because the variable is uninitialised.

### SequenceFile
`loadLine` as a function of the stream, the place and the grammar's terminals: as
many words as the terminals need (one each, or three each in the long form),
wherever the lines of the file end. `LineAt` is a line as a Python client reads it.

### CommandLine
`Options::init`, `main` and `parse<SParser>`. The first three arguments that are
not options open the grammar, the data and the output; opening the output
empties the file. Where the streams are deleted twice (`RefuseStream`), the
process returns `-1` or is killed. `Report`, the last step, may be killed too: see
`viterbi_root_child`.

What the program prints changes nothing but in one case: the output file is the
data file too, and it prints while it reads, with `--debug` or `--predict`
(`FeedsItself`). Then `Prints` adds words to the file that `ParseLine` reads from:
the names that `operator<<` writes of the grammar (`GrammarDump`), ParseLine's
"Reading" with two words for each terminal (`LineDump`), the prediction
(`Forecasts`). What they say does not matter, since `loadLine` takes any word for a
number, so all are one word, `Prose`. Left out are the rules, the matrices and the
cells that `--debug` dumps as well: they are words on top of these, and with fewer
of them the end of the file would come no later.

### PythonLoader
`loadGrammar` of `monkeypatch.py`: `SectionsOf` and `SplitProductions` work on the
whole file and raise before anything is added; then each call of the grammar is
a step. `LineOf` and `LineRaises` are `parseLine`.

### Clients
Composes all this: the program, and a client of `Stream.h` that loads a grammar
and then either writes it with `operator<<`, loads what it wrote into a new grammar
and reads a sequence, or gives the same file and sequence to the Python package. The
two branches are what lets one property compare one loader with the other, and a
grammar with itself after it was written and read.

## 3. Runs

| Run | Question | Bounds |
|---|---|---|
| `cell_chain` | Do pointers, numbering, ownership and answers survive every sequence of calls? | 5 cells, 3 inputs since a reset, batches of up to 2, 2 known and 1 unknown input |
| `chart_spans` | Is every state right, in a grammar with left recursion, right recursion, ambiguity and a unit rule? | 3 inputs of 3 kinds, one of them with an unknown terminal, all queries between |
| `chart_sentences` | Are prefix probabilities, predictions and Viterbi answers those of the grammar's own parse trees, and has every state the children that the answer's tree is read from? | 4 inputs of 2 kinds; a grammar with sentences of 2 to 4 terminals |
| `chart_marks` | Does filtering on marks with SKIP leave the completions complete and the tree apart in time? | 3 inputs, marks on both sides of the slack |
| `grammar_builder` | What can a client rely on after `check()` returned OK, whatever was called before and since? | 2 terminal and 3 nonterminal names, which overlap in two, 5 right hand sides, 2 rules |
| `closures_outgrown` | Do the closures fit the grammar while a parser uses them? | 2 nonterminals, 1 rule |
| `clients` | What is in a grammar after a file was loaded, whatever is wrong with the file, and in a parser after a sequence? | three grammar files with every single edit, every command line of up to 3 arguments, and of 4 over the options and two files, every prefix of two sequences with a word inserted |
| `viterbi_root_child` and the others of section 4 | the findings | 2 inputs |

**Why the bounds are enough.** `cell_chain`: a lookahead cell, the head and
cells both before and after the current one exist at once, every freed address
is reused, and batches fail at each place. The theorems in section 6 then lift
the bounds. `chart_spans`: with three inputs and the end of string a chart has
five cells; the recursive rules give completions that start in the same cell, in
the one before and in the first, states with several derivations, and merges at
each place of the array. `chart_sentences` adds a length at which a
nonterminal's alternatives of different lengths meet. Longer inputs repeat these
situations with larger fractions.

`clients`: the three files of `MCClients` have every construct of the format:
sections in two orders and one section twice, heads and alternatives, brackets
of one word and of three, a comment, a label, a number that is none, a
rule that uses a terminal before it is declared, probabilities that two digits can and cannot
write. An edit leaves a word out, doubles it, replaces it by any of 19 others,
swaps it with the next or breaks the file off there, with and without white space at
its end: a single slip of whoever wrote the file. Together with the command lines over
`--debug` and `--predict` (supported), `--cl` (not built), two files that exist, one that
does not exist yet and one that cannot be opened, and with the sequences in both
forms, that makes 5558 initial states. The command lines of four arguments are those in which
a file has two roles, the grammar that is overwritten or the data that the program prints
into, with an option before or behind. A file that grows is followed to `MaxPrinted` words
(30: by then the program has read and parsed lines of its own words). Most of what matters needs one slip
and what follows it; two slips in one file are only met where a base file
has one of its own.

**What the words may be.** `Spelled` describes words in which `#` and brackets
stand at the ends. A `#` or a `]` inside a word (`a#b`, `[1]x`), and an unclosed
bracket before a number of several digits, do not occur: the
loaders then cut a word in two, which a word that is a value of its own cannot show.

**Scope of the grammars.** The passing runs use grammars without cycles of unit
rules, without two chains of unit rules between the same nonterminals, and
without a unit rule over a nonterminal that may complete later. The grammars
that have these are those of the findings: the properties do *not* hold of them, but for
those that section 6 proves of every grammar.
Two rules with equal sides and empty right hand sides do not occur in a grammar
that the library accepts as it stands (the former's probabilities are stated to add).
Inputs with marks are used for `chart_marks` only: the reference in
`ChartReference` ignores marks, and a filter that removes derivations changes
what the weights mean.

**Fairness.** `FairSpec` is weak fairness on the steps of a call that is
already running. It is justified since the library is sequential and has no lock, wait,
or input of its own: a call that was made is executed. No client is obliged to
make a call. `CallsReturn` and `ParsesEnd` therefore say that loops end, above
all those of `Complete`, whose bound is read anew while the array grows.

`ClientsSpec` is weak fairness on the client's own steps: it is one process, its
files are finite and at hand, and each turn of a loop reads on. `ProgramEnds` says that it
ends, whatever the files and the arguments, with one exception: a program that prints into the
file it reads its inputs from (`FeedsItself`) may find a whole line there for ever. In the model
that is a program that was followed to `MaxPrinted` words, where it stops (`Ended`), and that even
then has a line to read. In the run each turn adds more words than it takes, so what lies
beyond the bound is no different.

**Which properties `clients` checks.**

* `OnlyWhatIsWritten`: at every moment of a load, including those in which it has
  failed half-way, each rule of the grammar stands in the file, under its head,
  with its own symbols and its own probability. The property finds the rule in the file
  by itself, without the reader's variables, and in the file as it stands: with its comments,
  which may hide a head or close a bracket.
* `LoadersAgree`: if C++ and Python both accept a file they make the same grammar
  of it, with four exceptions it names: no white space at the end, an empty
  section, a rule of probability zero, and probabilities that do not add up, which
  Python does not check.
* `RoundTrip`: a grammar that is written and read again comes back, but for the
  digits the format loses.
* `LinesAreWhole`: the three readers of sequences give each terminal the words that
  are its own, and a line that breaks off is not taken for one.
* `ExitCodeTells`: exit codes `0` and `-3` mean what a caller takes them for.
* `LoadedIsAccepted`: a grammar that was loaded passes the check of the parser's
  constructor, whose exception nothing in the program would catch.
* `ReaderTypeOK`, and `DeclaredBeforeUse` of `GrammarBuilder`, here over the calls
  that files lead to.

**Comparison with the program.** The inputs of `clients` were also given to the
code itself: 2772 grammar files and sequences to `Stream.h`, 2679 grammar files and 804
sequences to the Python functions, 3031 invocations to the program (none of which printed into
its own data). Each result is one
that the model has; where the code's own is not determined (an uninitialised
probability, a double deletion) it is one of those the model allows.

**Deadlock** is checked in every run. A destroyed parser or a client that is
done (`Ended`) and a dead process (`Dead`) stutter explicitly.

## 4. Findings

Each is a run with one property, which TLC finds violated. Numbers 1 to 4 and 6 were
reproduced by calling the library.

1. `viterbi_root_child`: `ExpandState` takes the root's `""` terminal for a
   nonterminal and dereferences a child that is not there. An unoptimised build
   happens to survive it.
2. `viterbi_units_dropped`: a unit state is put into the children of its
   successor when it is visited. If a likelier derivation arrives later, the
   children are replaced and the unit state is gone from the tree.
3. `viterbi_units_summed`: `V` is multiplied with `Ru`, which sums over chains of
   unit rules; the likeliest chain would be the maximum.
4. `viterbi_unit_loop`: with `S -> S` a state becomes its own child, and the tree
   is infinite.
5. `parse_rejected`: `ERR_REJECTED` is declared and documented, but nothing
   returns it.
6. `closures_outgrown`: a nonterminal that is added to a grammar while a parser
   uses it is beyond the closures of the last check; `Predict` reads past them.

## 5. Grammar construction

`GrammarBuilder` keeps `axiom`, the tables `T` and `N`, the productions `P` with
the token types that were recorded when each rule was added, the `closures` of
the last successful check, whether a `parser` of this grammar exists, and the
`answer` of the last call. Its actions are the public calls, in any order, the
ones that fail included; `Check` and `NewParser` share `CheckGrammar`, and
`Predict` stands for a `parse()` that uses the closures.

The names of the run clash on purpose: `A` may be declared as a terminal, as a
nonterminal, or as both in either order, and `""`, which `check()` itself declares as a
terminal, may be a nonterminal or the axiom. So the cases the properties are
about happen: rules whose symbols are of another type than they would get now,
checks that fail after they added `""`, and changes between two checks.

The entries of the closures are sums of rule probabilities, in shares of `Full`
(`SumFunction` of the community modules, over the rules that count and zeros).
`ClosuresRight` compares the entries which the code finds by the recorded types
with those that follow from the names alone. The inversion of the matrices is in
`Closures`.

Rules without symbols are in the model, because files lead to them (`S: [1]`): the
documentation of `addRule()` excludes them but the code takes them, and
`ComputeClosures` then reads through the missing first symbol. Such a grammar is not
`Readable`; where a check would otherwise pass it `Dies`, and the call has the
answer `"died"`. Not in the model are the productions and rules
which a failed `AddRule` allocates and never deletes.

Two observations that no run is about: with `""` as a nonterminal,
`check()` returns OK once and an error from then on, because the first call makes
it a terminal as well (`RecheckIsStable` excludes that name, and
`CheckedIsWellFormed` allows it to be of both kinds); and `addAxiom` does not declare the
axiom as a nonterminal, although `src/CFGrammar.h:81` says it does.

### Loading

Observations that no run is about, because nothing in the repository promises
otherwise. The model has each of them, and all but the last were seen in the real program:

* `S: [1]` is taken, and `check()`, at the end of the load, kills the process.
* A rule with an unknown symbol is refused and the load goes on; if the others still
  add up, it returns OK with that rule missing.
* Without white space at the end of the file the last word is lost: a production
  that ends in `[1]` is reported as incomplete.
* In an empty section the header of the next one is taken for its first entries.
* `operator<<` writes the probability 1 as `[ 1]`, which C++ reads, and Python
  does not: there, a bracket that is a word of its own must be closed by one.
* If the output file is the grammar file, it is empty when the grammar is
  read, and the program returns -2.
* An argument that cannot be opened after another was opened kills the process instead of
  returning -1: the streams are deleted twice.
* `parseLine` of Python raises on a line that is a comment, which `loadLine` skips.
* If the output file is the data file, it is emptied first. With `--debug` or `--predict` the
  program then reads what it prints, and since it prints more words for a line
  than a line has (`src/src/SParser.cpp:226`; `src/src/app/parser.cpp:333`, if there are no more than 20
  terminals), it never comes to the end of the file. This follows from the code.

## 6. Theorems

`CellChainProofs` proves about `CellChain`, for every set of cells, every input
alphabet and every bound, from the three assumptions on the constants in
`CellChain` (the head is a cell, NULL is not; known inputs are inputs; the two
internal lines are not):

| Theorem | Statement |
|---|---|
| `TypeCorrect` | `Spec => []TypeOK` |
| `NothingDangles` | `Spec => []NoDangling` |
| `ChainIsAList` | `Spec => []ChainOK` |
| `NothingLeaks` | `Spec => []NoLeak` |
| `ChainImplementsSession` | `Spec => Abstract!Spec`: every behaviour of the chain is one of `Session` |

None of these properties is inductive by itself. `NoDangling`, for one, needs to
know that only the cell taken off the chain is deleted, that nothing earlier has
a reference to it, and that the cell before it is the one that `prev` names. The
inductive invariant `IInv` has four parts:

* `TypeOK`;
* `Locals`: which of the local pointers are in use at which `pc`, and that they
  lead to cells that are alive and off the chain;
* `ListInv`, outside the destroying loop: the head is first (`Ends`), each
  linked cell has the neighbours the links say, with consecutive numbers and
  words that differ by one line (`Neighbours`), numbers are distinct
  (`Distinct`) and no number below the current cell's is missing (`Gapless`), and a
  cell's references go to cells with numbers up to its own;
* `DoomInv`, inside it: the cells not yet deleted are the tail of the list that
  the cursor is at, so that the loop deletes each exactly once.

`IInv` is shown to hold initially, to be preserved by each action in a lemma of
its own, and to imply the four properties; the refinement theorem uses it to map
each step to a step or a stutter of `Session`.

`ChartProofs` proves about `Chart`, for every grammar, all observations with integer marks, every
bound on the inputs, and weights of any kind: nothing is assumed of `Plus`, `Times`,
`Less`, `Rl` or `Ru`. From `GrammarAssumption` (rules have a nonempty right side, the axiom is
a nonterminal, no symbol is of both kinds, `""` is neither), `ObservationsAssumption` and
`MaxParseAssumption`:

| Theorem | Statement |
|---|---|
| `TypeCorrect` | `Spec => []TypeOK` |
| `OneStatePerItem` | `Spec => []NoDuplicates` |
| `ScanNeverGivesUp` | `Spec => []NeverLost` |
| `CellsAreSorted` | `Spec => []CellOrder` |
| `UsedWeightsAreFinal` | `Spec => Settled` |
| `SlackIsKept` | `Spec => []ApartInTime` |
| `CompletionsAreDone` | `Spec => []Saturated` |
| `ChildrenExist` | `Spec => []ChildrenAreThere` |
| `ChildrenAreAParse` | `Spec => []ChildrenSpan`, if `UnitsApart` |
| `ChildrenAreNamed` | `Spec => []ChildrenMatch`, if `Unitless` |

The runs look at three grammars, and these theorems say that what they find of the *items* of
a chart, its order, its loops and its filter does not depend on the grammar. The
inductive invariant `IInv` has five parts:

* `Typed`: states, cells and lines have their fields. Weights are of *some* set, which grows with the
  steps: the arithmetic is abstract, and no set is known to be closed under it.
* `ChainInv`: in each cell (`CellInv`) a state's label and start are what its item tells
  (`Shaped`), a state behind a nonterminal was completed by a finished state of its cell from
  a parent that fits and passes the filter (`Justified`), no item occurs twice
  (`Distinct`), and the order is kept (`Sorted`). While `Complete` runs, everything before
  the cursor is done (`Done`) and nothing is predicted yet; in earlier cells, and
  once it is over, all is (`AllDone`).
* `LineOK`: the tokens of the line being scanned have distinct names, of no nonterminal.
* `ScanInv`: each state of Scan's new cell comes from a turn of its loops that is over
  (`ScannedFrom`), so that the next turn's item is new.
* `Control`: where the call is, and in which ranges its loop variables are.

None of them is inductive. `NoDuplicates` needs `ScanInv`, which needs `LineOK`, which
`parse()` and `getPrediction()` have to establish; `Saturated` is a statement about
a loop that has ended, and `Done` is the one about a loop that is running. `Done` survives an
insertion because a new state is put behind the cursor, and that follows from `Sorted` and from
`Shaped`: nothing but a prediction or the root starts in its own cell, so that what a
completion adds starts no later than what it came from. The same argument is what makes
`UsedWeightsAreFinal` true: weights that were multiplied into parents are final.

*The children.* A second invariant, `TreeInv`, stands on `IInv` and says of each state of the chain,
and of Scan's new cell, what its children are (`TreeOf`):

* `HasKids`, in every grammar: it is of a rule or of the root, it has one child for each nonterminal
  before its dot, and each child is a finished state that is there;
* `SpansTo`, in a grammar that keeps units apart: each child starts where the symbols before it end
  (`Placed`), n symbols are at least n inputs long, and the last symbol ends in the state's cell.

A scanned state has the children of the state before the token (`TreeScanned`), a completed one has
the child in addition (`TreeCompleted`), and children stay there because cells grow and are only
taken off at the end (`TreesGrow`, `TreeShrinks`). The hard case is a state that is found again
(`TreeMerged`): its children are those of one derivation or of the other, or a unit
state has taken the place of the child that is under it. The number of the children and that they are
there does not depend on *which* child `AddState` finds for that, and so `ChildrenExist` holds of every grammar,
those of the findings included: in the cycle of unit rules the children are there and
are the state itself.

That they are a parse does depend on it. When a completion is found again and its child is a unit
state, `AddState` (`src/SCell.cpp:544`) looks among the children for the unit state's own child and
puts the unit state in its place. It compares K, dot and production, and not the cell
in which the child ends. With `S -> A Y X`, `A -> a [0.25] | a a [0.75]`,
`X -> Y`, `Y -> W b | b`, `W -> a [0.75] | a a a [0.25]` and six inputs of which each may be
`a` or `b`, the state `S -> A Y X .` of the last cell has the children `A` from 0 to 2, `X`
from 2 to 6 and `X` from 4 to 6: the second one is in the place of the `Y` that starts in 2 as
well and ends in 4. It takes a rule of three nonterminals, of which the third is reached by a unit
rule over what the second may be: where no nonterminal is in front, two nonterminals of a rule
start in different cells, and K tells them apart. `UnitsApart`
excludes just such rules, and `UnderIsLast` shows that it is enough: the child that is found is
then the last one, whose end is the cell being filled. `ChildrenMatch` asks that
the children have the very names of the rule, which is the same thing if there is no unit rule and
`Ru` is the identity (`Unitless`); with unit rules finding 2 refutes it in general, and the run shows it of a
grammar in which no unit state is dropped. `MCChart` evaluates `UnitsApart`
for the grammars of all runs, and `Unitless` for that of `chart_marks`.

`GrammarBuilderProofs` proves about `GrammarBuilder`, for every set of names,
right hand sides and probabilities, from `NamesAssumption` (right hand sides are
sequences of names) and `SharesAssumption` (probabilities are natural numbers):

| Theorem | Statement |
|---|---|
| `TypeCorrect` | `Spec => []TypeOK` |
| `RulesAreDeclared` | `Spec => []DeclaredBeforeUse` |
| `ChecksAreRight` | `Spec => []CheckedIsWellFormed` |
| `ChecksAreStable` | `Spec => RecheckIsStable` |
| `FailuresAreAtomic` | `Spec => FailureChangesNothing` |
| `ClosuresAreRight` | `Spec => []ClosuresRight` |

The inductive invariant is `TypeOK /\ DeclaredBeforeUse /\ Checked /\ OneOfEachName`. `Checked`
says what a successful check leaves behind: the grammar is well formed but for
`""`, its probabilities add up, no rule lacks symbols, `""` is a terminal, and the closures are those of the
present nonterminals and productions. It is stronger than `CheckedIsWellFormed`:
that the closures are those of `N` and `P` is what `RecheckIsStable` needs, and
that each nonterminal has just one production (`DeclaredBeforeUse`) makes the sum over
a production the sum over the rules which `getRules()` lists.

*The closures.* The code goes through all rules of all productions and adds the probability of
each to the cell of the nonterminal whose name and type its first symbol has;
`ClosuresRight` compares that with the rules that are listed for the row's name and
begin with the column's. Only one production is of the row's nonterminal, so that a sum over all
productions has one term that is not zero (`SumOfOneTerm` of `SumLemmas`); and a
symbol with a nonterminal's name was recorded as a nonterminal, because in a checked grammar no
name but `""` is both. That each row and column has a name of its own is
`OneOfEachName`: no name is twice in `N`. The sums are the `SumFunction` of the community
modules, which is defined by recursion over a finite set; `SumLemmas` shows that
its equations have a solution for every set and what they say of a natural-valued
function, by induction on the size of the set in the form of a least counterexample
(`LeastElement`), since the library's induction theorems cannot be used here.

`GrammarFileProofs`, `SequenceFileProofs` and `ClientsProofs` prove about the loader of `Stream.cpp`,
the program and the other clients, for every file, every spelling of its words
and every set of command lines, from `FileAssumption` (the words of a file may name
symbols and none is `""`; what a bracket holds is a probability),
`InvocationsAssumption` (what a client is given are arguments and files) and
`PrintingAssumption` (what `operator<<` writes, of the probabilities that a grammar may have, are words),
`PrintingOptions` and `ProseAssumption` (the two options are accepted, and what is printed into the data is
read as a word),
besides the two above:

| Theorem | Statement |
|---|---|
| `NothingIsUncaught` | `ClientsSpec => []LoadedIsAccepted` |
| `LoadedIsDeclared` | `ClientsSpec => [](InCpp => DeclaredBeforeUse)` |
| `ReaderStaysInFile` | `ClientsSpec => [](InCpp => ReaderTypeOK)` |
| `RulesAreWritten` | `ClientsSpec => []OnlyWhatIsWritten` |
| `ExitCodesTell` | `ClientsSpec => [](~FeedsItself => ExitCodeTells)` |
| `LinesAreTheirs` | `ClientsSpec => [](invocation.client # "python" /\ ~FeedsItself => LinesAreWhole)` |

`InCpp` is all but the Python package, whose functions make their calls from words that folds have
put together; what they leave is model-checked.

*The reader.* `NextWord`, `Closing` and `Number` choose the first place with
some quality; `LeastElement`, which follows from the well-foundedness of `<`,
gives that there is one, and so that the reader goes forward and stays in its
stream. `ReaderInv` is the invariant `IInv` of `GrammarBuilderProofs`, `ReaderTypeOK`,
`Accepted` (a load that ended with OK has just checked the grammar), a
typed file, and that `""` is no nonterminal. Each `LoadStep` preserves it: those that make
a call by the lemma about that call. `NamesInv` says besides that the grammar's names are words, so
that `DumpGrammar` writes words again (`GrammarIsPrinted`, with `FlattenType` for the community modules' fold
over a sequence of sequences, whose recursion has a solution by a least counterexample, too) and the second load
reads a stream like any other.

*What is written.* `OnlyWhatIsWritten` speaks of the rules that are in the grammar; for it to be preserved one has
to know where the rule that is being read stands. `WrittenInv` adds that (`Pending`): there are a head `h` and an
alternative `i` behind it, with no other head between, such that `rhs` is the words the reader
would return behind `i`, and, once a probability was read, that it stands in a bracket behind
them. A word that opens a bracket is no symbol, and heads that a bracket swallows are none
(`Bracketed`). The property looks for the words in the file with its comments and
not without them, since a comment may close a bracket.

*The second check.* `LoadedIsAccepted` is not inductive: that the constructor's check passes
needs to be known of the grammar `loadGrammar` left. `LoadedPasses` shows that it is, from
`Accepted` and `Checked`: between the two checks nothing changed, and the first one
has changed only that `""` is a terminal. That would make the second fail
if `""` were a nonterminal too (see section 5), which no word of a file can bring about.
`ClientsInv` carries this through the program, with `StreamsInv` (the grammar's
stream is a file of the disk, and nothing is read while the options are) and
`StagesInv` (only the program constructs a parser in C++, after a load with OK).

*The sequence.* `SequenceFileProofs` has the lemmas about `loadLine`, for every stream and
every list of terminals. `Ascending` numbers the places of a stream's words
(`AscendingEntries`); behind the m-th word are the same words but for m (`PlacesLeft`);
hence one call takes the next words of the stream, as many as the line needs, or comes to
the end of it with fewer left (`LineRead`). `ReadSoFar` says of some place of the data that the lines
that were read are made of the words before it, one after the other, and that the words behind
it are those that are left; a call that returns OK keeps it (`OneMoreRead`).

`SequenceInv` carries `ReadSoFar` through the clients (`ReadInv`), up to the place where the
stream is, and once the client has ended, up to some place at which its exit
tells what is left: nothing for `0` and `OK`, less than a line and more than nothing for `-3`. That
`-3` is not also the answer to a file that is read to its end needs the first terminal of
the program's grammar to have a name (`TerminalsInv`), because `loadLine` takes a file for ended
only if it fails at the first terminal it looks at, and `""` is one that it skips. `StartsInv` has what
was there when reading began: an accepted grammar, a parser, terminals, nothing read. Both
theorems then compare `ReadSoFar` with what the properties say of the words by their numbers.
A program whose data grows under it (`FeedsItself`) is not among the `Reads` that `ReadInv` speaks of, and of
its data only that it stays a stream is known (`PrintsInv`). Both theorems leave it out, and the run does
not: TLC checks the two properties there, up to the bound.

**Only model-checked:**

* all that `ChartReference` states: its definitions are recursive operators, which the prover does not
  support, and what a recursion returns for every input needs an induction theorem it
  cannot use;
* `ChildrenMatch` of `Chart` in a grammar with unit rules: it does not hold of every one;
* liveness: `CallsReturn`, `ParsesEnd` and `ProgramEnds`;
* of `Clients`, `LoadersAgree` and `RoundTrip`, which compare what two readers with different algorithms make of
  every file, and so what folds over all its words return; and `DeclaredBeforeUse`, `ReaderTypeOK` and `LinesAreWhole` for Python, which
  are about sequences that filters and folds have built;
* that the closures of `MCChart` are the inverses that `MakeR` computes.

## 7. What is not modelled, and why

* The rounding of doubles, and the scaled probabilities of `ParseProbability`.
* Partial parsing: no public call can turn it on.
* Printing, of cells, results and trees, and the Boost.Python declarations with
  the conversions of `parse()`: no state, but for a program that reads what it prints, of
  which `CommandLine` has the number of the words.
* The OpenCL parser that `--cl` asks for is not in the repository; builds without
  it refuse the option, and so does the model.
* Assignment of a `ParseTree` (`src/SParserUtils.cpp:114` deletes its own children
  before it copies the other's, which is wrong if one contains the other)
  and `==` of two rules (`src/CFGrammar.cpp:51` compares a field with itself):
  nothing in the library uses them that way.
* `Generate.cpp` includes a header which the repository does not have.

## 8. Plan

Done: `Session`, `CellChain` and its proofs; `Chart`, `ChartReference`, `Closures`, and the proofs
about `Chart`, its items and its children; `GrammarBuilder` and its proofs, the entries of the closures among them;
the loaders, the program and the Python package in `Clients`, and the proofs about all loads in C++ and
the sequence.
Left, in this order:

1. The singular case of `MakeR`: a grammar that passes `check()` and whose
   closures do not exist.
2. `ChildrenMatch` for a grammar with unit rules: a condition under which no likelier derivation
   completes after the unit state over it, and its proof from `TreeInv`.
3. What the functions of the Python package leave in a grammar, for every file.
