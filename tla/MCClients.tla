------------------------------ MODULE MCClients ------------------------------
(***************************************************************************)
(* Clients with three grammar files and every single edit of them: a word  *)
(* is left out, doubled, replaced by any other word or exchanged with the  *)
(* next, or the file breaks off, with or without white space at its end.   *)
(***************************************************************************)
EXTENDS Clients

\* A word the files are made of, and the same with a colon: first and last character,
\* word without its last character, kind and share (see WordStream).  Shares are
\* thousandths.
Spelling(w, first, last, kind, amount) ==
     (w :> [first |-> first, last |-> last, stem |-> w, kind |-> kind, share |-> amount])
  @@ ((w \o ":") :> [first |-> first, last |-> ":", stem |-> w, kind |-> kind,
                         share |-> amount])
Symbol(w) == Spelling(w, "a", "a", "text", 0)
Spellings ==
     Symbol("Section") @@ Symbol("Terminals") @@ Symbol("NonTerminals") @@ Symbol("Axiom")
  @@ Symbol("Productions") @@ Symbol("a") @@ Symbol("b") @@ Symbol("l") @@ Symbol("S")
  @@ Symbol("A")
  @@ Spelling("[", "[", "[", "blank", 0)
  @@ Spelling("]", "]", "]", "blank", 0)
  @@ Spelling("[]", "[", "]", "blank", 0)
  @@ Spelling("1", "1", "1", "number", 1000)
  @@ Spelling("2", "2", "2", "number", 2000)
  @@ Spelling("3", "3", "3", "number", 3000)
  @@ Spelling("1]", "1", "]", "number", 1000)
  @@ Spelling("0]", "0", "]", "number", 0)
  @@ Spelling("[1", "[", "1", "number", 1000)
  @@ Spelling("[1]", "[", "]", "number", 1000)
  @@ Spelling("[0.5]", "[", "]", "number", 500)
  @@ Spelling("[0.12]", "[", "]", "number", 120)
  @@ Spelling("[0.125]", "[", "]", "number", 125)
  @@ Spelling("[0.75]", "[", "]", "number", 750)
  @@ Spelling("[0.88]", "[", "]", "number", 880)
  @@ Spelling("[0.875]", "[", "]", "number", 875)
  @@ Spelling("[x]", "[", "]", "text", 0)
  @@ Spelling("|", "|", "|", "text", 0)
  @@ Spelling("<l>", "<", ">", "text", 0)
  @@ Spelling("<l", "<", "l", "text", 0)
  @@ Spelling("#", "#", "#", "text", 0) @@ Spelling(NewLine, NewLine, NewLine, "blank", 0)
Headed == [w \in {w \in DOMAIN Spellings : Spellings[w].last # ":"} |-> w \o ":"]
MCWords == DOMAIN Spellings
MCNames == MCWords \cup {""}
MCShares == {0, 120, 125, 500, 750, 875, 880, 1000, 2000, 3000}

\* operator<< of a probability, with setw(2) and setprecision(2)
PrintedAs == [p \in {p \in MCShares : p <= 1000} |->
  CASE p = 1000 -> <<"[", "1]">>
    [] p = 0    -> <<"[", "0]">>
    [] p \in {120, 125} -> <<"[0.12]">>
    [] p = 500  -> <<"[0.5]">>
    [] p = 750  -> <<"[0.75]">>
    [] p \in {875, 880} -> <<"[0.88]">>]
MCSpelled == Spellings
MCHeads == Headed
MCPrinted == PrintedAs

-----------------------------------------------------------------------------
(* The files *)

\* Two nonterminals with alternatives
Usual == <<"Section", "Terminals", "a", "b", "Section", "NonTerminals", "S", "A",
           "Section", "Axiom", "S", "Section", "Productions",
           "S:", "a", "A", "[1]", "A:", "b", "[0.5]", "|", "a", "[0.5]">>

\* Brackets of their own, a comment, and probabilities that do not add up any more
\* when they are written with two digits
Spaced == <<"Section", "Axiom", "S", "Section", "NonTerminals", "S", "A", "#",
            "Section", "Terminals", "a", "b", "Section", "Productions",
            "S:", "a", "A", "[", "1", "]",
            "A:", "b", "[0.125]", "|", "a", "[0.125]", "|", "b", "a", "[0.75]">>

\* A rule that uses a terminal before it is declared, and a label
Early == <<"Section", "Terminals", "a", "Section", "NonTerminals", "S",
           "Section", "Productions", "S:", "a", "[0.125]", "|", "a", "a", "[0.875]",
           "<l", "l", "<l>", "|", "b", "[x]",
           "Section", "Axiom", "S", "Section", "Terminals", "b">>

\* For the sequences
Short == <<"Section", "Terminals", "a", "b", "Section", "NonTerminals", "S",
           "Section", "Axiom", "S", "Section", "Productions", "S:", "a", "b", "[1]">>

Base == {Usual, Spaced, Early}
Replacements == {"Section", "Terminals", "Productions", "a", "S", "S:", "A:", "[", "]", "[]",
                 "1", "[1", "[1]", "[0.5]", "[x]", "|", "<l>", "<l", "#"}

Without(f, i) == SubSeq(f, 1, i - 1) \o SubSeq(f, i + 1, Len(f))
Edits(f) ==
  {Without(f, i) : i \in DOMAIN f}
  \cup {[f EXCEPT ![i] = w] : i \in DOMAIN f, w \in Replacements}
  \cup {[f EXCEPT ![i] = f[i + 1], ![i + 1] = f[i]] : i \in 1..Len(f) - 1}
  \cup {SubSeq(f, 1, i) \o SubSeq(f, i, Len(f)) : i \in DOMAIN f}
Files ==
  [words : Base \cup UNION {Edits(f) : f \in Base}, ended : {TRUE}]
  \cup [words : UNION {{SubSeq(f, 1, i) : i \in 0..Len(f)} : f \in Base}, ended : BOOLEAN]

-----------------------------------------------------------------------------
(* The invocations *)

Data(words, ended) == [words |-> words, ended |-> ended]
TwoLines == Data(<<"1", "1", NewLine, "1", NewLine, "1", "1", "1", "1", "1">>, TRUE)

\* Two lines of the long form or six of the short one, broken off anywhere, with a
\* comment, the end of a line or a word that is no number anywhere
Numbers == <<"1", "2", "3", "3", "1", "2", NewLine, "2", "3", "1", "1", "2", "2">>
Pairs == <<"1", "2", NewLine, "3", "3", NewLine, "1", "2", NewLine>>
Sequences ==
  [words : UNION {{SubSeq(f, 1, i) : i \in 0..Len(f)} :
                    f \in {InsertAt(g, i, w) : g \in {Numbers, Pairs}, i \in {1, 4, 6, 7},
                                               w \in {"#", "a", NewLine}}},
   ended : BOOLEAN]

\* "out" does not exist yet, and "nowhere" cannot be opened at all.
Arguments == {"--debug", "--predict", "--cl", "grammar", "data", "out", "nowhere"}
CommandLines == UNION {[1..n -> Arguments] : n \in 0..3}
                \cup [1..4 -> {"--debug", "--predict", "grammar", "data"}]
Disk(grammar, data) == ("grammar" :> grammar) @@ ("data" :> data)

MCInvocations ==
  [client : {"program", "library"}, args : {<<"grammar", "data">>},
   disk : {Disk(grammar, TwoLines) : grammar \in Files}, input : {TwoLines}, simple : {TRUE}]
  \cup
  [client : {"program"}, args : CommandLines,
   disk : {Disk(Data(Usual, TRUE), TwoLines)}, input : {Blank}, simple : {TRUE}]
  \cup
  [client : {"program"}, args : {<<"grammar">>}, disk : {Disk(Data(Short, TRUE), Blank)},
   input : Sequences, simple : {TRUE}]
  \cup
  [client : {"library"}, args : {<<>>}, disk : {Disk(Data(Short, TRUE), Blank)},
   input : Sequences, simple : BOOLEAN]
=============================================================================
