---------------------------- MODULE SequenceFile ----------------------------
(***************************************************************************)
(* Stream::loadLine: a line of input is as many words as the grammar's     *)
(* terminals need, wherever the lines of the file end.                     *)
(***************************************************************************)
EXTENDS WordStream

\* toDouble: 0 for what is no number
Value(word) == IF Spelled[word].kind = "number" /\ ~Is(word, "[")
                 THEN Spelled[word].share ELSE 0

\* One terminal, read from its words: a probability, and in the long form the high
\* mark and the length
Observed(name, words) ==
  [terminal |-> name, probability |-> Value(words[1]),
   highMark |-> IF Len(words) = 1 THEN 0 ELSE Value(words[2]),
   lowMark |-> IF Len(words) = 1 THEN 0 ELSE Value(words[2]) - Value(words[3])]

\* loadLine from the place at, for terminals of which one may have the name "";
\* the place it comes to, and what it put into the caller's line, even if it fails.
LoadLine(stream, at, terminals, nameless, simple) ==
  LET names == Entries(terminals, {i \in DOMAIN terminals : terminals[i] # nameless})
      size == IF simple THEN 1 ELSE 3
      left == Places(stream, at)
      whole == Len(left) >= size * Len(names)
      count == IF whole THEN Len(names) ELSE Len(left) \div size
  IN [status |-> IF whole THEN "OK"
                 ELSE IF left = <<>> /\ terminals[1] # nameless THEN "ERR_EOF"
                 ELSE "ERR_READINGFILE",
      at |-> IF ~whole THEN Len(stream.words)
             ELSE IF names = <<>> THEN at ELSE left[size * count],
      line |-> [j \in 1..count |->
                  Observed(names[j], [k \in 1..size |-> stream.words[left[size * (j - 1) + k]]])]]

\* A line of the stream, as Python reads it, and where it ends
LineEnd(stream, at) ==
  CHOOSE i \in at + 1 .. Len(stream.words) :
    /\ i = Len(stream.words) \/ stream.words[i] = NewLine \/ Is(stream.words[i], "#")
    /\ \A j \in at + 1 .. i - 1 : stream.words[j] # NewLine /\ ~Is(stream.words[j], "#")
LineAt(stream, at) ==
  SelectSeq(SubSeq(stream.words, at + 1, LineEnd(stream, at)), LAMBDA w : w # NewLine)
=============================================================================
