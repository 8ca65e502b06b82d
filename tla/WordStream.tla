----------------------------- MODULE WordStream -----------------------------
(***************************************************************************)
(* What the loaders of Stream.cpp read: an istream, as the words between   *)
(* its white space.  Of a word's spelling the loaders look at the first    *)
(* and the last character, at the word without its colon, and at the       *)
(* number it holds between its brackets, if any.                           *)
(***************************************************************************)
EXTENDS Integers, Sequences, SequencesExt

CONSTANTS
  Words,     \* the words that occur
  Spelled    \* how each is spelled: [first, last, stem, kind, share]

\* kind is what the loaders find between the brackets of a word: nothing, a
\* number, of value share, or something else.
Kinds == {"blank", "number", "text"}

\* A stream is [words, ended]: a comment and the end of its line count as one word that
\* begins with #, the end of another line as the word NewLine where lines matter, and
\* ended tells whether white space follows the last word.
NewLine == "\n"
Streams == [words : Seq(Words), ended : BOOLEAN]
Blank == [words |-> <<>>, ended |-> FALSE]

Is(word, c) == Spelled[word].first = c
Closes(word, c) == Spelled[word].last = c

\* Whether readNextWord may return the word at i: the extraction that meets the end of
\* the stream sets eof, even if it got a word.
MayReturn(stream, i) ==
  /\ ~Is(stream.words[i], "#") /\ stream.words[i] # NewLine
  /\ i = Len(stream.words) => stream.ended

\* Where the word is that readNextWord returns; 0 for ERR_EOF
NextWord(stream, at) ==
  IF ~\E i \in at + 1 .. Len(stream.words) : MayReturn(stream, i) THEN 0
  ELSE CHOOSE i \in at + 1 .. Len(stream.words) :
         /\ MayReturn(stream, i)
         /\ \A j \in at + 1 .. i - 1 : ~MayReturn(stream, j)

\* Where loadDelimited stops when it is called with the word at i: the first
\* word from there that closes with c, be it the last of the stream or in a
\* comment; 0 when getline meets the end.
Closing(stream, i, c) ==
  IF ~\E j \in i..Len(stream.words) : Closes(stream.words[j], c) THEN 0
  ELSE CHOOSE j \in i..Len(stream.words) :
         Closes(stream.words[j], c) /\ \A k \in i..j - 1 : ~Closes(stream.words[k], c)

\* The numbers of a finite set in order, and the entries of a sequence at these places
Ascending(S) ==
  [k \in 1..Cardinality(S) |-> CHOOSE i \in S : Cardinality({j \in S : j <= i}) = k]
Entries(s, S) == LET places == Ascending(S) IN [k \in DOMAIN places |-> s[places[k]]]

\* The places of the words that are left
Places(stream, at) ==
  Ascending({i \in at + 1 .. Len(stream.words) : MayReturn(stream, i)})
WordsLeft(stream, at) ==
  LET places == Places(stream, at) IN [k \in DOMAIN places |-> stream.words[places[k]]]

\* What operator>> makes of the words between the brackets that open at i and
\* close at j, where the variable holds old: a number only if the text begins
\* with one, 0 for anything else, and old if there is only white space.
Number(stream, i, j, old) ==
  LET filled == {k \in i..j : \/ Spelled[stream.words[k]].kind # "blank"
                              \/ (k > i /\ Is(stream.words[k], "["))}
      k == CHOOSE f \in filled : \A g \in filled : f <= g
      word == stream.words[k]
  IN IF filled = {} THEN old
     ELSE IF Spelled[word].kind = "number" /\ (k = i \/ ~Is(word, "["))
       THEN Spelled[word].share ELSE 0
=============================================================================
