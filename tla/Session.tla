------------------------------- MODULE Session -------------------------------
(***************************************************************************)
(* What a client of SParser may rely on, without cells, pointers or        *)
(* charts: a parser is the sequence of inputs it has accepted since the    *)
(* last reset, and every answer it gives is a function of that sequence.   *)
(* CellChain, where an answer is computed by pushing a lookahead cell onto *)
(* the chain and taking it off again, implements this specification.       *)
(***************************************************************************)
EXTENDS Sequences

CONSTANTS
  Known,       \* the inputs all of whose terminals the grammar declares
  Query,       \* the questions a client may ask
  NoAnswer     \* nothing has been asked yet

VARIABLES
  history,     \* the inputs accepted since the last reset, oldest first
  answer       \* the last question asked, and the history it was answered for

svars == <<history, answer>>

Answers == [query : Query, of : Seq(Known)]

TypeOK == /\ history \in Seq(Known)
          /\ answer \in Answers \cup {NoAnswer}

Init == /\ history = <<>>
        /\ answer = NoAnswer

\* One accepted input.  Inputs with an unknown terminal change nothing.
Accept(in) == /\ history' = Append(history, in)
              /\ UNCHANGED answer

\* A question: it is answered for the present history, which it leaves alone.
Ask(q) == /\ answer' = [query |-> q, of |-> history]
          /\ UNCHANGED history

\* reset(), and the end of the parser.
Forget == /\ history' = <<>>
          /\ UNCHANGED answer

Next == \/ \E in \in Known : Accept(in)
        \/ \E q \in Query : Ask(q)
        \/ Forget

Spec == Init /\ [][Next]_svars
=============================================================================
