----------------------------- MODULE MCCellChain -----------------------------
(* CellChain on a small heap, with the definitions its .cfg needs. *)
EXTENDS CellChainProofs

\* As many cells as the head, MaxLength inputs and a lookahead need: a freed
\* address is used again soon.
CONSTANTS head, c1, c2, c3, c4, a, b, unknown
MCCell == {head, c1, c2, c3, c4}
MCInput == {a, b, unknown}
MCKnown == {a, b}
=============================================================================
