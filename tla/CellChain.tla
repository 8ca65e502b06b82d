------------------------------ MODULE CellChain ------------------------------
(***************************************************************************)
(* The chain of cells an SParser owns, at the level of its pointers: the   *)
(* embedded cellHead_, one heap-allocated SCell per parsed input, the      *)
(* NextCell and PrevCell links, and currentCell_.  What a cell holds is    *)
(* abstracted to the word of inputs it was built from and to the cells its *)
(* states' children point into; Chart models the states themselves.        *)
(*                                                                         *)
(* A call of the API runs to completion before the next one starts; pc     *)
(* says where in the running call the code is.  destroyCells is a loop     *)
(* that several calls share: ret says where it returns to.                 *)
(***************************************************************************)
EXTENDS Integers, Sequences

CONSTANTS
  Cell,        \* addresses of SCell objects
  HeadCell,    \* the address of the embedded SParser::Impl::cellHead_
  Null,
  Input,       \* what one step of parse() may be given
  Known,       \* the inputs all of whose terminals the grammar declares
  EndOfString, \* the line ParseFinal builds, holding only the "" terminal
  Predicted,   \* the line getPredictedLine builds from the current cell
  MaxLength,   \* bound: inputs parsed since the last reset
  MaxBatch     \* bound: inputs handed to one parse(PInputs)

ASSUME CellAssumption == HeadCell \in Cell /\ Null \notin Cell
ASSUME InputAssumption ==
  /\ Known \subseteq Input
  /\ EndOfString \notin Input /\ Predicted \notin Input
ASSUME BoundAssumption == MaxLength \in Nat /\ MaxBatch \in Nat

Queries == {"prediction", "viterbi", "maxAlpha"}
NoAnswer == [query |-> "none", of |-> <<>>]
Tokens == Known \cup {EndOfString, Predicted}

VARIABLES
  heap,        \* the cells that are alive
  next, prev,  \* NextCell and PrevCell
  index,       \* I
  word,        \* the lines a cell was scanned from, oldest first
  refs,        \* the cells whose states the children of a cell's states are in
  cur,         \* currentCell_
  pc,          \* where the running call is
  purpose,     \* the call that ParseLine runs for
  todo,        \* the inputs parse(PInputs) has not reached yet
  line,        \* ParseLine's argument
  fresh,       \* Scan's pCell, until it is linked
  limbo,       \* the cell backtrack() took off the chain
  doomed,      \* destroyCells' cursor
  ret,         \* where destroyCells returns to
  answer       \* the last answer: the query, and the word it was computed from

chain == <<heap, next, prev, index, word, refs>>
call  == <<purpose, todo, line, fresh, limbo, doomed, ret>>
vars  == <<chain, cur, pc, call, answer>>

Links == Cell \cup {Null}

TypeOK ==
  /\ heap \subseteq Cell
  /\ next \in [Cell -> Links] /\ prev \in [Cell -> Links]
  /\ index \in [Cell -> Nat]
  /\ word \in [Cell -> Seq(Tokens)]
  /\ refs \in [Cell -> SUBSET Cell]
  /\ cur \in Cell
  /\ pc \in {"idle", "batch", "scan", "link", "fill", "read", "backtrack",
             "discard", "destroy", "ended"}
  /\ purpose \in {"parse", "prediction", "viterbi"}
  /\ todo \in Seq(Input)
  /\ line \in Tokens
  /\ fresh \in Links /\ limbo \in Links /\ doomed \in Links
  /\ ret \in {"idle", "link", "ended"}
  /\ answer \in [query : Queries \cup {"none"}, of : Seq(Tokens)]

Init ==
  /\ heap = {HeadCell}
  /\ next = [c \in Cell |-> Null] /\ prev = [c \in Cell |-> Null]
  /\ index = [c \in Cell |-> 0]
  /\ word = [c \in Cell |-> <<>>]
  /\ refs = [c \in Cell |-> {}]
  /\ cur = HeadCell /\ pc = "idle"
  /\ purpose = "parse" /\ todo = <<>> /\ line = EndOfString
  /\ fresh = Null /\ limbo = Null /\ doomed = Null /\ ret = "idle"
  /\ answer = NoAnswer

\* delete c.  A freed cell holds nothing any more; NoDangling says that nothing
\* reads one.
Free(c) ==
  /\ heap' = heap \ {c}
  /\ next' = [next EXCEPT ![c] = Null] /\ prev' = [prev EXCEPT ![c] = Null]
  /\ index' = [index EXCEPT ![c] = 0] /\ word' = [word EXCEPT ![c] = <<>>]
  /\ refs' = [refs EXCEPT ![c] = {}]

\* The running call returns; its variables go out of scope.
Return ==
  /\ pc' = "idle"
  /\ purpose' = "parse" /\ todo' = <<>> /\ line' = EndOfString /\ ret' = "idle"

-----------------------------------------------------------------------------
(* SParser::parse *)

\* parse(PInputs) is called, or parse(PInput) with the one input of <<in>>.
Parse(inputs) ==
  /\ pc = "idle"
  /\ index[cur] + Len(inputs) <= MaxLength
  /\ pc' = "batch" /\ todo' = inputs /\ purpose' = "parse"
  /\ UNCHANGED <<chain, cur, line, fresh, limbo, doomed, ret, answer>>

\* The loop of parse(PInputs): an unknown terminal ends it with ERR_NOTFOUND,
\* and what was parsed before it stays parsed.
NextInput ==
  /\ pc = "batch"
  /\ IF todo # <<>> /\ Head(todo) \in Known
       THEN /\ pc' = "scan" /\ line' = Head(todo) /\ todo' = Tail(todo)
            /\ UNCHANGED <<purpose, ret>>
       ELSE Return
  /\ UNCHANGED <<chain, cur, fresh, limbo, doomed, answer>>

-----------------------------------------------------------------------------
(* Impl::ParseLine.  SCell::Scan fails only on a duplicate state, which       *)
(* Chart shows never happens, so the branch that loses currentCell_ is there. *)

\* The first half of SCell::Scan: a new cell whose states are copied, with
\* their children, from those of the current one.
Scan ==
  /\ pc = "scan"
  /\ \E c \in Cell \ heap :
       /\ heap' = heap \cup {c} /\ fresh' = c
       /\ next' = [next EXCEPT ![c] = Null]
       /\ prev' = [prev EXCEPT ![c] = Null]
       /\ index' = [index EXCEPT ![c] = index[cur] + 1]
       /\ word' = [word EXCEPT ![c] = Append(word[cur], line)]
       /\ refs' = [refs EXCEPT ![c] = refs[cur]]
  /\ pc' = "link"
  /\ UNCHANGED <<cur, purpose, todo, line, limbo, doomed, ret, answer>>

\* A faulty Link, which forgets setPrev.
LinkOneWay ==
  /\ pc = "link"
  /\ next' = [next EXCEPT ![cur] = fresh]
  /\ cur' = fresh /\ fresh' = Null /\ pc' = "fill"
  /\ UNCHANGED <<heap, prev, index, word, refs, purpose, todo, line, limbo,
                 doomed, ret, answer>>

\* CellUtils::setNext and setPrev at the end of SCell::Scan: cells that still
\* follow the current one are destroyed first.
Link ==
  /\ pc = "link"
  /\ IF next[cur] # Null
       THEN /\ doomed' = next[cur] /\ next' = [next EXCEPT ![cur] = Null]
            /\ pc' = "destroy" /\ ret' = "link"
            /\ UNCHANGED <<prev, cur, fresh>>
       ELSE /\ next' = [next EXCEPT ![cur] = fresh]
            /\ prev' = [prev EXCEPT ![fresh] = cur]
            /\ cur' = fresh /\ fresh' = Null
            /\ pc' = "fill" /\ UNCHANGED <<doomed, ret>>
  /\ UNCHANGED <<heap, index, word, refs, purpose, todo, line, limbo, answer>>

\* A faulty Fill: getViterbiParse keeps the cell of the final symbol.
FillAndStay ==
  /\ pc = "fill"
  /\ refs' = [refs EXCEPT ![cur] = refs[cur] \cup refs[prev[cur]] \cup {cur}]
  /\ pc' = IF purpose = "prediction" THEN "read" ELSE "batch"
  /\ UNCHANGED <<heap, next, prev, index, word, cur, call, answer>>

\* SCell::Complete and Predict.  A completed state gets a child of this cell
\* after the children of a state of an earlier one.
Fill ==
  /\ pc = "fill"
  /\ refs' = [refs EXCEPT ![cur] = refs[cur] \cup refs[prev[cur]] \cup {cur}]
  /\ pc' = CASE purpose = "parse" -> "batch"
             [] purpose = "prediction" -> "read"
             [] purpose = "viterbi" -> "backtrack"
  /\ UNCHANGED <<heap, next, prev, index, word, cur, call, answer>>

-----------------------------------------------------------------------------
(* The queries *)

\* SParser::getCurrentMaxAlpha
GetCurrentMaxAlpha ==
  /\ pc = "idle"
  /\ answer' = [query |-> "maxAlpha", of |-> word[cur]]
  /\ UNCHANGED <<chain, cur, pc, call>>

\* SParser::getPrediction, up to its ParseLine
GetPrediction ==
  /\ pc = "idle"
  /\ pc' = "scan" /\ purpose' = "prediction" /\ line' = Predicted
  /\ UNCHANGED <<chain, cur, todo, fresh, limbo, doomed, ret, answer>>

\* Impl::getPredictedAlpha reads the lookahead cell while it is the current one.
ReadPrediction ==
  /\ pc = "read"
  /\ answer' = [query |-> "prediction", of |-> word[cur]]
  /\ pc' = "backtrack"
  /\ UNCHANGED <<chain, cur, call>>

\* SParser::getViterbiParse, up to ParseFinal's ParseLine
GetViterbiParse ==
  /\ pc = "idle"
  /\ pc' = "scan" /\ purpose' = "viterbi" /\ line' = EndOfString
  /\ UNCHANGED <<chain, cur, todo, fresh, limbo, doomed, ret, answer>>

\* A faulty Backtrack, which follows NextCell.
BacktrackForward ==
  /\ pc = "backtrack"
  /\ cur' = next[cur] /\ limbo' = cur /\ pc' = "discard"
  /\ UNCHANGED <<chain, purpose, todo, line, fresh, doomed, ret, answer>>

\* Impl::backtrack and CellUtils::split
Backtrack ==
  /\ pc = "backtrack"
  /\ IF cur # HeadCell
       THEN LET before == prev[cur] IN
            LET off == next[before] IN
            /\ cur' = before /\ limbo' = off
            /\ IF off = Null
                 THEN UNCHANGED <<next, prev>>
                 ELSE /\ prev' = [prev EXCEPT ![off] = Null]
                      /\ next' = [next EXCEPT ![before] = Null]
       ELSE limbo' = Null /\ UNCHANGED <<cur, next, prev>>
  /\ pc' = "discard"
  /\ UNCHANGED <<heap, index, word, refs, purpose, todo, line, fresh, doomed,
                 ret, answer>>

\* A faulty Discard: getPredictedAlpha does not delete the lookahead cell.
DiscardAndLeak ==
  /\ pc = "discard"
  /\ IF purpose = "viterbi" THEN Free(limbo) ELSE UNCHANGED chain
  /\ limbo' = Null /\ Return
  /\ UNCHANGED <<cur, fresh, doomed, answer>>

\* The end of getPredictedAlpha and of getViterbiParse.  The latter reads the
\* final cell, when there is one, and on both its paths deletes it.
Discard ==
  /\ pc = "discard"
  /\ Free(limbo) /\ limbo' = Null
  /\ answer' = IF purpose = "viterbi" /\ limbo # Null
                 THEN [query |-> "viterbi", of |-> word[limbo]] ELSE answer
  /\ Return
  /\ UNCHANGED <<cur, fresh, doomed>>

-----------------------------------------------------------------------------
(* SParser::reset, Impl::~Impl and the loop of CellUtils::destroyCells *)

DestroyAfterHead(to) ==
  /\ doomed' = next[HeadCell] /\ next' = [next EXCEPT ![HeadCell] = Null]
  /\ pc' = "destroy" /\ ret' = to
  /\ UNCHANGED <<heap, prev, index, word, refs, purpose, todo, line, fresh,
                 limbo, answer>>

\* A faulty Reset, which leaves currentCell_ where it was.
ResetInPlace == pc = "idle" /\ UNCHANGED cur /\ DestroyAfterHead("idle")

Reset == pc = "idle" /\ cur' = HeadCell /\ DestroyAfterHead("idle")

Close == pc = "idle" /\ UNCHANGED cur /\ DestroyAfterHead("ended")

\* A faulty DestroyCells, whose cursor does not move.
DestroyCellsForever ==
  /\ pc = "destroy"
  /\ IF doomed # Null
       THEN Free(doomed) /\ UNCHANGED <<pc, ret, purpose, todo, line>>
       ELSE /\ UNCHANGED chain
            /\ IF ret = "idle" THEN Return
               ELSE pc' = ret /\ UNCHANGED <<purpose, todo, line, ret>>
  /\ UNCHANGED <<cur, fresh, limbo, doomed, answer>>

\* One turn of the loop, which reads the link of a cell before deleting it;
\* the embedded head cell goes with the Impl object that holds it.
DestroyCells ==
  /\ pc = "destroy"
  /\ IF doomed # Null
       THEN /\ Free(doomed) /\ doomed' = next[doomed]
            /\ UNCHANGED <<pc, purpose, todo, line, ret>>
       ELSE /\ IF ret = "ended" THEN Free(HeadCell) ELSE UNCHANGED chain
            /\ IF ret = "idle" THEN Return
               ELSE pc' = ret /\ UNCHANGED <<purpose, todo, line, ret>>
            /\ UNCHANGED doomed
  /\ UNCHANGED <<cur, fresh, limbo, answer>>

\* The parser is gone: nothing happens any more.
Ended == pc = "ended" /\ UNCHANGED vars

-----------------------------------------------------------------------------
Batches == UNION {[1..n -> Input] : n \in 0..MaxBatch}

\* What a client calls.
Calls == \/ \E inputs \in Batches : Parse(inputs)
         \/ GetCurrentMaxAlpha
         \/ GetPrediction
         \/ GetViterbiParse
         \/ Reset
         \/ Close

\* What a call does once it is running.
Steps == \/ NextInput
         \/ Scan
         \/ Link
         \/ Fill
         \/ ReadPrediction
         \/ Backtrack
         \/ Discard
         \/ DestroyCells

Next == Calls \/ Steps \/ Ended

Spec == Init /\ [][Next]_vars

\* A call that is running goes on running: the library is sequential and has
\* no lock, wait or I/O that could stop it.
FairSpec == Spec /\ WF_vars(Steps)
-----------------------------------------------------------------------------
(* Properties *)

\* The destructor is running, or has run.
Closing == ret = "ended" /\ pc \in {"destroy", "ended"}

\* Every pointer the running call is about to follow leads to a live cell, and
\* so does every child of a state that can still be read: deleting the
\* lookahead cell, or the cells reset() drops, never leaves one behind
\* (CellUtils.cpp, backtrack, getPredictedAlpha, getViterbiParse).
NoDangling ==
  /\ pc # "ended" => HeadCell \in heap
  /\ Closing \/ cur \in heap
  /\ {fresh, limbo, doomed} \subseteq heap \cup {Null}
  /\ pc \notin {"destroy", "ended"} =>
       \A c \in heap : refs[c] \subseteq heap /\ next[c] \in heap \cup {Null}

\* The cells on the chain, as opposed to the one being built or taken off.
Linked == heap \ {fresh, limbo}

\* While no cell is being destroyed the chain is doubly linked and numbered
\* without gaps from the head to the current cell, which is the last: so
\* getCellByIndex finds every K a state can name, and Scan's setNext never
\* destroys a cell that is in use.
ChainOK ==
  pc \notin {"destroy", "ended"} =>
    /\ \A c \in Linked : next[c] = Null <=> c = cur
    /\ \A c \in Linked \ {HeadCell} :
         /\ prev[c] \in Linked /\ next[prev[c]] = c
         /\ index[c] = index[prev[c]] + 1
    /\ \A k \in 0..index[cur] : \E c \in Linked : index[c] = k

\* Between calls there is one live cell per parsed input and the head, and
\* none once the parser is destroyed: no path of a query loses its lookahead
\* cell.
NoLeak ==
  /\ pc = "idle" =>
       \A c, d \in heap : index[c] <= index[cur] /\ (index[c] = index[d] => c = d)
  /\ pc = "ended" => heap = {}

\* While a query looks ahead, currentCell_ is one line past the session.
LookingAhead == pc \in {"fill", "read", "backtrack"} /\ purpose # "parse"
ButLast(s) == SubSeq(s, 1, Len(s) - 1)

History == IF Closing THEN <<>>
           ELSE IF LookingAhead THEN ButLast(word[cur]) ELSE word[cur]
Answered == IF answer.query \in {"prediction", "viterbi"}
              THEN [answer EXCEPT !.of = ButLast(answer.of)] ELSE answer

Abstract == INSTANCE Session WITH history <- History, answer <- Answered,
                                  Query <- Queries

\* The chain implements the session: a query answers for exactly the inputs
\* accepted since the last reset and leaves them as they were, a batch that
\* fails half-way keeps what it had accepted, and reset() forgets everything.
ImplementsSession == Abstract!Spec

\* Every call returns: the loops over the chain end.
CallsReturn == pc \notin {"idle", "ended"} ~> pc \in {"idle", "ended"}
=============================================================================
