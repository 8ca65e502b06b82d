--------------------------- MODULE CellChainProofs ---------------------------
(***************************************************************************)
(* Proofs about CellChain, for every set of cells and inputs and every     *)
(* bound: its types, that no pointer dangles and no cell leaks, and that   *)
(* it implements Session.                                                  *)
(***************************************************************************)
EXTENDS CellChain, SequenceTheorems, TLAPS

(* The inductive invariant.  Locals says what the variables of the running *)
(* call hold at each of its points, ListInv describes the chain while it   *)
(* is whole, and DoomInv while destroyCells is eating it from its front.   *)

Whole == pc \notin {"destroy", "ended"}

Locals ==
  /\ pc # "link" => fresh = Null
  /\ pc = "link" =>
       /\ fresh \in heap \ {HeadCell, cur}
       /\ index[fresh] = index[cur] + 1
       /\ word[fresh] = Append(word[cur], line)
       /\ refs[fresh] = refs[cur]
       /\ next[fresh] = Null
  /\ pc # "discard" => limbo = Null
  /\ pc = "discard" =>
       /\ limbo \in heap \ {HeadCell, cur}
       /\ word[limbo] = Append(word[cur], line)
       /\ refs[limbo] \subseteq heap
       /\ next[limbo] = Null
  /\ Whole => doomed = Null /\ ret = "idle"
  /\ pc = "destroy" => ret \in {"idle", "ended"}
  /\ pc = "ended" => ret = "ended" /\ doomed = Null
  /\ pc \in {"idle", "batch"} => purpose = "parse"
  /\ pc = "read" => purpose = "prediction"
  /\ pc \in {"backtrack", "discard"} => purpose \in {"prediction", "viterbi"}
  /\ pc \in {"scan", "link", "fill"} /\ purpose = "parse" => line \in Known
  /\ pc \in {"fill", "read", "backtrack"} =>
       /\ cur # HeadCell
       /\ word[cur] = Append(word[prev[cur]], line)

\* Each cell of the chain, and its neighbours.
Neighbours(c) ==
  /\ next[c] = Null <=> c = cur
  /\ next[c] # Null => next[c] \in Linked /\ prev[next[c]] = c
  /\ c # HeadCell => /\ prev[c] \in Linked /\ next[prev[c]] = c
                     /\ index[c] = index[prev[c]] + 1
  /\ index[c] <= index[cur]
  /\ ~(c = cur /\ LookingAhead) => word[c] \in Seq(Known)
  /\ \A d \in refs[c] : d \in Linked /\ index[d] <= index[c]

Ends == /\ HeadCell \in Linked /\ cur \in Linked
        /\ index[HeadCell] = 0 /\ word[HeadCell] = <<>> /\ refs[HeadCell] = {}
        /\ prev[HeadCell] = Null

Distinct == \A c, d \in Linked : index[c] = index[d] => c = d

Gapless == \A k \in 0..index[cur] : \E c \in Linked : index[c] = k

ListInv == Ends /\ (\A c \in Linked : Neighbours(c)) /\ Distinct /\ Gapless

\* The cells that destroyCells has still to delete.
Rest == heap \ {HeadCell}

DoomInv ==
  /\ HeadCell \in heap
  /\ next[HeadCell] = Null /\ refs[HeadCell] = {}
  /\ word[HeadCell] = <<>> /\ index[HeadCell] = 0 /\ prev[HeadCell] = Null
  /\ ret = "idle" => cur = HeadCell
  /\ doomed = Null => Rest = {}
  /\ doomed # Null => doomed \in Rest /\ prev[doomed] \notin Rest
  /\ \A c \in Rest :
       /\ next[c] # Null => /\ next[c] \in Rest /\ prev[next[c]] = c
                            /\ index[next[c]] = index[c] + 1
       /\ next[c] = Null => \A d \in Rest : index[d] <= index[c]
       /\ c # doomed => prev[c] \in Rest /\ next[prev[c]] = c
       /\ index[doomed] <= index[c]
  /\ \A c, d \in Rest : index[c] = index[d] => c = d

IInv == /\ TypeOK
        /\ Locals
        /\ Whole => ListInv
        /\ pc = "destroy" => DoomInv
        /\ pc = "ended" => heap = {}

-----------------------------------------------------------------------------
\* What ButLast undoes.
LEMMA ButLastAppend ==
  ASSUME NEW S, NEW s \in Seq(S), NEW e \in S
  PROVE  ButLast(Append(s, e)) = s
<1>1. Append(s, e) = s \o <<e>> /\ Len(Append(s, e)) = Len(s) + 1
  BY AppendIsConcat, AppendProperties
<1>2. SubSeq(Append(s, e), 1, Len(s)) = s
  <2>1. CASE s = <<>>
    BY <2>1, SubSeqEmpty
  <2>2. CASE s # <<>>
    <3>1. Len(s) \in Nat \ {0} /\ <<e>> \in Seq(S)
      BY <2>2, EmptySeq
    <3>2. SubSeq(s \o <<e>>, 1, Len(s)) = SubSeq(s, 1, Len(s))
      BY <3>1, SubSeqOfConcat1
    <3> QED  BY <1>1, <3>2, SubSeqFull
  <2> QED  BY <2>1, <2>2
<1> QED  BY <1>1, <1>2, LenProperties DEF ButLast

LEMMA TokensFact == Known \subseteq Tokens /\ EndOfString \in Tokens /\ Predicted \in Tokens
BY DEF Tokens

LEMMA EmptyFacts ==
  <<>> \in Seq(Input) /\ <<>> \in Seq(Tokens) /\ <<>> \in Seq(Known)
BY EmptySeq

LEMMA InitInv == Init => IInv
<1> SUFFICES ASSUME Init PROVE IInv
  OBVIOUS
<1> USE CellAssumption DEF Init
<1>1. TypeOK
  BY TokensFact, EmptySeq DEF TypeOK, Links, NoAnswer
<1>2. Locals
  BY DEF Locals, Whole
<1>3. ListInv
  <2>1. Linked = {HeadCell}
    BY DEF Linked
  <2>2. Neighbours(HeadCell)
    BY <2>1, EmptySeq DEF Neighbours
  <2> QED  BY <2>1, <2>2 DEF ListInv, Ends, Distinct, Gapless
<1> QED  BY <1>1, <1>2, <1>3 DEF IInv

LEMMA BatchesAreSequences == Batches \subseteq Seq(Input)
<1>1. \A n \in 0..MaxBatch : n \in Nat
  BY BoundAssumption
<1>2. Seq(Input) = UNION {[1..n -> Input] : n \in Nat}
  BY SeqDef
<1> QED  BY <1>1, <1>2 DEF Batches

ChainTypes ==
  /\ heap \subseteq Cell
  /\ next \in [Cell -> Links] /\ prev \in [Cell -> Links]
  /\ index \in [Cell -> Nat]
  /\ word \in [Cell -> Seq(Tokens)]
  /\ refs \in [Cell -> SUBSET Cell]

LEMMA FreeTypes ==
  ASSUME TypeOK, NEW c, Free(c) \/ UNCHANGED chain
  PROVE  ChainTypes'
<1> USE DEF TypeOK, ChainTypes, Links
<1>1. CASE Free(c)
  <2>1. heap' \subseteq Cell
    BY <1>1 DEF Free
  <2>2. next' \in [Cell -> Links] /\ prev' \in [Cell -> Links]
    BY <1>1 DEF Free
  <2>3. index' \in [Cell -> Nat] /\ refs' \in [Cell -> SUBSET Cell]
    BY <1>1 DEF Free
  <2>4. word' \in [Cell -> Seq(Tokens)]
    BY <1>1, EmptyFacts DEF Free
  <2> QED  BY <2>1, <2>2, <2>3, <2>4
<1>2. CASE UNCHANGED chain
  BY <1>2 DEF chain
<1> QED  BY <1>1, <1>2

\* The types, action by action.
LEMMA TypeStep == ASSUME IInv, [Next]_vars PROVE TypeOK'
<1> USE CellAssumption, TokensFact, EmptyFacts DEF IInv, TypeOK, Links
<1>1. CASE \E inputs \in Batches : Parse(inputs)
  BY <1>1, BatchesAreSequences DEF Parse, chain
<1>2. CASE GetCurrentMaxAlpha
  BY <1>2 DEF GetCurrentMaxAlpha, chain, call, Queries
<1>3. CASE GetPrediction
  BY <1>3 DEF GetPrediction, chain
<1>4. CASE GetViterbiParse
  BY <1>4 DEF GetViterbiParse, chain
<1>5. CASE Reset
  BY <1>5 DEF Reset, DestroyAfterHead
<1>6. CASE Close
  BY <1>6 DEF Close, DestroyAfterHead
<1>7. CASE NextInput
  <2>1. todo # <<>> => Head(todo) \in Input /\ Tail(todo) \in Seq(Input)
    BY HeadTailProperties
  <2>2. todo' \in Seq(Input)
    <3>1. todo' = <<>> \/ (todo # <<>> /\ todo' = Tail(todo))
      BY <1>7 DEF NextInput, Return
    <3> QED  BY <2>1, <3>1
  <2>3. line' \in Tokens
    BY <1>7 DEF NextInput, Return
  <2>4. (purpose' = "parse" /\ ret' = "idle" /\ pc' = "idle") \/ (UNCHANGED <<purpose, ret>> /\ pc' = "scan")
    BY <1>7 DEF NextInput, Return
  <2>5. UNCHANGED <<heap, next, prev, index, word, refs, cur, fresh, limbo, doomed, answer>>
    BY <1>7 DEF NextInput, chain
  <2> QED  BY <2>2, <2>3, <2>4, <2>5
<1>8. CASE Scan
  <2>1. Append(word[cur], line) \in Seq(Tokens)
    BY AppendProperties
  <2>2. PICK c \in Cell \ heap : Scan!2!(c)
    BY <1>8 DEF Scan
  <2>3. UNCHANGED <<cur, purpose, todo, line, limbo, doomed, ret, answer>> /\ pc' = "link"
    BY <1>8 DEF Scan
  <2> QED  BY <2>1, <2>2, <2>3
<1>9. CASE Link
  <2>1. pc = "link" => fresh \in Cell
    BY DEF Locals
  <2>2. CASE next[cur] # Null
    <3>1. /\ doomed' = next[cur] /\ next' = [next EXCEPT ![cur] = Null]
          /\ pc' = "destroy" /\ ret' = "link"
          /\ UNCHANGED <<heap, prev, index, word, refs, cur, purpose, todo,
                         line, fresh, limbo, answer>>
      BY <1>9, <2>2 DEF Link
    <3>2. next' \in [Cell -> Links] /\ doomed' \in Links
      BY <3>1
    <3> QED  BY <3>1, <3>2
  <2>3. CASE next[cur] = Null
    <3>1. fresh \in Cell
      BY <1>9, <2>1 DEF Link
    <3>2. next' \in [Cell -> Links] /\ prev' \in [Cell -> Links]
      <4>1. /\ next' = [next EXCEPT ![cur] = fresh]
            /\ prev' = [prev EXCEPT ![fresh] = cur]
        BY <1>9, <2>3 DEF Link
      <4> QED  BY <3>1, <4>1
    <3>3. cur' = fresh /\ fresh' = Null /\ pc' = "fill"
          /\ UNCHANGED <<doomed, ret, heap, index, word, refs, purpose, todo,
                         line, limbo, answer>>
      BY <1>9, <2>3 DEF Link
    <3> QED  BY <3>1, <3>2, <3>3
  <2> QED  BY <2>2, <2>3
<1>10. CASE Fill
  <2>1. prev[cur] \in Cell => refs[cur] \cup refs[prev[cur]] \cup {cur} \subseteq Cell
    OBVIOUS
  <2>2. pc = "fill" => prev[cur] \in Cell
    BY DEF ListInv, Ends, Distinct, Gapless, Neighbours, Linked, Whole, Locals
  <2>3. refs' \in [Cell -> SUBSET Cell]
    BY <1>10, <2>1, <2>2 DEF Fill
  <2>4. pc' \in {"batch", "read", "backtrack"}
    BY <1>10 DEF Fill
  <2> QED  BY <1>10, <2>3, <2>4 DEF Fill, call
<1>11. CASE ReadPrediction
  BY <1>11 DEF ReadPrediction, chain, call, Queries
<1>12. CASE Backtrack
  <2>1. CASE cur = HeadCell
    BY <1>12, <2>1 DEF Backtrack
  <2>2. CASE cur # HeadCell
    <3>1. pc = "backtrack" => prev[cur] \in Cell
      BY <2>2 DEF ListInv, Ends, Distinct, Gapless, Neighbours, Linked, Whole
    <3> QED  BY <1>12, <2>2, <3>1 DEF Backtrack
  <2> QED  BY <2>1, <2>2
<1>13. CASE Discard
  <2>1. answer' \in [query : Queries \cup {"none"}, of : Seq(Tokens)]
    <3>1. limbo # Null => word[limbo] \in Seq(Tokens)
      OBVIOUS
    <3> QED  BY <1>13, <3>1 DEF Discard, Queries
  <2>2. purpose' = "parse" /\ todo' = <<>> /\ line' = EndOfString /\ ret' = "idle"
        /\ pc' = "idle" /\ limbo' = Null /\ UNCHANGED <<cur, fresh, doomed>>
    BY <1>13 DEF Discard, Return
  <2>3. Free(limbo)
    BY <1>13 DEF Discard
  <2> QED  BY <2>1, <2>2, <2>3, FreeTypes DEF ChainTypes
<1>14. CASE DestroyCells
  <2>1. CASE doomed # Null
    <3>1. Free(doomed) /\ doomed' = next[doomed]
          /\ UNCHANGED <<pc, purpose, todo, line, ret, cur, fresh, limbo, answer>>
      BY <1>14, <2>1 DEF DestroyCells
    <3> QED  BY <2>1, <3>1, FreeTypes DEF ChainTypes
  <2>2. CASE doomed = Null
    <3>1. Free(HeadCell) \/ UNCHANGED chain
      BY <1>14, <2>2 DEF DestroyCells
    <3>2. Return \/ (pc' = ret /\ UNCHANGED <<purpose, todo, line, ret>>)
      BY <1>14, <2>2 DEF DestroyCells
    <3>3. UNCHANGED <<cur, fresh, limbo, doomed, answer>>
      BY <1>14, <2>2 DEF DestroyCells
    <3> QED  BY <3>1, <3>2, <3>3, FreeTypes DEF Return, ChainTypes
  <2> QED  BY <2>1, <2>2
<1>15. CASE Ended \/ UNCHANGED vars
  BY <1>15 DEF Ended, vars, chain, call
<1> QED
  BY <1>1, <1>2, <1>3, <1>4, <1>5, <1>6, <1>7, <1>8, <1>9, <1>10, <1>11,
     <1>12, <1>13, <1>14, <1>15 DEF Next, Calls, Steps

-----------------------------------------------------------------------------
\* A step that moves no pointer keeps the chain.
LEMMA SameList ==
  ASSUME IInv, Whole, UNCHANGED <<chain, cur, fresh, limbo>>,
         LookingAhead => LookingAhead'
  PROVE  ListInv'
BY DEF IInv, ListInv, Ends, Distinct, Gapless, Neighbours, Linked, chain

LEMMA StillGapless ==
  ASSUME Gapless, index'[cur'] = index[cur],
         \A d \in Linked : d \in Linked' /\ index'[d] = index[d]
  PROVE  Gapless'
<1> SUFFICES ASSUME NEW k \in 0..index[cur]
             PROVE  \E d \in Linked' : index'[d] = k
  BY DEF Gapless
<1>1. PICK d \in Linked : index[d] = k
  BY DEF Gapless
<1> QED  BY <1>1

LEMMA StillStep ==
  ASSUME IInv,
         \/ \E inputs \in Batches : Parse(inputs)
         \/ GetCurrentMaxAlpha \/ GetPrediction \/ GetViterbiParse
         \/ NextInput \/ ReadPrediction
  PROVE  Locals' /\ Whole' /\ ListInv'
<1>1. /\ Whole /\ Whole' /\ UNCHANGED <<chain, cur, fresh, limbo, doomed>>
      /\ LookingAhead => LookingAhead'
  BY DEF Whole, LookingAhead, Parse, GetCurrentMaxAlpha, GetPrediction,
         GetViterbiParse, NextInput, Return, ReadPrediction, call, chain
<1>2. ListInv'
  BY <1>1, SameList
<1>3. Locals'
  <2> USE <1>1 DEF IInv, Locals, Whole, chain
  <2>1. CASE \E inputs \in Batches : Parse(inputs)
    BY <2>1 DEF Parse
  <2>2. CASE GetCurrentMaxAlpha
    BY <2>2 DEF GetCurrentMaxAlpha, call
  <2>3. CASE GetPrediction
    BY <2>3 DEF GetPrediction
  <2>4. CASE GetViterbiParse
    BY <2>4 DEF GetViterbiParse
  <2>5. CASE NextInput
    BY <2>5 DEF NextInput, Return
  <2>6. CASE ReadPrediction
    BY <2>6 DEF ReadPrediction, call
  <2> QED  BY <2>1, <2>2, <2>3, <2>4, <2>5, <2>6
<1> QED  BY <1>1, <1>2, <1>3

LEMMA ScanStep ==
  ASSUME IInv, Scan
  PROVE  Locals' /\ Whole' /\ ListInv'
<1> USE CellAssumption DEF IInv, TypeOK
<1>1. PICK c \in Cell \ heap : Scan!2!(c)
  BY DEF Scan
<1>2. /\ pc = "scan" /\ pc' = "link"
      /\ UNCHANGED <<cur, purpose, todo, line, limbo, doomed, ret, answer>>
  BY DEF Scan
<1>3. Whole /\ Whole' /\ ListInv /\ fresh = Null /\ limbo = Null
  BY <1>2 DEF Whole, Locals
<1>4. Linked = heap /\ Linked' = heap /\ c # Null
  BY <1>1, <1>2, <1>3 DEF Linked
<1>5. \A d \in heap : /\ d # c /\ next'[d] = next[d] /\ prev'[d] = prev[d]
                      /\ index'[d] = index[d] /\ word'[d] = word[d]
                      /\ refs'[d] = refs[d]
  BY <1>1
<1>6. HeadCell \in heap /\ cur \in heap
  BY <1>3, <1>4 DEF ListInv, Ends
<1>7. Locals'
  BY <1>1, <1>2, <1>3, <1>5, <1>6 DEF Locals, Whole
<1>8. ListInv'
  <2>1. \A d \in Linked' : Neighbours(d)'
    BY <1>2, <1>3, <1>4, <1>5, <1>6 DEF ListInv, Ends, Distinct, Gapless, Neighbours, LookingAhead
  <2>2. Ends'
    BY <1>2, <1>3, <1>4, <1>5, <1>6 DEF ListInv, Ends
  <2>3. Distinct'
    BY <1>3, <1>4, <1>5 DEF ListInv, Distinct
  <2>4. Gapless'
    BY <1>2, <1>3, <1>4, <1>5, <1>6, StillGapless DEF ListInv
  <2> QED  BY <2>1, <2>2, <2>3, <2>4 DEF ListInv
<1> QED  BY <1>3, <1>7, <1>8

\* The chain has nothing after the current cell, so setNext destroys nothing:
\* the new cell becomes the last one.
LEMMA LinkStep ==
  ASSUME IInv, Link
  PROVE  Locals' /\ Whole' /\ ListInv'
<1> USE CellAssumption DEF IInv, TypeOK
<1>1. Whole /\ ListInv /\ limbo = Null /\ pc = "link" /\ cur \in Linked
  BY DEF Link, Whole, Locals, ListInv, Ends
<1>2. /\ fresh \in heap \ {HeadCell, cur, Null}
      /\ index[fresh] = index[cur] + 1
      /\ word[fresh] = Append(word[cur], line)
      /\ refs[fresh] = refs[cur] /\ next[fresh] = Null
  BY <1>1 DEF Locals
<1>3. next[cur] = Null
  BY <1>1 DEF ListInv, Neighbours
<1>4. /\ next' = [next EXCEPT ![cur] = fresh]
      /\ prev' = [prev EXCEPT ![fresh] = cur]
      /\ cur' = fresh /\ fresh' = Null /\ pc' = "fill"
      /\ UNCHANGED <<doomed, ret, heap, index, word, refs, purpose, todo, line,
                     limbo, answer>>
  BY <1>3 DEF Link
<1>5. Linked' = Linked \cup {fresh} /\ fresh \notin Linked
  BY <1>1, <1>2, <1>4 DEF Linked
<1>6. /\ \A d \in Linked : prev'[d] = prev[d] /\ (d # cur => next'[d] = next[d])
      /\ next'[cur] = fresh /\ next'[fresh] = Null /\ prev'[fresh] = cur
  BY <1>1, <1>2, <1>4, <1>5 DEF Linked
<1>7. Whole' /\ ~LookingAhead /\ (LookingAhead' <=> purpose # "parse")
  BY <1>1, <1>4 DEF Whole, LookingAhead
<1>8. Locals'
  BY <1>1, <1>2, <1>4, <1>6 DEF Locals, Whole
<1>9. ListInv'
  <2>1. Ends'
    BY <1>1, <1>2, <1>4, <1>5 DEF ListInv, Ends
  <2>2. ASSUME NEW d \in Linked PROVE Neighbours(d)'
    <3>1. Neighbours(d) /\ d # fresh /\ cur \in Linked /\ index[d] \in Nat
      BY <1>1, <1>5 DEF ListInv, Linked
    <3>2. index'[d] <= index'[cur'] /\ index[d] <= index[cur]
      BY <1>2, <1>4, <3>1 DEF Neighbours
    <3>3. word'[d] \in Seq(Known)
      BY <1>4, <1>7, <3>1 DEF Neighbours
    <3>4. d # HeadCell => /\ prev[d] \in Linked' /\ next'[prev[d]] = d
                          /\ index[d] = index[prev[d]] + 1
      <4>1. d # Null
        BY DEF Linked
      <4>2. d # HeadCell => /\ prev[d] \in Linked /\ next[prev[d]] = d
                            /\ index[d] = index[prev[d]] + 1
        BY <3>1 DEF Neighbours
      <4>3. d # HeadCell => prev[d] # cur
        BY <1>3, <4>1, <4>2
      <4> QED  BY <1>5, <1>6, <4>2, <4>3
    <3>5. \A e \in refs'[d] : e \in Linked' /\ index'[e] <= index'[d]
      BY <1>4, <1>5, <3>1 DEF Neighbours
    <3>6. CASE d = cur
      <4>1. next'[d] = fresh /\ fresh # Null /\ d # cur' /\ prev'[fresh] = d
            /\ prev'[d] = prev[d] /\ fresh \in Linked'
        BY <1>2, <1>4, <1>5, <1>6, <3>1, <3>6
      <4> QED  BY <1>4, <3>1, <3>2, <3>3, <3>4, <3>5, <4>1 DEF Neighbours
    <3>7. CASE d # cur
      <4>1. next'[d] = next[d] /\ prev'[d] = prev[d]
        BY <1>6, <3>7
      <4>2. next[d] # Null /\ next[d] \in Linked /\ prev[next[d]] = d
        BY <3>1, <3>7 DEF Neighbours
      <4>3. prev'[next[d]] = d /\ next[d] \in Linked'
        BY <1>5, <1>6, <4>2
      <4> QED  BY <1>4, <3>1, <3>2, <3>3, <3>4, <3>5, <4>1, <4>2, <4>3
               DEF Neighbours
    <3> QED  BY <3>6, <3>7
  <2>3. ASSUME NEW f, f = fresh PROVE Neighbours(f)'
    <3>1. Neighbours(cur) /\ index[cur] \in Nat
      BY <1>1 DEF ListInv
    <3>2. ~LookingAhead' => word'[fresh] \in Seq(Known)
      <4>1. word[cur] \in Seq(Known)
        BY <1>7, <3>1 DEF Neighbours
      <4>2. purpose = "parse" => line \in Known
        BY <1>1 DEF Locals
      <4>3. purpose = "parse" => Append(word[cur], line) \in Seq(Known)
        BY <4>1, <4>2, AppendProperties
      <4> QED  BY <1>2, <1>4, <1>7, <4>3
    <3>3. \A d \in refs'[fresh] : d \in Linked' /\ index'[d] <= index'[fresh]
      BY <1>2, <1>4, <1>5, <3>1 DEF Neighbours, Linked
    <3>4. prev'[fresh] \in Linked' /\ next'[prev'[fresh]] = fresh
          /\ index'[fresh] = index'[prev'[fresh]] + 1
      BY <1>1, <1>2, <1>4, <1>5, <1>6
    <3>5. next'[fresh] = Null /\ cur' = fresh /\ index'[fresh] <= index'[cur']
      BY <1>2, <1>4, <1>6
    <3> QED  BY <1>2, <2>3, <3>2, <3>3, <3>4, <3>5 DEF Neighbours
  <2>4. Distinct'
    <3>1. \A d \in Linked : index[d] # index[fresh]
      BY <1>1, <1>2 DEF ListInv, Neighbours, Linked
    <3> QED  BY <1>1, <1>4, <1>5, <3>1 DEF ListInv, Distinct
  <2>5. Gapless'
    <3> SUFFICES ASSUME NEW k \in 0..(index[cur] + 1)
                 PROVE  \E d \in Linked' : index'[d] = k
      BY <1>2, <1>4 DEF Gapless
    <3>1. CASE k = index[cur] + 1
      BY <1>2, <1>4, <1>5, <3>1
    <3>2. CASE k # index[cur] + 1
      <4>1. k \in 0..index[cur]
        BY <1>1, <3>2 DEF Linked
      <4>2. PICK d \in Linked : index[d] = k
        BY <1>1, <4>1 DEF ListInv, Gapless
      <4> QED  BY <1>4, <1>5, <4>2
    <3> QED  BY <3>1, <3>2
  <2>6. \A d \in Linked' : Neighbours(d)'
    BY <1>5, <2>2, <2>3
  <2> QED  BY <2>1, <2>4, <2>5, <2>6 DEF ListInv
<1> QED  BY <1>7, <1>8, <1>9

LEMMA FillStep ==
  ASSUME IInv, Fill
  PROVE  Locals' /\ Whole' /\ ListInv'
<1> USE CellAssumption DEF IInv, TypeOK
<1>1. /\ Whole /\ ListInv /\ limbo = Null /\ fresh = Null /\ pc = "fill"
      /\ cur \in Linked \ {HeadCell}
  BY DEF Fill, Whole, Locals, ListInv, Ends
<1>2. /\ refs' = [refs EXCEPT ![cur] = refs[cur] \cup refs[prev[cur]] \cup {cur}]
      /\ UNCHANGED <<heap, next, prev, index, word, cur, call, answer>>
      /\ pc' = CASE purpose = "parse" -> "batch"
                 [] purpose = "prediction" -> "read"
                 [] purpose = "viterbi" -> "backtrack"
  BY DEF Fill
<1>3. Linked' = Linked /\ LookingAhead' = LookingAhead /\ Whole'
  BY <1>1, <1>2 DEF Linked, LookingAhead, Whole, call
<1>4. Locals'
  BY <1>1, <1>2 DEF Locals, Whole, call
<1>5. ListInv'
  <2>1. Ends' /\ Distinct' /\ Gapless'
    BY <1>1, <1>2, <1>3 DEF ListInv, Ends, Distinct, Gapless
  <2>2. ASSUME NEW d \in Linked PROVE Neighbours(d)'
    <3>1. Neighbours(d) /\ Neighbours(cur) /\ Neighbours(prev[cur])
      BY <1>1 DEF ListInv, Neighbours
    <3>2. \A e \in refs'[d] : e \in Linked /\ index[e] <= index[d]
      <4>1. CASE d # cur
        BY <1>2, <3>1, <4>1 DEF Neighbours, Linked
      <4>2. CASE d = cur
        BY <1>1, <1>2, <3>1, <4>2 DEF Neighbours, Linked
      <4> QED  BY <4>1, <4>2
    <3> QED  BY <1>2, <1>3, <3>1, <3>2 DEF Neighbours
  <2> QED  BY <1>3, <2>1, <2>2 DEF ListInv
<1> QED  BY <1>3, <1>4, <1>5

\* backtrack() takes exactly the lookahead cell off the chain.
LEMMA BacktrackStep ==
  ASSUME IInv, Backtrack
  PROVE  Locals' /\ Whole' /\ ListInv'
<1> USE CellAssumption DEF IInv, TypeOK
<1> DEFINE before == prev[cur]
<1>1. /\ Whole /\ ListInv /\ limbo = Null /\ fresh = Null /\ pc = "backtrack"
      /\ cur \in Linked \ {HeadCell} /\ LookingAhead /\ Linked = heap
      /\ purpose \in {"prediction", "viterbi"}
      /\ word[cur] = Append(word[before], line)
  BY DEF Backtrack, Whole, Locals, ListInv, Ends, LookingAhead, Linked
<1>2. /\ before \in Linked /\ next[before] = cur /\ next[cur] = Null
      /\ index[cur] = index[before] + 1 /\ before # cur /\ cur # Null
  BY <1>1 DEF ListInv, Neighbours
<1>3. /\ cur' = before /\ limbo' = cur /\ pc' = "discard"
      /\ prev' = [prev EXCEPT ![cur] = Null]
      /\ next' = [next EXCEPT ![before] = Null]
      /\ UNCHANGED <<heap, index, word, refs, purpose, todo, line, fresh,
                     doomed, ret, answer>>
  BY <1>1, <1>2 DEF Backtrack
<1>4. Linked' = Linked \ {cur} /\ Whole' /\ ~LookingAhead'
  BY <1>1, <1>3 DEF Linked, Whole, LookingAhead
<1>5. /\ next'[before] = Null /\ next'[cur] = Null
      /\ \A d \in Linked \ {cur} : /\ prev'[d] = prev[d]
                                   /\ d # before => next'[d] = next[d]
  BY <1>1, <1>2, <1>3
<1>6. \A d \in Linked \ {cur} : index[d] <= index[before]
  <2>1. \A d \in Linked \ {cur} : index[d] <= index[cur] /\ index[d] # index[cur]
    BY <1>1 DEF ListInv, Neighbours, Distinct
  <2> QED  BY <1>1, <1>2, <2>1
<1>7. Locals'
  <2>1. refs[cur] \subseteq heap
    BY <1>1 DEF ListInv, Neighbours
  <2> QED  BY <1>1, <1>2, <1>3, <1>5, <2>1 DEF Locals, Whole
<1>8. ListInv'
  <2>1. Ends'
    BY <1>1, <1>2, <1>3, <1>4 DEF ListInv, Ends
  <2>2. ASSUME NEW d \in Linked \ {cur} PROVE Neighbours(d)'
    <3>1. Neighbours(d)
      BY <1>1 DEF ListInv
    <3>2. index'[d] <= index'[cur'] /\ word'[d] \in Seq(Known)
      BY <1>3, <1>6, <3>1 DEF Neighbours
    <3>3. next[d] = cur => d = before
      BY <1>2, <3>1 DEF Neighbours
    <3>4. /\ next'[d] = Null <=> d = before
          /\ next'[d] # Null => next'[d] \in Linked' /\ prev'[next'[d]] = d
      BY <1>1, <1>2, <1>4, <1>5, <3>1, <3>3 DEF Neighbours
    <3>5. d # HeadCell => /\ prev'[d] \in Linked' /\ next'[prev'[d]] = d
                          /\ index[d] = index[prev'[d]] + 1
      <4>1. d # HeadCell => /\ prev[d] \in Linked /\ next[prev[d]] = d
                            /\ index[d] = index[prev[d]] + 1
        BY <3>1 DEF Neighbours
      <4>2. d # Null /\ (d # HeadCell => prev[d] # cur /\ prev[d] # before)
        BY <1>1, <1>2, <4>1
      <4> QED  BY <1>4, <1>5, <4>1, <4>2
    <3>6. \A e \in refs[d] : e \in Linked' /\ index[e] <= index[d]
      BY <1>1, <1>2, <1>4, <1>6, <3>1 DEF Neighbours
    <3> QED  BY <1>3, <1>4, <3>2, <3>4, <3>5, <3>6 DEF Neighbours
  <2>3. \A d \in Linked' : Neighbours(d)'
    BY <1>4, <2>2
  <2>4. Distinct'
    BY <1>1, <1>3, <1>4 DEF ListInv, Distinct
  <2>5. Gapless'
    <3> SUFFICES ASSUME NEW k \in 0..index[before]
                 PROVE  \E d \in Linked' : index'[d] = k
      BY <1>3 DEF Gapless
    <3>1. k \in 0..index[cur] /\ k # index[cur]
      BY <1>1, <1>2
    <3>2. PICK d \in Linked : index[d] = k
      BY <1>1, <3>1 DEF ListInv, Gapless
    <3> QED  BY <1>3, <1>4, <3>1, <3>2
  <2> QED  BY <2>1, <2>3, <2>4, <2>5 DEF ListInv
<1> QED  BY <1>4, <1>7, <1>8

LEMMA DiscardStep ==
  ASSUME IInv, Discard
  PROVE  Locals' /\ Whole' /\ ListInv'
<1> USE CellAssumption DEF IInv, TypeOK
<1>1. /\ Whole /\ ListInv /\ fresh = Null /\ pc = "discard" /\ ret = "idle"
      /\ limbo \in heap \ {HeadCell, cur} /\ Linked = heap \ {limbo}
      /\ ~LookingAhead /\ doomed = Null
  BY DEF Discard, Whole, Locals, Linked, LookingAhead
<1>2. Free(limbo) /\ limbo' = Null /\ Return /\ UNCHANGED <<cur, fresh, doomed>>
  BY DEF Discard
<1>3. Linked' = Linked /\ Whole' /\ ~LookingAhead' /\ heap' = Linked
  BY <1>1, <1>2 DEF Linked, Whole, LookingAhead, Free, Return
<1>4. \A d \in Linked : /\ next'[d] = next[d] /\ prev'[d] = prev[d]
                        /\ index'[d] = index[d] /\ word'[d] = word[d]
                        /\ refs'[d] = refs[d]
  BY <1>1, <1>2 DEF Free
<1>5. Locals'
  BY <1>1, <1>2 DEF Locals, Whole, Return
<1>6. ListInv'
  <2>1. Ends' /\ Distinct'
    BY <1>1, <1>2, <1>3, <1>4 DEF ListInv, Ends, Distinct
  <2>2. ASSUME NEW d \in Linked PROVE Neighbours(d)'
    <3>1. Neighbours(d) /\ cur \in Linked
      BY <1>1 DEF ListInv, Ends
    <3>2. /\ cur' = cur /\ Linked' = Linked /\ ~LookingAhead'
          /\ \A e \in Linked : /\ next'[e] = next[e] /\ prev'[e] = prev[e]
                               /\ index'[e] = index[e] /\ word'[e] = word[e]
                               /\ refs'[e] = refs[e]
      BY <1>2, <1>3, <1>4
    <3> QED  BY <1>1, <3>1, <3>2 DEF Neighbours
  <2>3. \A d \in Linked' : Neighbours(d)'
    BY <1>3, <2>2
  <2>4. Gapless'
    <3>1. index'[cur'] = index[cur]
      BY <1>1, <1>2, <1>4 DEF ListInv, Ends
    <3> QED  BY <1>1, <1>3, <1>4, <3>1, StillGapless DEF ListInv
  <2> QED  BY <2>1, <2>3, <2>4 DEF ListInv
<1> QED  BY <1>3, <1>5, <1>6

-----------------------------------------------------------------------------
\* reset() and the destructor cut the chain after the head.
LEMMA CutStep ==
  ASSUME IInv, Reset \/ Close
  PROVE  Locals' /\ pc' = "destroy" /\ DoomInv'
<1> USE CellAssumption DEF IInv, TypeOK
<1>1. /\ Whole /\ ListInv /\ limbo = Null /\ fresh = Null /\ pc = "idle"
      /\ Linked = heap /\ HeadCell \in heap
  BY DEF Reset, Close, Whole, Locals, Linked, ListInv, Ends
<1>2. /\ doomed' = next[HeadCell] /\ next' = [next EXCEPT ![HeadCell] = Null]
      /\ pc' = "destroy" /\ ret' \in {"idle", "ended"}
      /\ ret' = "idle" => cur' = HeadCell
      /\ UNCHANGED <<heap, prev, index, word, refs, purpose, todo, line, fresh,
                     limbo, answer>>
  BY DEF Reset, Close, DestroyAfterHead
<1>3. Rest' = Rest /\ Rest = Linked \ {HeadCell}
  BY <1>1, <1>2 DEF Rest
<1>4. Locals'
  BY <1>1, <1>2 DEF Locals, Whole
<1>5. \A d \in Rest : Neighbours(d) /\ Neighbours(HeadCell) /\ next'[d] = next[d]
  BY <1>1, <1>2, <1>3 DEF ListInv
<1>6. /\ \A c, d \in Rest : index[c] = index[d] => c = d
      /\ index[HeadCell] = 0 /\ word[HeadCell] = <<>> /\ refs[HeadCell] = {}
      /\ cur \in Linked
  BY <1>1, <1>3 DEF ListInv, Ends, Distinct
<1>7. \A d \in Rest : index[d] >= 1
  BY <1>3, <1>5, <1>6 DEF Neighbours, Linked
<1>8. next[HeadCell] # Null => /\ next[HeadCell] \in Rest
                               /\ prev[next[HeadCell]] = HeadCell
                               /\ index[next[HeadCell]] = 1
  <2> SUFFICES ASSUME next[HeadCell] # Null
               PROVE  /\ next[HeadCell] \in Rest
                      /\ prev[next[HeadCell]] = HeadCell
                      /\ index[next[HeadCell]] = 1
    OBVIOUS
  <2>1. Neighbours(HeadCell)
    BY <1>1 DEF ListInv
  <2>2. next[HeadCell] \in Linked /\ prev[next[HeadCell]] = HeadCell
    BY <2>1 DEF Neighbours
  <2>3. Neighbours(next[HeadCell]) /\ Neighbours(cur)
    BY <1>1, <1>6, <2>2 DEF ListInv
  <2>4. next[HeadCell] # HeadCell
    BY <1>1, <2>2 DEF ListInv, Ends
  <2> QED  BY <1>3, <1>6, <2>2, <2>3, <2>4 DEF Neighbours
<1>9. next[HeadCell] = Null => Rest = {}
  <2>1. next[HeadCell] = Null => cur = HeadCell
    BY <1>1 DEF ListInv, Neighbours
  <2>2. \A d \in Rest : index[d] <= index[cur]
    BY <1>5 DEF Neighbours
  <2>3. \A d \in Rest : index[d] \in Int
    BY DEF Rest
  <2> QED  BY <1>6, <1>7, <2>1, <2>2, <2>3
<1>10. ASSUME NEW c \in Rest
       PROVE  /\ next[c] # Null => /\ next[c] \in Rest /\ prev[next[c]] = c
                                   /\ index[next[c]] = index[c] + 1
              /\ next[c] = Null => \A d \in Rest : index[d] <= index[c]
              /\ c # next[HeadCell] => prev[c] \in Rest /\ next[prev[c]] = c
              /\ index[next[HeadCell]] <= index[c]
  <2>1. Neighbours(c) /\ c # HeadCell /\ c # Null /\ c \in Linked
    BY <1>3, <1>5 DEF Linked
  <2>2. next[c] # Null => /\ next[c] \in Rest /\ prev[next[c]] = c
                          /\ index[next[c]] = index[c] + 1
    <3> SUFFICES ASSUME next[c] # Null
                 PROVE  /\ next[c] \in Rest /\ prev[next[c]] = c
                        /\ index[next[c]] = index[c] + 1
      OBVIOUS
    <3>1. next[c] \in Linked /\ prev[next[c]] = c
      BY <2>1 DEF Neighbours
    <3>2. next[c] # HeadCell
      BY <1>1, <2>1, <3>1 DEF ListInv, Ends
    <3>3. Neighbours(next[c])
      BY <1>1, <3>1 DEF ListInv
    <3> QED  BY <1>3, <3>1, <3>2, <3>3 DEF Neighbours
  <2>3. next[c] = Null => \A d \in Rest : index[d] <= index[c]
    BY <1>5, <2>1 DEF Neighbours
  <2>4. c # next[HeadCell] => prev[c] \in Rest /\ next[prev[c]] = c
    BY <1>3, <2>1 DEF Neighbours
  <2>5. index[next[HeadCell]] <= index[c]
    <3>1. next[HeadCell] # Null
      BY <1>9
    <3> QED  BY <1>7, <1>8, <3>1
  <2> QED  BY <2>2, <2>3, <2>4, <2>5
<1> QED
  <2>1. HeadCell \in heap' /\ next'[HeadCell] = Null /\ prev'[HeadCell] = Null
    BY <1>1, <1>2 DEF ListInv, Ends
  <2>2. doomed' = Null => Rest' = {}
    BY <1>2, <1>3, <1>9
  <2>3. doomed' # Null => doomed' \in Rest' /\ prev'[doomed'] \notin Rest'
    BY <1>2, <1>3, <1>8
  <2>4. \A c \in Rest' :
          /\ next'[c] # Null => /\ next'[c] \in Rest' /\ prev'[next'[c]] = c
                                /\ index'[next'[c]] = index'[c] + 1
          /\ next'[c] = Null => \A d \in Rest' : index'[d] <= index'[c]
          /\ c # doomed' => prev'[c] \in Rest' /\ next'[prev'[c]] = c
          /\ index'[doomed'] <= index'[c]
    <3> SUFFICES ASSUME NEW c \in Rest
                 PROVE  /\ next'[c] # Null => /\ next[c] \in Rest /\ prev[next[c]] = c
                                              /\ index[next[c]] = index[c] + 1
                        /\ next'[c] = Null => \A d \in Rest : index[d] <= index[c]
                        /\ c # next[HeadCell] => prev[c] \in Rest /\ next'[prev[c]] = c
                        /\ index[next[HeadCell]] <= index[c]
      BY <1>2, <1>3, <1>5
    <3> QED  BY <1>3, <1>5, <1>10
  <2> QED  BY <1>2, <1>3, <1>4, <1>6, <2>1, <2>2, <2>3, <2>4 DEF DoomInv

\* One turn of destroyCells deletes the first of the doomed cells; when none
\* is left it returns.
LEMMA DestroyStep ==
  ASSUME IInv, DestroyCells
  PROVE  Locals' /\ (Whole' => ListInv') /\ (pc' = "destroy" => DoomInv')
         /\ (pc' = "ended" => heap' = {})
<1> USE CellAssumption DEF IInv, TypeOK
<1>1. /\ pc = "destroy" /\ DoomInv /\ limbo = Null /\ fresh = Null
      /\ ret \in {"idle", "ended"} /\ UNCHANGED <<cur, fresh, limbo, answer>>
  BY DEF DestroyCells, Locals
<1>2. CASE doomed # Null
  <2>1. /\ Free(doomed) /\ doomed' = next[doomed]
        /\ UNCHANGED <<pc, purpose, todo, line, ret>>
    BY <1>2 DEF DestroyCells
  <2>2. /\ doomed \in Rest /\ doomed # HeadCell /\ doomed \in Cell
        /\ Rest' = Rest \ {doomed}
    BY <1>1, <1>2, <2>1 DEF DoomInv, Rest, Free
  <2>3. \A d \in Cell \ {doomed} :
          /\ next'[d] = next[d] /\ prev'[d] = prev[d] /\ index'[d] = index[d]
          /\ word'[d] = word[d] /\ refs'[d] = refs[d]
    BY <2>1, <2>2 DEF Free
  <2>4. Locals' /\ pc' = "destroy"
    BY <1>1, <2>1 DEF Locals, Whole
  <2>5. DoomInv'
    <3>1. /\ HeadCell \in heap' /\ next'[HeadCell] = Null /\ refs'[HeadCell] = {}
          /\ word'[HeadCell] = <<>> /\ index'[HeadCell] = 0
          /\ prev'[HeadCell] = Null
          /\ ret' = "idle" => cur' = HeadCell
      BY <1>1, <2>1, <2>2, <2>3 DEF DoomInv, Free
    <3>2. doomed' = Null => Rest' = {}
      <4>1. next[doomed] = Null => \A d \in Rest : index[d] = index[doomed]
        <5>1. next[doomed] = Null => \A d \in Rest : index[d] <= index[doomed]
          BY <1>1, <2>2 DEF DoomInv
        <5>2. \A d \in Rest : index[doomed] <= index[d] /\ index[d] \in Int
                              /\ index[doomed] \in Int
          BY <1>1, <2>2 DEF DoomInv, Rest
        <5> QED  BY <5>1, <5>2
      <4>2. next[doomed] = Null => \A d \in Rest : d = doomed
        BY <1>1, <2>2, <4>1 DEF DoomInv
      <4> QED  BY <2>1, <2>2, <4>2
    <3>3. next[doomed] # Null =>
            /\ next[doomed] \in Rest' /\ next[doomed] # doomed
            /\ prev[next[doomed]] = doomed
            /\ index[next[doomed]] = index[doomed] + 1
      <4>1. next[doomed] # Null =>
              /\ next[doomed] \in Rest /\ prev[next[doomed]] = doomed
              /\ index[next[doomed]] = index[doomed] + 1
        BY <1>1, <2>2 DEF DoomInv
      <4>2. index[doomed] \in Nat
        BY <2>2
      <4> QED  BY <2>2, <4>1, <4>2
    <3>4. doomed' # Null => doomed' \in Rest' /\ prev'[doomed'] \notin Rest'
      BY <2>1, <2>2, <2>3, <3>3 DEF Rest
    <3>5. ASSUME NEW c \in Rest'
          PROVE  /\ next'[c] # Null => /\ next'[c] \in Rest' /\ prev'[next'[c]] = c
                                       /\ index'[next'[c]] = index'[c] + 1
                 /\ next'[c] = Null => \A d \in Rest' : index'[d] <= index'[c]
                 /\ c # doomed' => prev'[c] \in Rest' /\ next'[prev'[c]] = c
                 /\ index'[doomed'] <= index'[c]
      <4>1. /\ c \in Rest /\ c # doomed /\ c \in Cell
            /\ next'[c] = next[c] /\ prev'[c] = prev[c] /\ index'[c] = index[c]
        BY <2>2, <2>3 DEF Rest
      <4>2. /\ next[c] # Null => /\ next[c] \in Rest /\ prev[next[c]] = c
                                 /\ index[next[c]] = index[c] + 1
            /\ next[c] = Null => \A d \in Rest : index[d] <= index[c]
            /\ prev[c] \in Rest /\ next[prev[c]] = c
            /\ index[doomed] <= index[c]
            /\ prev[doomed] \notin Rest
        BY <1>1, <1>2, <4>1 DEF DoomInv
      <4>3. next[c] # Null => next[c] # doomed
        BY <4>1, <4>2
      <4>4. c # next[doomed] => prev[c] # doomed
        BY <4>2
      <4>5. index[next[doomed]] <= index[c]
        <5>1. next[doomed] # Null
          BY <2>1, <3>2
        <5>2. index[c] # index[doomed]
          BY <1>1, <2>2, <4>1 DEF DoomInv
        <5> QED  BY <2>2, <3>3, <4>1, <4>2, <5>1, <5>2
      <4>6. next'[c] # Null => /\ next'[c] \in Rest' /\ prev'[next'[c]] = c
                               /\ index'[next'[c]] = index'[c] + 1
        BY <2>2, <2>3, <4>1, <4>2, <4>3 DEF Rest
      <4>7. next'[c] = Null => \A d \in Rest' : index'[d] <= index'[c]
        BY <2>2, <2>3, <4>1, <4>2 DEF Rest
      <4>8. c # doomed' => prev'[c] \in Rest' /\ next'[prev'[c]] = c
        BY <2>1, <2>2, <2>3, <4>1, <4>2, <4>4 DEF Rest
      <4>9. index'[doomed'] <= index'[c]
        BY <2>1, <2>2, <2>3, <3>2, <3>3, <4>1, <4>5 DEF Rest
      <4> QED  BY <4>6, <4>7, <4>8, <4>9
    <3>6. \A c, d \in Rest' : index'[c] = index'[d] => c = d
      BY <1>1, <2>2, <2>3 DEF DoomInv, Rest
    <3> QED  BY <3>1, <3>2, <3>4, <3>5, <3>6 DEF DoomInv
  <2> QED  BY <2>4, <2>5 DEF Whole
<1>3. CASE doomed = Null
  <2>1. Rest = {} /\ heap = {HeadCell} /\ UNCHANGED doomed
    BY <1>1, <1>3 DEF DoomInv, Rest, DestroyCells
  <2>2. CASE ret = "idle"
    <3>1. Return /\ UNCHANGED chain /\ cur = HeadCell
      BY <1>1, <1>3, <2>2 DEF DestroyCells, DoomInv
    <3>2. Locals' /\ Whole' /\ pc' = "idle"
      BY <1>1, <1>3, <2>1, <3>1 DEF Locals, Whole, Return
    <3>3. Linked' = {HeadCell} /\ ~LookingAhead'
      BY <1>1, <2>1, <3>1 DEF Linked, chain, Return, LookingAhead
    <3>4. /\ next'[HeadCell] = Null /\ word'[HeadCell] = <<>>
          /\ index'[HeadCell] = 0 /\ refs'[HeadCell] = {}
          /\ prev'[HeadCell] = Null /\ cur' = HeadCell
      BY <1>1, <3>1 DEF DoomInv, chain
    <3>5. Neighbours(HeadCell)'
      BY <3>3, <3>4, EmptyFacts DEF Neighbours
    <3>6. Ends' /\ Distinct' /\ Gapless'
      BY <3>3, <3>4 DEF Ends, Distinct, Gapless
    <3>7. ListInv'
      BY <3>3, <3>5, <3>6 DEF ListInv
    <3> QED  BY <3>2, <3>7
  <2>3. CASE ret = "ended"
    <3>1. Free(HeadCell) /\ pc' = "ended" /\ UNCHANGED <<purpose, todo, line, ret>>
      BY <1>1, <1>3, <2>3 DEF DestroyCells
    <3>2. Locals' /\ heap' = {}
      BY <1>1, <1>3, <2>1, <2>3, <3>1 DEF Locals, Whole, Free
    <3> QED  BY <3>1, <3>2 DEF Whole
  <2> QED  BY <1>1, <2>2, <2>3
<1> QED  BY <1>2, <1>3

-----------------------------------------------------------------------------
LEMMA Inductive == IInv /\ [Next]_vars => IInv'
<1> SUFFICES ASSUME IInv, [Next]_vars PROVE IInv'
  OBVIOUS
<1>1. TypeOK'
  BY TypeStep
<1>2. CASE \/ \E inputs \in Batches : Parse(inputs)
           \/ GetCurrentMaxAlpha \/ GetPrediction \/ GetViterbiParse
           \/ NextInput \/ ReadPrediction
  BY <1>1, <1>2, StillStep DEF IInv, Whole
<1>3. CASE Scan \/ Link \/ Fill \/ Backtrack \/ Discard
  BY <1>1, <1>3, ScanStep, LinkStep, FillStep, BacktrackStep, DiscardStep
     DEF IInv, Whole
<1>4. CASE Reset \/ Close
  BY <1>1, <1>4, CutStep DEF IInv, Whole
<1>5. CASE DestroyCells
  BY <1>1, <1>5, DestroyStep DEF IInv
<1>6. CASE Ended \/ UNCHANGED vars
  <2>1. UNCHANGED vars
    BY <1>6 DEF Ended
  <2>2. Locals' /\ (Whole' => ListInv') /\ (pc' = "destroy" => DoomInv')
        /\ (pc' = "ended" => heap' = {})
    BY <2>1 DEF IInv, Locals, Whole, ListInv, Ends, Distinct, Gapless, Linked,
                Neighbours, LookingAhead, DoomInv, Rest, vars, chain, call
  <2> QED  BY <1>1, <2>2 DEF IInv
<1> QED
  BY <1>2, <1>3, <1>4, <1>5, <1>6 DEF Next, Calls, Steps

\* The invariant holds throughout, whatever the cells, inputs and bounds.
THEOREM Invariant == Spec => []IInv
<1> QED  BY InitInv, Inductive, PTL DEF Spec

\* Every variable keeps its type: in particular currentCell_ is never NULL.
THEOREM TypeCorrect == Spec => []TypeOK
<1>1. IInv => TypeOK
  BY DEF IInv
<1> QED  BY Invariant, <1>1, PTL

\* No pointer the code follows is dangling, children included.
THEOREM NothingDangles == Spec => []NoDangling
<1>1. IInv => NoDangling
  <2> SUFFICES ASSUME IInv PROVE NoDangling
    OBVIOUS
  <2> USE CellAssumption DEF IInv, TypeOK
  <2>1. CASE Whole
    <3>1. ListInv /\ HeadCell \in heap /\ cur \in heap
      BY <2>1 DEF ListInv, Ends, Linked
    <3>2. {fresh, limbo, doomed} \subseteq heap \cup {Null}
      BY <2>1 DEF Locals
    <3>3. ASSUME NEW c \in heap
          PROVE  refs[c] \subseteq heap /\ next[c] \in heap \cup {Null}
      <4>1. CASE c \in Linked
        BY <3>1, <4>1 DEF ListInv, Neighbours, Linked
      <4>2. CASE c \notin Linked
        <5>1. c = fresh \/ c = limbo
          BY <4>2 DEF Linked
        <5>2. refs[cur] \subseteq heap
          BY <3>1 DEF ListInv, Ends, Neighbours, Linked
        <5> QED  BY <5>1, <5>2, <3>1 DEF Locals
      <4> QED  BY <4>1, <4>2
    <3> QED  BY <2>1, <3>1, <3>2, <3>3 DEF NoDangling, Closing, Whole
  <2>2. CASE pc = "destroy"
    BY <2>2 DEF NoDangling, Closing, DoomInv, Rest, Locals
  <2>3. CASE pc = "ended"
    BY <2>3 DEF NoDangling, Closing, Locals
  <2> QED  BY <2>1, <2>2, <2>3 DEF Whole
<1> QED  BY Invariant, <1>1, PTL

\* The chain is a gapless doubly linked list ending in the current cell.
THEOREM ChainIsAList == Spec => []ChainOK
<1>1. IInv => ChainOK
  BY DEF IInv, ChainOK, Whole, ListInv, Ends, Neighbours, Gapless
<1> QED  BY Invariant, <1>1, PTL

\* No query and no reset leaks a cell, and the destructor frees them all.
THEOREM NothingLeaks == Spec => []NoLeak
<1>1. IInv => NoLeak
  <2> SUFFICES ASSUME IInv PROVE NoLeak
    OBVIOUS
  <2>1. CASE pc = "idle"
    <3>1. Linked = heap /\ ListInv
      BY <2>1, CellAssumption DEF IInv, TypeOK, Locals, Whole, Linked
    <3> QED  BY <2>1, <3>1 DEF NoLeak, ListInv, Distinct, Neighbours
  <2>2. CASE pc # "idle"
    BY <2>2 DEF IInv, NoLeak
  <2> QED  BY <2>1, <2>2
<1> QED  BY Invariant, <1>1, PTL

-----------------------------------------------------------------------------
\* Each step of the chain is a step of the session or changes nothing there.
LEMMA AbstractInit == Init => Abstract!Init
<1> SUFFICES ASSUME Init PROVE Abstract!Init
  OBVIOUS
<1>1. History = <<>>
  BY CellAssumption DEF Init, History, Closing, LookingAhead
<1>2. answer = NoAnswer /\ answer.query = "none"
  BY DEF Init, NoAnswer
<1>3. Answered = NoAnswer
  BY <1>2 DEF Answered
<1> QED  BY <1>1, <1>3 DEF Abstract!Init

\* A step that moves neither the current cell nor its word, nor the answer,
\* is invisible to the client.
LEMMA Invisible ==
  ASSUME UNCHANGED <<History, answer>>
  PROVE  UNCHANGED Abstract!svars
BY DEF Abstract!svars, Answered

LEMMA AbstractLink ==
  ASSUME IInv, Link
  PROVE  [Abstract!Next]_(Abstract!svars)
<1> USE CellAssumption DEF IInv, TypeOK
<1>1. /\ Whole /\ ListInv /\ pc = "link" /\ cur \in Linked
      /\ fresh \in heap \ {HeadCell, cur, Null}
      /\ word[fresh] = Append(word[cur], line)
  BY DEF Link, Whole, Locals, ListInv, Ends
<1>2. next[cur] = Null
  BY <1>1 DEF ListInv, Neighbours
<1>3. /\ cur' = fresh /\ pc' = "fill"
      /\ UNCHANGED <<word, purpose, line, ret, answer>>
  BY <1>2 DEF Link
<1>4. History = word[cur] /\ Answered' = Answered
  BY <1>1, <1>3 DEF History, Closing, LookingAhead, Answered
<1>5. CASE purpose = "parse"
  <2>1. History' = Append(word[cur], line)
    BY <1>1, <1>3, <1>5 DEF History, Closing, LookingAhead
  <2>2. line \in Known
    BY <1>1, <1>5 DEF Locals
  <2>3. Abstract!Accept(line)
    BY <1>4, <2>1 DEF Abstract!Accept
  <2> QED  BY <2>2, <2>3 DEF Abstract!Next
<1>6. CASE purpose # "parse"
  <2>1. History' = ButLast(Append(word[cur], line))
    BY <1>1, <1>3, <1>6 DEF History, Closing, LookingAhead
  <2>2. History' = History
    BY <1>4, <2>1, ButLastAppend
  <2> QED  BY <1>4, <2>2 DEF Abstract!svars
<1> QED  BY <1>5, <1>6

LEMMA AbstractStep ==
  ASSUME IInv, [Next]_vars
  PROVE  [Abstract!Next]_(Abstract!svars)
<1> USE CellAssumption DEF IInv, TypeOK
<1>1. CASE (\E inputs \in Batches : Parse(inputs)) \/ NextInput
           \/ GetPrediction \/ GetViterbiParse
  <2>1. UNCHANGED <<word, cur, answer>> /\ pc \in {"idle", "batch"}
        /\ pc' \in {"idle", "batch", "scan"}
    BY <1>1 DEF Parse, NextInput, Return, GetPrediction, GetViterbiParse, chain
  <2>2. UNCHANGED <<History, answer>>
    BY <2>1 DEF History, Closing, LookingAhead
  <2> QED  BY <2>2, Invisible
<1>2. CASE GetCurrentMaxAlpha
  <2>1. /\ pc = "idle" /\ UNCHANGED <<word, cur, pc, purpose, ret>>
        /\ answer' = [query |-> "maxAlpha", of |-> word[cur]]
    BY <1>2 DEF GetCurrentMaxAlpha, chain, call
  <2>2. History = word[cur] /\ History' = History
    BY <2>1 DEF History, Closing, LookingAhead
  <2>3. Answered' = [query |-> "maxAlpha", of |-> History]
    BY <2>1, <2>2 DEF Answered
  <2>4. Abstract!Ask("maxAlpha")
    BY <2>2, <2>3 DEF Abstract!Ask
  <2> QED  BY <2>4 DEF Abstract!Next, Queries
<1>3. CASE ReadPrediction
  <2>1. /\ pc = "read" /\ pc' = "backtrack" /\ purpose = "prediction"
        /\ UNCHANGED <<word, cur, purpose, ret>>
        /\ answer' = [query |-> "prediction", of |-> word[cur]]
    BY <1>3 DEF ReadPrediction, chain, call, Locals
  <2>2. History = ButLast(word[cur]) /\ History' = History
    BY <2>1 DEF History, Closing, LookingAhead
  <2>3. Answered' = [query |-> "prediction", of |-> History]
    BY <2>1, <2>2 DEF Answered
  <2>4. Abstract!Ask("prediction")
    BY <2>2, <2>3 DEF Abstract!Ask
  <2> QED  BY <2>4 DEF Abstract!Next, Queries
<1>4. CASE Scan
  <2>1. UNCHANGED <<cur, answer, ret>> /\ pc = "scan" /\ pc' = "link"
        /\ word'[cur] = word[cur]
    <3>1. cur \in heap
      BY <1>4 DEF Scan, Whole, ListInv, Ends, Linked
    <3> QED  BY <1>4, <3>1 DEF Scan
  <2>2. UNCHANGED <<History, answer>>
    BY <2>1 DEF History, Closing, LookingAhead
  <2> QED  BY <2>2, Invisible
<1>5. CASE Link
  BY <1>5, AbstractLink
<1>6. CASE Fill
  <2>1. UNCHANGED <<word, cur, answer, purpose>> /\ pc = "fill"
        /\ pc' = CASE purpose = "parse" -> "batch"
                   [] purpose = "prediction" -> "read"
                   [] purpose = "viterbi" -> "backtrack"
    BY <1>6 DEF Fill, call
  <2>2. UNCHANGED <<History, answer>>
    BY <2>1 DEF History, Closing, LookingAhead
  <2> QED  BY <2>2, Invisible
<1>7. CASE Backtrack
  <2>1. /\ pc = "backtrack" /\ purpose # "parse" /\ cur # HeadCell
        /\ word[cur] = Append(word[prev[cur]], line) /\ prev[cur] \in Cell
    BY <1>7 DEF Backtrack, Locals, Whole, ListInv, Ends, Neighbours, Linked
  <2>2. cur' = prev[cur] /\ pc' = "discard" /\ UNCHANGED <<word, answer>>
    BY <1>7, <2>1 DEF Backtrack
  <2>3. ButLast(word[cur]) = word[prev[cur]]
    BY <2>1, ButLastAppend
  <2>4. UNCHANGED <<History, answer>>
    BY <2>1, <2>2, <2>3 DEF History, Closing, LookingAhead
  <2> QED  BY <2>4, Invisible
<1>8. CASE Discard
  <2>1. /\ pc = "discard" /\ pc' = "idle" /\ cur' = cur
        /\ limbo # Null /\ limbo # cur /\ word[limbo] = Append(word[cur], line)
        /\ word'[cur] = word[cur]
        /\ answer' = IF purpose = "viterbi"
                       THEN [query |-> "viterbi", of |-> word[limbo]] ELSE answer
    BY <1>8 DEF Discard, Return, Free, Locals
  <2>2. History = word[cur] /\ History' = word[cur]
    BY <2>1 DEF History, Closing, LookingAhead
  <2>3. CASE purpose = "viterbi"
    <3>1. ButLast(word[limbo]) = word[cur]
      BY <2>1, ButLastAppend
    <3>2. Answered' = [query |-> "viterbi", of |-> History]
      BY <2>1, <2>2, <2>3, <3>1 DEF Answered
    <3>3. Abstract!Ask("viterbi")
      BY <2>2, <3>2 DEF Abstract!Ask
    <3> QED  BY <3>3 DEF Abstract!Next, Queries
  <2>4. CASE purpose # "viterbi"
    BY <2>1, <2>2, <2>4, Invisible
  <2> QED  BY <2>3, <2>4
<1>9. CASE Reset \/ Close
  <2>1. /\ pc = "idle" /\ pc' = "destroy" /\ UNCHANGED <<word, answer>>
        /\ (ret' = "idle" /\ cur' = HeadCell) \/ ret' = "ended"
    BY <1>9 DEF Reset, Close, DestroyAfterHead
  <2>2. word[HeadCell] = <<>>
    BY <2>1 DEF Whole, ListInv, Ends
  <2>3. History' = <<>>
    BY <2>1, <2>2 DEF History, Closing, LookingAhead
  <2>4. Answered' = Answered
    BY <2>1 DEF Answered
  <2> QED  BY <2>3, <2>4 DEF Abstract!Next, Abstract!Forget
<1>10. CASE DestroyCells
  <2>1. /\ pc = "destroy" /\ UNCHANGED <<cur, answer>>
        /\ ret \in {"idle", "ended"} /\ ret' = ret /\ pc' \in {"destroy", ret}
    BY <1>10 DEF DestroyCells, Return, Locals
  <2>2. ret = "idle" => word[cur] = <<>> /\ word'[cur] = <<>>
    <3>1. DoomInv
      BY <2>1
    <3>2. ret = "idle" => cur = HeadCell /\ word[cur] = <<>>
      BY <3>1 DEF DoomInv
    <3>3. ret = "idle" => (Free(doomed) /\ doomed # HeadCell) \/ UNCHANGED word
      BY <1>10, <2>1, <3>1 DEF DestroyCells, chain, DoomInv, Rest
    <3> QED  BY <3>2, <3>3 DEF Free
  <2>3. UNCHANGED <<History, answer>>
    BY <2>1, <2>2 DEF History, Closing, LookingAhead
  <2> QED  BY <2>3, Invisible
<1>11. CASE Ended \/ UNCHANGED vars
  BY <1>11 DEF Ended, vars, chain, call, History, Closing, LookingAhead,
               Abstract!svars, Answered
<1> QED
  BY <1>1, <1>2, <1>3, <1>4, <1>5, <1>6, <1>7, <1>8, <1>9, <1>10, <1>11
     DEF Next, Calls, Steps

\* The chain of cells implements the session.
THEOREM ChainImplementsSession == Spec => ImplementsSession
<1>1. IInv /\ [Next]_vars => [Abstract!Next]_(Abstract!svars)
  BY AbstractStep
<1> QED
  BY AbstractInit, Invariant, <1>1, PTL DEF Spec, ImplementsSession, Abstract!Spec
=============================================================================
