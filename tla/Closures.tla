------------------------------ MODULE Closures ------------------------------
(***************************************************************************)
(* SGrammar::ComputeClosures: the left corner and unit relations of a      *)
(* grammar and their transitive reflexive closures, as matrices of exact   *)
(* fractions indexed by nonterminals.  Eigen's inverse is modelled by      *)
(* Gauss-Jordan elimination.                                               *)
(***************************************************************************)
EXTENDS Rational, SequencesExt

LOCAL Lhs(rules) == {rules[r].lhs : r \in DOMAIN rules}

LOCAL SumOver(rules, Test(_)) ==
  FoldLeft(LAMBDA sum, r : IF Test(r) THEN RatPlus(sum, r.prob) ELSE sum,
           RatZero, rules)

\* The probability of rewriting X into a string that begins with Y ...
Pl(rules) ==
  [X \in Lhs(rules) |-> [Y \in Lhs(rules) |->
     SumOver(rules, LAMBDA r : r.lhs = X /\ Head(r.rhs) = Y)]]

\* ... and into Y alone.
Pu(rules) ==
  [X \in Lhs(rules) |-> [Y \in Lhs(rules) |->
     SumOver(rules, LAMBDA r : r.lhs = X /\ r.rhs = <<Y>>)]]

LOCAL Delta(X, Y) == IF X = Y THEN RatOne ELSE RatZero

\* f itself, which TLC tabulates when it adds the empty function to it.
LOCAL Table(f) == f @@ <<>>

\* No row of I - P sums to less than zero, so that elimination needs no row
\* exchanges unless the matrix is singular: the code then computes with
\* infinities and NaNs, for which the empty matrix stands.
Singular == <<>>

\* One column of the elimination on [I - P | I].
LOCAL Eliminate(rows, Z) ==
  IF rows = Singular \/ rows[Z].left[Z] = RatZero THEN Singular
  ELSE LET scaled(side) == Table([Y \in DOMAIN rows |->
                                    RatRatio(rows[Z][side][Y], rows[Z].left[Z])])
           minus(X, side) == Table([Y \in DOMAIN rows |->
                               RatMinus(rows[X][side][Y],
                                        RatTimes(rows[X].left[Z], scaled(side)[Y]))])
           row(X, side) == IF X = Z THEN scaled(side) ELSE minus(X, side)
       IN Table([X \in DOMAIN rows |->
                   [left |-> row(X, "left"), right |-> row(X, "right")]])

\* SGrammar::MakeR: (I - P)^-1
MakeR(P) ==
  LET N == DOMAIN P
      rows == [X \in N |->
                 [left  |-> [Y \in N |-> RatMinus(Delta(X, Y), P[X][Y])],
                  right |-> [Y \in N |-> Delta(X, Y)]]]
      done == FoldLeft(Eliminate, rows, SetToSeq(N))
  IN IF done = Singular THEN Singular ELSE Table([X \in N |-> done[X].right])
=============================================================================
