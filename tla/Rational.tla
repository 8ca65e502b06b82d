------------------------------ MODULE Rational ------------------------------
(***************************************************************************)
(* Exact fractions <<numerator, denominator>> in lowest terms with a       *)
(* positive denominator, so that equal numbers are equal values.  They     *)
(* stand for the doubles of the code, whose rounding is not modelled.  The *)
(* arithmetic is functions, whose arguments TLC evaluates once.            *)
(***************************************************************************)
EXTENDS Integers

Rat == Int \X (Nat \ {0})
LOCAL Abs(n) == IF n < 0 THEN -n ELSE n

LOCAL gcd[m \in Nat, n \in Nat] == IF n = 0 THEN m ELSE gcd[n, m % n]

LOCAL frac[m \in Int, n \in Nat \ {0}] ==
  LET d == gcd[Abs(m), n] IN <<IF m < 0 THEN -(Abs(m) \div d) ELSE m \div d, n \div d>>

\* The denominators are brought to their least common multiple.
LOCAL plus[p \in Rat, q \in Rat] ==
  LET d == gcd[p[2], q[2]]
  IN frac[p[1] * (q[2] \div d) + q[1] * (p[2] \div d), (p[2] \div d) * q[2]]

\* Factors are cancelled crosswise first, which keeps the products small.
LOCAL times[p \in Rat, q \in Rat] ==
  LET a == frac[p[1], q[2]]
      b == frac[q[1], p[2]]
  IN <<a[1] * b[1], a[2] * b[2]>>

LOCAL inverse[p \in Rat] == IF p[1] < 0 THEN <<-p[2], -p[1]>> ELSE <<p[2], p[1]>>

RatZero == <<0, 1>>
RatOne == <<1, 1>>
RatPlus(p, q) == plus[p, q]
RatMinus(p, q) == plus[p, <<-q[1], q[2]>>]
RatTimes(p, q) == times[p, q]
RatRatio(p, q) == times[p, inverse[q]]
RatLess(p, q) == RatMinus(p, q)[1] < 0
=============================================================================
