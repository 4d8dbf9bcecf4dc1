------------------------------- MODULE Rationals -------------------------------
(* Exact fractions <<numerator, denominator>> in lowest terms, for the        *)
(* Decimal amounts of the code, whose 28 digits no property here reaches.     *)
EXTENDS Integers, SequencesExt

GCD(a, b) == LET gcd[x \in Nat, y \in Nat] == IF y = 0 THEN x ELSE gcd[y, x % y]
             IN  gcd[a, b]

Abs(n) == IF n < 0 THEN -n ELSE n

Ratio(n, d) == LET g == GCD(Abs(n), d) IN <<n \div g, d \div g>>

Int2Ratio(n) == <<n, 1>>

\* Common factors go first, so that the numbers stay small.
Plus(x, y) == LET g == GCD(x[2], y[2])
              IN  Ratio(x[1] * (y[2] \div g) + y[1] * (x[2] \div g), x[2] * (y[2] \div g))
Minus(x, y) == Plus(x, <<-y[1], y[2]>>)
Times(x, y) == LET p == Ratio(x[1], y[2])
                   q == Ratio(y[1], x[2])
               IN  <<p[1] * q[1], p[2] * q[2]>>
Over(x, y) == Times(x, <<y[2], y[1]>>)   \* y > 0

AtMost(x, y) == Minus(x, y)[1] <= 0
Below(x, y) == Minus(x, y)[1] < 0
Least(x, y) == IF AtMost(x, y) THEN x ELSE y
Greatest(x, y) == IF AtMost(x, y) THEN y ELSE x

Ceiling(x) == Int2Ratio(-((-x[1]) \div x[2]))

\* The sum of Op over a finite set.
SumOver(Op(_), S) == FoldSet(LAMBDA e, sum : Plus(Op(e), sum), Int2Ratio(0), S)
================================================================================
