------------------------------ MODULE Rationals ------------------------------
(***************************************************************************)
(* The exact arithmetic of expressions (fractions.Fraction in              *)
(* dsl/expression.py): rationals <<numerator, denominator>> in lowest      *)
(* terms, and the literals that hold them.                                 *)
(***************************************************************************)
EXTENDS Quantities

\* Euclid's algorithm.
CommonDivisor(a, b) ==
    LET divisor[p \in Nat \X Nat] == IF p[2] = 0 THEN p[1] ELSE divisor[<<p[2], p[1] % p[2]>>]
    IN  divisor[<<a, b>>]

\* The rational n/d, for d # 0.
Ratio(n, d) ==
    LET g == CommonDivisor(Magnitude(n), Magnitude(d))
        sign == IF d < 0 THEN -1 ELSE 1
    IN  <<sign * (n \div g), Magnitude(d) \div g>>

Plus(p, q) == Ratio(p[1] * q[2] + q[1] * p[2], p[2] * q[2])

Minus(p, q) == Ratio(p[1] * q[2] - q[1] * p[2], p[2] * q[2])

Times(p, q) == Ratio(p[1] * q[1], p[2] * q[2])

Over(p, q) == Ratio(p[1] * q[2], p[2] * q[1])

Whole_(p) == p[2] = 1

Lit(n) == [node |-> "literal", value |-> <<n, 1>>]
=============================================================================
