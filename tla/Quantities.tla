----------------------------- MODULE Quantities -----------------------------
(***************************************************************************)
(* What the expression language and the layout of a lesson share: a value  *)
(* that may be absent, the name of the answer, and how numbers and         *)
(* rationals <<numerator, denominator>>, of positive denominators,         *)
(* compare.                                                                *)
(***************************************************************************)
EXTENDS Integers

CONSTANT None  \* an absent field, part, index or value

ASSUME NoneAssumption == None \notin Int

\* The answer of a lesson is a visual of this name.
Answer == "evaluated_answer"

Least(a, b) == IF a < b THEN a ELSE b

Most(a, b) == IF a > b THEN a ELSE b

Magnitude(n) == IF n < 0 THEN -n ELSE n

Less(p, q) == p[1] * q[2] < q[1] * p[2]

AtMost(p, q) == ~Less(q, p)

Smaller(p, q) == IF Less(q, p) THEN q ELSE p
=============================================================================
