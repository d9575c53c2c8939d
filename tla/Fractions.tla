----------------------------- MODULE Fractions -----------------------------
(***************************************************************************)
(* Fractions <<numerator, denominator>>, in lowest terms, for the amounts  *)
(* and ratios the program keeps in float64 variables (rounding is left     *)
(* out).  A denominator of 0 stands for what a division by zero gives, an  *)
(* infinity or a NaN, and stays 0 in whatever is computed from it.         *)
(***************************************************************************)
EXTENDS Integers, Functions

Abs(i) == IF i < 0 THEN -i ELSE i

gcd[p \in Nat \X Nat] == IF p[2] = 0 THEN p[1] ELSE gcd[<<p[2], p[1] % p[2]>>]

Frac(n, d) ==
  IF d = 0 THEN <<1, 0>>
  ELSE LET g == gcd[<<Abs(n), Abs(d)>>]
       IN  IF d > 0 THEN <<n \div g, d \div g>> ELSE <<(-n) \div g, (-d) \div g>>

Whole(i) == <<i, 1>>
Zero == Whole(0)
One == Whole(1)
IsFinite(x) == x[2] # 0

x (+) y == Frac(x[1] * y[2] + y[1] * x[2], x[2] * y[2])
x (-) y == Frac(x[1] * y[2] - y[1] * x[2], x[2] * y[2])
x (.) y == Frac(x[1] * y[1], x[2] * y[2])
x (/) y == IF IsFinite(y) THEN Frac(x[1] * y[2], x[2] * y[1]) ELSE y

\* The sum of the values of a function.
SumOf(f) == FoldFunction(LAMBDA x, y : x (+) y, Zero, f)
=============================================================================
