--------------------------------- MODULE Int64 --------------------------------
(***************************************************************************)
(* The integers of Foo: int64_t, with the results that do not fit refused  *)
(* rather than wrapped.  MaxInt stands for INT64_MAX, so that a small      *)
(* instance has its overflows within reach.                                *)
(***************************************************************************)
EXTENDS Integers

CONSTANT MaxInt  \* INT64_MAX

MinInt == -MaxInt - 1

Magnitude(n) == IF n < 0 THEN -n ELSE n

(* C division truncates towards zero. *)
Quotient(l, r) ==
  IF (l < 0) = (r < 0) THEN Magnitude(l) \div Magnitude(r)
                       ELSE -(Magnitude(l) \div Magnitude(r))

(* Mutant: the last digit is not part of the comparison. *)
TooLargeButForDigit(value, digit) == value > MaxInt \div 10

(* parse_integer's test whether another digit makes a literal too large *)
TooLarge(value, digit) == value > (MaxInt - digit) \div 10
===============================================================================
