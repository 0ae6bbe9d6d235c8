--------------------------- MODULE MCIntervalDivision --------------------------
(* Small divisors and numerators of every size relative to them: negative, *)
(* smaller, equal, exact powers of two and the numbers next to them.       *)
EXTENDS IntervalDivision

MCNumerators == -3 .. 35
MCDivisors == 0 .. 4
================================================================================
