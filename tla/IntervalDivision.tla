--------------------------- MODULE IntervalDivision ----------------------------
(***************************************************************************)
(* mpas_interval_division (framework/mpas_timekeeping.F), step by step:    *)
(* how many intervals den fit into the interval num, and what is left.  It *)
(* multiplies, adds and compares, but never divides, intervals.  Times are *)
(* relative to ref_time; calendar intervals are not modelled.              *)
(***************************************************************************)
EXTENDS Alarms

CONSTANTS
  Numerators,  (* bound: the intervals that are divided, negative ones included *)
  Divisors,    (* bound: the intervals they are divided by                      *)
  MaxCount     (* bound: where the history of the number of passes stops       *)

ASSUME InputAssumption ==
  Numerators \subseteq Int /\ Divisors \subseteq Nat /\ MaxCount \in Nat

VARIABLES
  num, den,    (* the arguments                                                *)
  n,           (* the quotient being built                                     *)
  m,           (* the number of intervals tried next                           *)
  updated,     (* updated_time - ref_time                                      *)
  rem,         (* the remainder                                                *)
  iterations,  (* history: passes through the two loops, counted to MaxCount   *)
  pc

vars == <<num, den, n, m, updated, rem, iterations, pc>>

Init ==
  /\ num \in Numerators
  /\ den \in Divisors
  /\ n = 0 /\ m = 0 /\ updated = 0 /\ rem = 0 /\ iterations = 0
  /\ pc = "start"

(* The cases that need no search: a zero divisor, one interval exactly, or *)
(* less than one.                                                          *)
ReturnEarly ==
  /\ pc = "start"
  /\ \/ den = 0 /\ n' = 0 /\ rem' = 0
     \/ den # 0 /\ num = den /\ n' = 1 /\ rem' = 0
     \/ den # 0 /\ num < den /\ n' = 0 /\ rem' = num
  /\ pc' = "done"
  /\ UNCHANGED <<num, den, m, updated, iterations>>

StartSearch ==
  /\ pc = "start"
  /\ den # 0 /\ num > den
  /\ n' = 1
  /\ updated' = den
  /\ pc' = "doubling"
  /\ UNCHANGED <<num, den, m, rem, iterations>>

CountPass == iterations' = IF iterations < MaxCount THEN iterations + 1 ELSE iterations

Double ==
  /\ pc = "doubling"
  /\ num > updated
  /\ n' = n * 2
  /\ updated' = den * n'
  /\ CountPass
  /\ UNCHANGED <<num, den, m, rem, pc>>

(* Mutant of StopDoubling: the last doubling is not taken back. *)
StopDoublingAbove ==
  /\ pc = "doubling"
  /\ ~ (num > updated)
  /\ m' = n
  /\ pc' = "halving"
  /\ UNCHANGED <<num, den, n, updated, rem, iterations>>

StopDoubling ==
  /\ pc = "doubling"
  /\ ~ (num > updated)
  /\ n' = n \div 2
  /\ m' = n'
  /\ updated' = den * n'
  /\ pc' = "halving"
  /\ UNCHANGED <<num, den, rem, iterations>>

(* Mutant of Fits: an exact fit is refused. *)
FitsStrictly(i) == updated + den * i < num

Fits(i) == updated + den * i <= num

(* Mutants of Smaller: one interval less at a time, and rounded up. *)
SmallerByOne(i) == i - 1
SmallerRoundedUp(i) == (i + 1) \div 2

Smaller(i) == i \div 2

Halve ==
  /\ pc = "halving"
  /\ m > 0
  /\ \/ Fits(m) /\ updated' = updated + den * m /\ n' = n + m
     \/ ~ Fits(m) /\ UNCHANGED <<updated, n>>
  /\ m' = Smaller(m)
  /\ CountPass
  /\ UNCHANGED <<num, den, rem, pc>>

Return ==
  /\ pc = "halving"
  /\ m = 0
  /\ rem' = num - updated
  /\ pc' = "done"
  /\ UNCHANGED <<num, den, n, m, updated, iterations>>

Next == ReturnEarly \/ StartSearch \/ Double \/ StopDoubling \/ Halve \/ Return

Spec == Init /\ [][Next]_vars /\ WF_vars(Next)
--------------------------------------------------------------------------------
(* The quotient and the remainder are those of integer division for every  *)
(* non-negative numerator; a negative numerator is itself the remainder.   *)
(* The other modules take the remainder from DivisionRemainder.            *)
Correct ==
  pc = "done" =>
    /\ rem = DivisionRemainder(num, den)
    /\ den # 0 => num = den * n + rem
    /\ den # 0 /\ num >= 0 => 0 <= rem /\ rem < den

(* While it searches, the quotient lies between n and n + 2m: it is never  *)
(* overshot, and the halving steps that remain can reach it.               *)
SearchBounds ==
  pc = "halving" =>
    /\ updated = den * n
    /\ updated <= num
    /\ num < updated + den * (IF m = 0 THEN 1 ELSE 2 * m)

(* 2^k, by a definition that can be reasoned about.                        *)
Pow2[k \in Nat] == IF k = 0 THEN 1 ELSE 2 * Pow2[k - 1]

(* The cost is proportional to the log of the result (lines 1831-1832):    *)
(* two passes for each bit of the quotient.                                *)
LogarithmicCost ==
  pc = "done" /\ iterations > 0 => Pow2[iterations \div 2] <= 2 * n

(* The search ends. *)
Termination == <>(pc = "done")
================================================================================
