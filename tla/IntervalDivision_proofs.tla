------------------------ MODULE IntervalDivision_proofs ------------------------
(***************************************************************************)
(* mpas_interval_division computes the quotient and the remainder of every *)
(* numerator and divisor, in two passes for each bit of the quotient.      *)
(*                                                                         *)
(* Halving m loses nothing only because m is a power of two.  The powers   *)
(* of two are the least set that holds 1 and is closed under doubling.     *)
(***************************************************************************)
EXTENDS IntervalDivision, Iteration_proofs, TLAPS

ClosedUnderDoubling(S) == 1 \in S /\ \A x \in S : 2 * x \in S

PowersOfTwo == {p \in Nat : \A S \in SUBSET Nat : ClosedUnderDoubling(S) => p \in S}

LEMMA PowersAreClosed == ClosedUnderDoubling(PowersOfTwo)
<1>1. 1 \in PowersOfTwo
  BY DEF PowersOfTwo, ClosedUnderDoubling
<1>2. ASSUME NEW x \in PowersOfTwo PROVE 2 * x \in PowersOfTwo
  <2>1. x \in Nat /\ 2 * x \in Nat
    BY DEF PowersOfTwo
  <2>2. ASSUME NEW S \in SUBSET Nat, ClosedUnderDoubling(S) PROVE 2 * x \in S
    BY <2>2 DEF PowersOfTwo, ClosedUnderDoubling
  <2>3. QED
    BY <2>1, <2>2 DEF PowersOfTwo
<1>3. QED
  BY <1>1, <1>2 DEF ClosedUnderDoubling

(* A power of two is 1, or twice a power of two. *)
LEMMA HalfOfPower ==
  ASSUME NEW p \in PowersOfTwo
  PROVE  p = 1 \/ (p \div 2 \in PowersOfTwo /\ p = 2 * (p \div 2))
<1> DEFINE S == {q \in PowersOfTwo : q = 1 \/ \E h \in PowersOfTwo : q = 2 * h}
<1>1. ClosedUnderDoubling(S)
  <2>1. 1 \in S
    BY PowersAreClosed DEF ClosedUnderDoubling
  <2>2. ASSUME NEW x \in S PROVE 2 * x \in S
    <3>1. x \in PowersOfTwo
      OBVIOUS
    <3>2. 2 * x \in PowersOfTwo
      BY <3>1, PowersAreClosed DEF ClosedUnderDoubling
    <3>3. QED
      BY <3>1, <3>2
  <2>3. QED
    BY <2>1, <2>2 DEF ClosedUnderDoubling
<1>2. S \in SUBSET Nat
  BY DEF PowersOfTwo
<1>3. p \in S
  BY <1>1, <1>2 DEF PowersOfTwo
<1>4. CASE \E h \in PowersOfTwo : p = 2 * h
  <2>1. PICK h \in PowersOfTwo : p = 2 * h
    BY <1>4
  <2>2. h \in Nat
    BY DEF PowersOfTwo
  <2>3. p \div 2 = h
    BY <2>1, <2>2
  <2>4. QED
    BY <2>1, <2>3
<1>5. QED
  BY <1>3, <1>4

(* While doubling, n is a power of two and, once it has been doubled, the  *)
(* numerator lies beyond its half.  While halving, m is a power of two or  *)
(* 0, and the numerator lies between den * n and den * (n + 2m).           *)
SearchInv ==
  /\ num \in Int /\ den \in Nat /\ n \in Nat /\ m \in Nat /\ updated \in Int /\ rem \in Int
  /\ pc \in {"start", "doubling", "halving", "done"}
  /\ pc = "doubling" =>
       /\ n \in PowersOfTwo
       /\ updated = den * n
       /\ den > 0
       /\ num > den
       /\ n # 1 => den * (n \div 2) < num
  /\ pc = "halving" => den > 0 /\ (m = 0 \/ m \in PowersOfTwo) /\ n >= 1

DivisionInv == SearchInv /\ SearchBounds /\ Correct

LEMMA ProductBound ==
  ASSUME NEW d \in Nat, d > 0, NEW i \in Nat, i >= 1
  PROVE  d * i \in Nat /\ d * i >= d
OBVIOUS

(* Every multiple short of the numerator by less than the divisor leaves   *)
(* the remainder of the division.                                          *)
LEMMA RemainderIsUnique ==
  ASSUME NEW x \in Int, NEW d \in Nat, d > 0, NEW q \in Nat, q >= 1,
         d * q <= x, x < d * q + d
  PROVE  x - d * q = DivisionRemainder(x, d)
<1>1. x >= d
  BY ProductBound
<1>2. PICK r \in 0 .. (d - 1) : r = x - d * q
  OBVIOUS
<1>3. x = d * q + r
  BY <1>2
<1>4. x % d = r
  <2>1. r \in Nat /\ r < d
    BY <1>2
  <2>2. x % d = (r + d * q) % d
    BY <1>3
  <2>3. QED
    BY <1>3, <2>1, <2>2
<1>5. QED
  BY <1>1, <1>2, <1>4 DEF DivisionRemainder

LEMMA DivisionInductive ==
  (Init => DivisionInv) /\ (DivisionInv /\ [Next]_vars => DivisionInv')
<1>1. Init => DivisionInv
  BY InputAssumption DEF Init, DivisionInv, SearchInv, SearchBounds, Correct
<1>2. DivisionInv /\ [Next]_vars => DivisionInv'
  <2> SUFFICES ASSUME DivisionInv, [Next]_vars PROVE DivisionInv'
    OBVIOUS
  <2> USE DEF DivisionInv, SearchInv
  <2>1. CASE ReturnEarly
    <3>1. UNCHANGED <<num, den, m, updated>> /\ pc' = "done"
      BY <2>1 DEF ReturnEarly
    <3>2. n' \in Nat /\ rem' \in Int /\ rem' = DivisionRemainder(num, den)
      BY <2>1 DEF ReturnEarly, DivisionRemainder
    <3>3. den # 0 => num = den * n' + rem'
      BY <2>1 DEF ReturnEarly
    <3>4. den # 0 /\ num >= 0 => 0 <= rem' /\ rem' < den
      BY <2>1 DEF ReturnEarly
    <3>5. QED
      BY <3>1, <3>2, <3>3, <3>4 DEF SearchBounds, Correct
  <2>2. CASE StartSearch
    <3>1. /\ UNCHANGED <<num, den, m, rem>> /\ pc' = "doubling" /\ n' = 1 /\ updated' = den
          /\ num > den /\ den > 0
      BY <2>2 DEF StartSearch
    <3>2. 1 \in PowersOfTwo
      BY PowersAreClosed DEF ClosedUnderDoubling
    <3>3. QED
      BY <3>1, <3>2 DEF SearchBounds, Correct
  <2>3. CASE Double
    <3>1. /\ UNCHANGED <<num, den, m, rem, pc>> /\ n' = n * 2 /\ updated' = den * n'
          /\ pc = "doubling" /\ num > updated
      BY <2>3 DEF Double
    <3>2. 2 * n \in PowersOfTwo
      BY <3>1, PowersAreClosed DEF ClosedUnderDoubling
    <3>3. n \in Nat /\ n' \in Nat /\ n' = 2 * n /\ n' \div 2 = n
      BY <3>1
    <3>4. updated = den * n /\ updated' \in Int
      BY <3>1, <3>3
    <3>5. den * (n' \div 2) < num
      <4>1. den * (n' \div 2) = den * n
        BY <3>3
      <4>2. den * n < num
        BY <3>1, <3>4
      <4>3. QED
        BY <4>1, <4>2
    <3>6. SearchInv'
      BY <3>1, <3>2, <3>3, <3>4, <3>5
    <3>7. QED
      BY <3>1, <3>6 DEF SearchBounds, Correct
  <2>4. CASE StopDoubling
    <3>1. /\ UNCHANGED <<num, den, rem>> /\ n' = n \div 2 /\ m' = n' /\ updated' = den * n'
          /\ pc = "doubling" /\ pc' = "halving" /\ num <= updated /\ den > 0
      BY <2>4 DEF StopDoubling
    <3>2. n # 1
      BY <3>1
    <3>3. n' \in PowersOfTwo /\ n = 2 * n'
      BY <3>1, <3>2, HalfOfPower
    <3>4. n' \in Nat /\ n' >= 1
      <4>1. n # 0
        <5>1. n = 0 => den * n = 0
          OBVIOUS
        <5>2. den * n > 0
          BY <3>1
        <5>3. QED
          BY <5>1, <5>2
      <4>2. n \in Nat /\ n' = n \div 2 /\ n = 2 * n'
        BY <3>1, <3>3
      <4>3. QED
        BY <4>1, <4>2
    <3>5. den * n' < num /\ num <= den * (2 * n')
      BY <3>1, <3>2, <3>3
    <3>6. PICK u \in Nat : u = den * n' /\ u >= den /\ den * (2 * n') = u + u
      BY <3>1, <3>4, ProductBound
    <3>7. updated' <= num' /\ num' < updated' + den' * (2 * m')
      BY <3>1, <3>5, <3>6
    <3>8. QED
      BY <3>1, <3>3, <3>4, <3>6, <3>7 DEF SearchBounds, Correct
  <2>5. CASE Halve
    <3>1. /\ UNCHANGED <<num, den, rem, pc>> /\ m' = m \div 2 /\ pc = "halving" /\ m > 0
          /\ den > 0 /\ m \in PowersOfTwo
      BY <2>5 DEF Halve, Smaller
    <3>2. updated = den * n /\ updated <= num /\ num < updated + den * (2 * m)
      BY <3>1 DEF SearchBounds
    <3>3. m' = 0 \/ (m' \in PowersOfTwo /\ m = 2 * m' /\ m' # 0)
      BY <3>1, HalfOfPower
    <3>4. PICK step \in Nat : step = den * m /\ den * (2 * m) = step + step
      BY <3>1
    <3>5. den * (IF m' = 0 THEN 1 ELSE 2 * m') = step
      <4>1. m' = 0 => m = 1
        BY <3>1, <3>3
      <4>2. QED
        BY <3>1, <3>3, <3>4, <4>1
    <3>6. CASE Fits(m)
      <4>1. updated' = updated + step /\ n' = n + m /\ updated' <= num
        BY <2>5, <3>4, <3>6 DEF Halve, Fits
      <4>2. den * (n + m) = den * n + den * m
        BY <3>1
      <4>3. QED
        BY <3>1, <3>2, <3>3, <3>4, <3>5, <4>1, <4>2 DEF SearchBounds, Correct
    <3>7. CASE ~ Fits(m)
      <4>1. UNCHANGED <<updated, n>> /\ num < updated + step
        BY <2>5, <3>4, <3>7 DEF Halve, Fits
      <4>2. QED
        BY <3>1, <3>2, <3>3, <3>4, <3>5, <4>1 DEF SearchBounds, Correct
    <3>8. QED
      BY <3>6, <3>7
  <2>6. CASE Return
    <3>1. /\ UNCHANGED <<num, den, n, m, updated>> /\ rem' = num - updated /\ pc' = "done"
          /\ m = 0 /\ den > 0 /\ n >= 1
      BY <2>6 DEF Return
    <3>2. updated = den * n /\ updated <= num /\ num < updated + den
      BY <2>6, <3>1 DEF Return, SearchBounds
    <3>3. rem' = DivisionRemainder(num, den)
      BY <3>1, <3>2, RemainderIsUnique
    <3>4. num = den * n + rem' /\ 0 <= rem' /\ rem' < den
      BY <3>1, <3>2
    <3>5. QED
      BY <3>1, <3>3, <3>4 DEF SearchBounds, Correct
  <2>7. CASE UNCHANGED vars
    BY <2>7 DEF vars, SearchBounds, Correct
  <2>8. QED
    BY <2>1, <2>2, <2>3, <2>4, <2>5, <2>6, <2>7 DEF Next
<1>3. QED
  BY <1>1, <1>2

(* The quotient is never overshot and stays within reach of the search.    *)
THEOREM SearchStaysInBounds == Spec => []SearchBounds
<1>1. DivisionInv => SearchBounds
  BY DEF DivisionInv
<1>2. QED
  BY <1>1, DivisionInductive, PTL DEF Spec

(* The procedure returns the quotient and the remainder, for every         *)
(* numerator, negative ones included, and every divisor, 0 included.       *)
THEOREM DivisionCorrect == Spec => []Correct
<1>1. DivisionInv => Correct
  BY DEF DivisionInv
<1>2. QED
  BY <1>1, DivisionInductive, PTL DEF Spec
--------------------------------------------------------------------------------
(* The cost *)

\* The recursive function of the powers of two exists and obeys its definition.
LEMMA Pow2Facts ==
  /\ \A k \in Nat : Pow2[k] \in Nat \ {0}
  /\ Pow2[0] = 1
  /\ \A k \in Nat : Pow2[k + 1] = 2 * Pow2[k]
<1> DEFINE V == Nat \ {0}
           step == [k \in Nat |-> [v \in V |-> 2 * v]]
<1>1. 1 \in V /\ step \in [Nat -> [V -> V]]
  OBVIOUS
<1>2. PICK f : Loop(f, V, 1, step)
  <2> HIDE DEF V, step
  <2> QED
    BY <1>1, Iterate
<1>3. f \in [Nat -> V] /\ f[0] = 1 /\ \A k \in Nat : f[k+1] = 2 * f[k]
  BY <1>2 DEF Loop
<1>4. \A k \in Nat : f[k] = IF k = 0 THEN 1 ELSE 2 * f[k - 1]
  <2> SUFFICES ASSUME NEW k \in Nat, k # 0 PROVE f[k] = 2 * f[k - 1]
    BY <1>3
  <2>1. k - 1 \in Nat /\ (k - 1) + 1 = k
    OBVIOUS
  <2> QED
    BY <1>3, <2>1
<1>5. f = [k \in Nat |-> IF k = 0 THEN 1 ELSE 2 * f[k - 1]]
  BY <1>3, <1>4
<1>6. Pow2 = [k \in Nat |-> IF k = 0 THEN 1 ELSE 2 * Pow2[k - 1]]
  BY <1>5 DEF Pow2
<1>7. Pow2[0] = 1 /\ \A k \in Nat : Pow2[k + 1] = 2 * Pow2[k]
  BY <1>6
<1> DEFINE S == {k \in Nat : Pow2[k] \in Nat \ {0}}
<1>8. 0 \in S /\ \A k \in Nat : k \in S => k + 1 \in S
  BY <1>7
<1>9. Nat \subseteq S
  <2> HIDE DEF S
  <2> QED
    BY <1>8, SetInduction
<1> QED
  BY <1>7, <1>9

\* A positive power is even, and half of it is the power before it.
LEMMA Pow2Half ==
  ASSUME NEW k \in Nat
  PROVE  /\ k # 0 => Pow2[k] = 2 * Pow2[k - 1] /\ Pow2[k] \div 2 = Pow2[k - 1]
         /\ k = 0 => Pow2[k] \div 2 = 0
<1>1. CASE k = 0
  BY <1>1, Pow2Facts
<1>2. CASE k # 0
  <2>1. k - 1 \in Nat /\ (k - 1) + 1 = k
    BY <1>2
  <2>2. Pow2[k] = 2 * Pow2[k - 1] /\ Pow2[k - 1] \in Nat
    BY <2>1, Pow2Facts
  <2> QED
    BY <1>2, <2>2
<1> QED
  BY <1>1, <1>2

\* The powers do not decrease.
LEMMA Pow2Monotone ==
  ASSUME NEW j \in Nat, NEW k \in Nat, j <= k
  PROVE  Pow2[j] <= Pow2[k]
<1> DEFINE S == {i \in Nat : Pow2[j] <= Pow2[j + i]}
<1>1. 0 \in S
  BY Pow2Facts
<1>2. ASSUME NEW i \in Nat, i \in S PROVE i + 1 \in S
  <2>1. Pow2[j] <= Pow2[j + i]
    BY <1>2
  <2>2. j + i \in Nat /\ (j + i) + 1 = j + (i + 1)
    OBVIOUS
  <2>3. Pow2[j + (i + 1)] = 2 * Pow2[j + i] /\ Pow2[j + i] \in Nat /\ Pow2[j] \in Nat
    BY <2>2, Pow2Facts
  <2> QED
    BY <2>1, <2>3
<1> HIDE DEF S
<1>3. k - j \in S
  BY <1>1, <1>2, SetInduction
<1> QED
  BY <1>3 DEF S

(* After d doublings n is Pow2[d]; of the D that were made before the      *)
(* halving, m has D - 1 - h left behind it when it is Pow2[h], and at most *)
(* one pass more takes it to 0.  The quotient keeps what the last doubling *)
(* but one has reached.                                                    *)
CostInv ==
  /\ iterations \in Nat
  /\ pc = "start" => iterations = 0
  /\ pc = "doubling" => \E d \in Nat : n = Pow2[d] /\ iterations <= d
  /\ pc = "halving" =>
       \E D \in Nat \ {0} :
         /\ n >= Pow2[D - 1]
         /\ \/ \E h \in 0..(D-1) : m = Pow2[h] /\ iterations + h + 1 <= 2 * D
            \/ m = 0 /\ iterations <= 2 * D
  /\ LogarithmicCost

\* One pass of either loop adds at most one to the count, which saturates.
LEMMA PassCounted ==
  ASSUME CountPass, iterations \in Nat
  PROVE  iterations' \in Nat /\ iterations' <= iterations + 1
BY InputAssumption DEF CountPass

\* A bound with room for one pass more survives the pass.
LEMMA OnePassMore ==
  ASSUME NEW i \in Nat, NEW j \in Nat, NEW D \in Nat \ {0}, NEW h \in 0..(D-1), h # 0,
         j <= i + 1, i + h + 1 <= 2 * D
  PROVE  h - 1 \in 0..(D-1) /\ j + (h - 1) + 1 <= 2 * D
OBVIOUS

\* The invariant of the cost is inductive: a doubling raises the power by one,
\* a halving lowers it by one, and the count of passes rises with each.
LEMMA CostInductive ==
  (Init => CostInv) /\ (DivisionInv /\ CostInv /\ [Next]_vars => CostInv')
<1>1. Init => CostInv
  BY DEF Init, CostInv, LogarithmicCost
<1>2. DivisionInv /\ CostInv /\ [Next]_vars => CostInv'
  <2> SUFFICES ASSUME DivisionInv, CostInv, [Next]_vars PROVE CostInv'
    OBVIOUS
  <2> USE DEF CostInv
  <2>0. n \in Nat /\ m \in Nat /\ iterations \in Nat
    BY DEF DivisionInv, SearchInv
  <2>1. CASE ReturnEarly
    BY <2>1 DEF ReturnEarly, LogarithmicCost
  <2>2. CASE StartSearch
    <3>1. n' = 1 /\ iterations' = 0 /\ pc' = "doubling"
      BY <2>2 DEF StartSearch
    <3>2. n' = Pow2[0] /\ iterations' <= 0
      BY <3>1, Pow2Facts
    <3> QED
      BY <3>1, <3>2 DEF LogarithmicCost
  <2>3. CASE Double
    <3>1. /\ pc = "doubling" /\ pc' = "doubling" /\ n' = n * 2
          /\ iterations' \in Nat /\ iterations' <= iterations + 1
      BY <2>3, PassCounted DEF Double
    <3>2. PICK d \in Nat : n = Pow2[d] /\ iterations <= d
      BY <3>1
    <3>3. n' = Pow2[d + 1] /\ iterations' <= d + 1 /\ d + 1 \in Nat
      BY <2>0, <3>1, <3>2, Pow2Facts
    <3> QED
      BY <3>1, <3>3 DEF LogarithmicCost
  <2>4. CASE StopDoubling
    <3>1. /\ pc = "doubling" /\ pc' = "halving" /\ n' = n \div 2 /\ m' = n'
          /\ iterations' = iterations
      BY <2>4 DEF StopDoubling
    <3>2. PICK d \in Nat : n = Pow2[d] /\ iterations <= d
      BY <3>1
    (* the numerator is more than the divisor: there was a doubling        *)
    <3>3. d # 0
      <4>1. n # 1
        BY <2>4 DEF StopDoubling, DivisionInv, SearchInv
      <4> QED
        BY <3>2, <4>1, Pow2Facts
    <3>4. n' = Pow2[d - 1] /\ d - 1 \in 0..(d-1) /\ iterations' + (d - 1) + 1 <= 2 * d
      BY <2>0, <3>1, <3>2, <3>3, Pow2Half
    <3>5. n' >= Pow2[d - 1]
      BY <3>3, <3>4, Pow2Facts
    <3> QED
      BY <2>0, <3>1, <3>3, <3>4, <3>5 DEF LogarithmicCost
  <2>5. CASE Halve
    <3>1. /\ pc = "halving" /\ pc' = "halving" /\ m > 0 /\ m' = m \div 2
          /\ iterations' \in Nat /\ iterations' <= iterations + 1
          /\ n' \in Nat /\ n' >= n
      BY <2>0, <2>5, PassCounted DEF Halve, Smaller
    <3>2. PICK D \in Nat \ {0} :
             /\ n >= Pow2[D - 1]
             /\ \E h \in 0..(D-1) : m = Pow2[h] /\ iterations + h + 1 <= 2 * D
      BY <3>1
    <3>6. PICK h \in 0..(D-1) : m = Pow2[h] /\ iterations + h + 1 <= 2 * D
      BY <3>2
    <3>3. n' >= Pow2[D - 1]
      <4>1. Pow2[D - 1] \in Nat
        BY Pow2Facts
      <4> QED
        BY <2>0, <3>1, <3>2, <4>1
    <3>4. CASE h = 0
      <4>1. m' = 0 /\ iterations' <= 2 * D
        BY <2>0, <3>1, <3>6, <3>4, Pow2Half
      <4> QED
        BY <3>1, <3>3, <4>1 DEF LogarithmicCost
    <3>5. CASE h # 0
      <4>1. m' = Pow2[h - 1]
        <5>1. h \in Nat /\ m' = Pow2[h] \div 2
          BY <3>1, <3>6
        <5> QED
          BY <3>5, <5>1, Pow2Half
      <4>2. h - 1 \in 0..(D-1) /\ iterations' + (h - 1) + 1 <= 2 * D
        BY <2>0, <3>1, <3>6, <3>5, OnePassMore
      <4> QED
        BY <3>1, <3>3, <4>1, <4>2 DEF LogarithmicCost
    <3> QED
      BY <3>4, <3>5
  <2>6. CASE Return
    <3>1. /\ pc = "halving" /\ pc' = "done" /\ m = 0
          /\ UNCHANGED <<n, m, iterations>>
      BY <2>6 DEF Return
    <3>2. PICK D \in Nat \ {0} : n >= Pow2[D - 1] /\ iterations <= 2 * D
      <4>1. PICK D \in Nat \ {0} :
             /\ n >= Pow2[D - 1]
             /\ \/ \E h \in 0..(D-1) : m = Pow2[h] /\ iterations + h + 1 <= 2 * D
                \/ m = 0 /\ iterations <= 2 * D
        BY <3>1
      <4>2. \A h \in 0..(D-1) : Pow2[h] # 0
        BY Pow2Facts
      <4> QED
        BY <3>1, <4>1, <4>2
    <3>3. iterations \div 2 \in Nat /\ iterations \div 2 <= D
      BY <2>0, <3>2
    <3>4. Pow2[iterations \div 2] <= Pow2[D] /\ Pow2[D] = 2 * Pow2[D - 1]
      BY <3>3, Pow2Monotone, Pow2Half
    <3>5. /\ Pow2[iterations \div 2] \in Nat /\ Pow2[D] \in Nat /\ Pow2[D - 1] \in Nat
      BY <3>3, Pow2Facts
    <3>6. Pow2[iterations \div 2] <= 2 * n
      BY <2>0, <3>2, <3>4, <3>5
    <3> QED
      BY <2>0, <3>1, <3>6 DEF LogarithmicCost
  <2>7. CASE UNCHANGED vars
    BY <2>7 DEF vars, LogarithmicCost
  <2> QED
    BY <2>1, <2>2, <2>3, <2>4, <2>5, <2>6, <2>7 DEF Next
<1> QED
  BY <1>1, <1>2

(* At most two passes for each bit of the quotient (lines 1831-1832).      *)
THEOREM CostIsLogarithmic == Spec => []LogarithmicCost
<1>1. CostInv => LogarithmicCost
  BY DEF CostInv
<1>2. QED
  BY <1>1, DivisionInductive, CostInductive, PTL DEF Spec
================================================================================
