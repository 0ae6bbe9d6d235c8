--------------------------- MODULE Iteration_proofs ----------------------------
(***************************************************************************)
(* Induction and recursion over the numbers, as facts about sets and       *)
(* functions.  A recursive function f[k \in D] == e is some f that equals  *)
(* [k \in D |-> e]: nothing is known of it before it is shown that there   *)
(* is one.  The loops of the code that are modelled as such functions (the *)
(* tags read one by one, the elements of one kind in the order of the      *)
(* file, the directories from the root on, the powers of two) all come     *)
(* from one value and one function per pass.                               *)
(***************************************************************************)
EXTENDS Naturals, WellFoundedInduction, TLAPS

(* The first of the numbers that have a property.                          *)
LEMMA LeastNumber ==
  ASSUME NEW S \in SUBSET Nat, S # {}
  PROVE  \E x \in S : \A y \in S : x <= y
<1>1. PICK x \in S : \A y \in S : ~ (<<y, x>> \in OpToRel(<, Nat))
  BY NatLessThanWellFounded, WFMin, Zenon
<1>2. \A y \in S : ~ (y < x)
  BY <1>1 DEF OpToRel
<1> QED
  BY <1>2

LEMMA SetInduction ==
  ASSUME NEW S, 0 \in S, \A i \in Nat : i \in S => i + 1 \in S
  PROVE  Nat \subseteq S
<1> SUFFICES ASSUME Nat \ S # {} PROVE FALSE
  OBVIOUS
<1>1. PICK x \in Nat \ S : \A y \in Nat \ S : x <= y
  BY LeastNumber
<1>2. x # 0 /\ x - 1 \in Nat /\ x - 1 \notin Nat \ S
  BY <1>1
<1> QED
  BY <1>2

(* The first i passes: f[0] is where it starts, and pass k (from 0 on)     *)
(* takes f[k] to step[k][f[k]].                                            *)
Passes(f, a, step, i) == f[0] = a /\ \A k \in 0..i : k < i => f[k+1] = step[k][f[k]]

LEMMA PassesExist ==
  ASSUME NEW V, NEW a \in V, NEW step \in [Nat -> [V -> V]], NEW i \in Nat
  PROVE  \E f \in [0..i -> V] : Passes(f, a, step, i)
<1> DEFINE S == {j \in Nat : \E f \in [0..j -> V] : Passes(f, a, step, j)}
<1>1. 0 \in S
  <2>1. [k \in 0..0 |-> a] \in [0..0 -> V] /\ Passes([k \in 0..0 |-> a], a, step, 0)
    BY DEF Passes
  <2> QED
    BY <2>1
<1>2. ASSUME NEW j \in Nat, j \in S PROVE j + 1 \in S
  <2>1. PICK f \in [0..j -> V] : Passes(f, a, step, j)
    BY <1>2
  <2> DEFINE g == [k \in 0..j+1 |-> IF k = j + 1 THEN step[j][f[j]] ELSE f[k]]
  <2>2. step[j][f[j]] \in V
    OBVIOUS
  <2>3. g \in [0..j+1 -> V]
    BY <2>2
  <2>4. Passes(g, a, step, j + 1)
    BY <2>1 DEF Passes
  <2> HIDE DEF g
  <2> QED
    BY <2>3, <2>4
<1> HIDE DEF S
<1>3. i \in S
  BY <1>1, <1>2, SetInduction
<1> QED
  BY <1>3 DEF S

LEMMA PassesAgree ==
  ASSUME NEW a, NEW step, NEW i \in Nat, NEW j \in Nat, i <= j, NEW f, NEW g,
         Passes(f, a, step, i), Passes(g, a, step, j)
  PROVE  \A k \in 0..i : f[k] = g[k]
<1> DEFINE S == {k \in Nat : k <= i => f[k] = g[k]}
<1>1. 0 \in S
  BY DEF Passes
<1>2. ASSUME NEW k \in Nat, k \in S PROVE k + 1 \in S
  <2> SUFFICES ASSUME k + 1 <= i PROVE f[k+1] = g[k+1]
    OBVIOUS
  <2>1. f[k] = g[k]
    BY <1>2
  <2> QED
    BY <2>1 DEF Passes
<1> HIDE DEF S
<1>3. Nat \subseteq S
  BY <1>1, <1>2, SetInduction
<1> QED
  BY <1>3 DEF S

(* A function for all the passes.                                          *)
Loop(f, V, a, step) ==
  /\ f \in [Nat -> V]
  /\ f[0] = a
  /\ \A k \in Nat : f[k+1] = step[k][f[k]]

LEMMA Iterate ==
  ASSUME NEW V, NEW a, NEW step, a \in V, step \in [Nat -> [V -> V]]
  PROVE  \E f : Loop(f, V, a, step)
<1> DEFINE Of(i) == CHOOSE f \in [0..i -> V] : Passes(f, a, step, i)
           g == [k \in Nat |-> Of(k)[k]]
<1>1. \A i \in Nat : Of(i) \in [0..i -> V] /\ Passes(Of(i), a, step, i)
  BY PassesExist
<1> HIDE DEF Of
<1>2. g \in [Nat -> V]
  BY <1>1
<1>3. g[0] = a
  BY <1>1 DEF Passes
<1>4. ASSUME NEW k \in Nat PROVE g[k+1] = step[k][g[k]]
  <2>1. Of(k+1)[k+1] = step[k][Of(k+1)[k]]
    BY <1>1 DEF Passes
  <2>2. Of(k)[k] = Of(k+1)[k]
    BY <1>1, PassesAgree
  <2> QED
    BY <2>1, <2>2
<1> HIDE DEF g
<1>5. Loop(g, V, a, step)
  BY <1>2, <1>3, <1>4 DEF Loop
<1> QED
  BY <1>5
================================================================================
