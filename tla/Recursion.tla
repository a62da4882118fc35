------------------------------- MODULE Recursion -------------------------------
(* Induction and recursion over naturals, in a form that speaks of sets and *)
(* functions: lemmas that the proofs about the folds of Mil and the checked *)
(* products of Schema rest on.  The properties of numbers that a proof by   *)
(* induction is about is the set of the numbers that have it.               *)
EXTENDS Integers, WellFoundedInduction, TLAPS

(* A set of naturals that is not empty has a least element.                 *)
LEMMA Least ==
  ASSUME NEW T \in SUBSET Nat, T # {}
  PROVE  \E x \in T : \A y \in T : x <= y
<1> DEFINE R == OpToRel(<, Nat)
<1>1. IsWellFoundedOn(R, Nat)
  BY NatLessThanWellFounded, Zenon
<1>2. \A x, y \in Nat : <<y, x>> \in R <=> y < x
  BY DEF OpToRel
<1> HIDE DEF R
<1>3. \E x \in T : \A y \in T : ~ (<<y, x>> \in R)
  <2>1. T \subseteq Nat /\ T # {}
    OBVIOUS
  <2> QED  BY <1>1, <2>1, WFMin
<1>4. \A x, y \in T : x <= y \/ y < x
  OBVIOUS
<1> QED  BY <1>2, <1>3, <1>4

(* A set that has 0, and with a number the next one, has all naturals.      *)
LEMMA SetInduction ==
  ASSUME NEW S, 0 \in S, \A n \in Nat : n \in S => n + 1 \in S
  PROVE  Nat \subseteq S
<1> SUFFICES ASSUME ~ (Nat \subseteq S) PROVE FALSE
  OBVIOUS
<1>1. PICK x \in Nat \ S : \A y \in Nat \ S : x <= y
  BY Least
<1>2. x # 0 /\ x - 1 \in Nat /\ x - 1 + 1 = x /\ ~ (x <= x - 1)
  BY <1>1
<1> QED  BY <1>1, <1>2

(* The same up to a bound.                                                  *)
LEMMA IntervalInduction ==
  ASSUME NEW n \in Nat, NEW S, 0 \in S,
         \A i \in 1..n : i - 1 \in S => i \in S
  PROVE  0..n \subseteq S
<1> DEFINE T == {i \in Nat : i <= n => i \in S}
<1>1. 0 \in T
  OBVIOUS
<1>2. \A i \in Nat : i \in T => i + 1 \in T
  <2> SUFFICES ASSUME NEW i \in Nat, i \in T, i + 1 <= n PROVE i + 1 \in S
    OBVIOUS
  <2>1. i + 1 \in 1..n /\ (i + 1) - 1 = i /\ i <= n
    OBVIOUS
  <2> QED  BY <2>1
<1> HIDE DEF T
<1>3. Nat \subseteq T
  BY <1>1, <1>2, SetInduction
<1> QED  BY <1>3 DEF T

(* A function can be defined on 0..n by its value at 0 and, at every later  *)
(* number, from its value at the one before.                                *)
Upto(g, n, base, step) ==
  /\ g[0] = base
  /\ \A i \in 1..n : g[i] = step[i][g[i - 1]]
LEMMA RecursiveFunction ==
  ASSUME NEW n \in Nat, NEW A, NEW base \in A, NEW step \in [1..n -> [A -> A]]
  PROVE  \E g \in [0..n -> A] : Upto(g, n, base, step)
<1> DEFINE S == {k \in Nat : \E g \in [0..k -> A] : Upto(g, k, base, step)}
<1>1. 0 \in S
  <2>1. [i \in 0..0 |-> base] \in [0..0 -> A] /\ Upto([i \in 0..0 |-> base], 0, base, step)
    BY DEF Upto
  <2> QED  BY <2>1
<1>2. ASSUME NEW k \in 1..n, k - 1 \in S
      PROVE  k \in S
  <2>1. PICK g \in [0..(k - 1) -> A] : Upto(g, k - 1, base, step)
    BY <1>2
  <2> DEFINE h == [i \in 0..k |-> IF i = k THEN step[k][g[k - 1]] ELSE g[i]]
  <2>2. step[k][g[k - 1]] \in A
    OBVIOUS
  <2>3. h \in [0..k -> A]
    BY <2>2
  <2>4. Upto(h, k, base, step)
    <3>1. h[0] = base
      BY <2>1 DEF Upto
    <3>2. ASSUME NEW i \in 1..k PROVE h[i] = step[i][h[i - 1]]
      <4>1. i - 1 \in 0..k /\ i - 1 # k /\ i \in 0..k
        OBVIOUS
      <4>2. h[i - 1] = g[i - 1]
        BY <4>1
      <4>3. h[i] = IF i = k THEN step[k][g[k - 1]] ELSE g[i]
        BY <4>1
      <4>4. i # k => i \in 1..(k - 1)
        OBVIOUS
      <4> HIDE DEF h
      <4>5. CASE i = k
        BY <4>2, <4>3, <4>5
      <4>6. CASE i # k
        BY <2>1, <4>2, <4>3, <4>4, <4>6 DEF Upto
      <4> QED  BY <4>5, <4>6
    <3> QED  BY <3>1, <3>2 DEF Upto
  <2> HIDE DEF h
  <2> QED  BY <2>3, <2>4
<1> HIDE DEF S
<1>3. 0..n \subseteq S
  BY <1>1, <1>2, IntervalInduction
<1> QED  BY <1>3 DEF S
=============================================================================
