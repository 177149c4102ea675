------------------------------ MODULE Induction ------------------------------
(***************************************************************************)
(* Induction over the natural numbers as first-order lemmas.  The library  *)
(* states induction with an operator as its parameter; here the property   *)
(* is a set, and what is used is that the order of the numbers is well     *)
(* founded.                                                                *)
(***************************************************************************)
EXTENDS WellFoundedInduction, TLAPS

\* A set of numbers that is not empty has a least member.
LEMMA Least ==
  ASSUME NEW T, T \subseteq Nat, T # {}
  PROVE  \E x \in T : \A y \in T : x <= y
<1> DEFINE R == {ss \in Nat \X Nat : ss[1] < ss[2]}
<1>1. IsWellFoundedOn(R, Nat)
  BY NatLessThanWellFounded DEF OpToRel
<1>2. PICK x \in T : \A y \in T : ~ (<<y, x>> \in R)
  <2> HIDE DEF R
  <2> QED
    BY <1>1, WFMin
<1>3. \A y \in T : x <= y
  <2> TAKE y \in T
  <2>1. x \in Nat /\ y \in Nat
    OBVIOUS
  <2>2. ~ (<<y, x>> \in R)
    BY <1>2
  <2> QED
    BY <2>1, <2>2
<1> QED
  BY <1>3

\* What holds of 0 and goes from each number to the next holds of all.
LEMMA Induct ==
  ASSUME NEW T, 0 \in T, \A n \in Nat : n \in T => n + 1 \in T
  PROVE  Nat \subseteq T
<1> SUFFICES ASSUME Nat \ T # {} PROVE FALSE
  OBVIOUS
<1>1. PICK x \in Nat \ T : \A y \in Nat \ T : x <= y
  BY Least
<1>2. x # 0
  OBVIOUS
<1>3. x - 1 \in Nat /\ x - 1 \in T
  BY <1>1, <1>2
<1> QED
  BY <1>1, <1>3

\* f runs through a loop: it starts with a, and each round i makes F[<<i, x>>]
\* of the value x of the round before.
Iterates(f, n, S, a, F) ==
  /\ f \in [0 .. n -> S]
  /\ f[0] = a
  /\ \A i \in 1 .. n : f[i] = F[<<i, f[i - 1]>>]

\* Every loop can be run through.
LEMMA Recursion ==
  ASSUME NEW S, NEW a \in S, NEW F \in [Nat \X S -> S], NEW n \in Nat
  PROVE  \E f : Iterates(f, n, S, a, F)
<1> DEFINE Eq(f, k) == Iterates(f, k, S, a, F)
           T == {k \in Nat : \E f : Eq(f, k)}
<1> USE DEF Iterates
<1>1. 0 \in T
  <2>1. Eq([i \in 0 .. 0 |-> a], 0)
    OBVIOUS
  <2> QED
    BY <2>1
<1>2. ASSUME NEW k \in Nat, k \in T PROVE k + 1 \in T
  <2>1. PICK f : Eq(f, k)
    BY <1>2
  <2> DEFINE g == [i \in 0 .. k + 1 |-> IF i = k + 1 THEN F[<<k + 1, f[k]>>] ELSE f[i]]
  <2>2. g \in [0 .. k + 1 -> S]
    <3>1. F[<<k + 1, f[k]>>] \in S
      BY <2>1
    <3> QED
      BY <2>1, <3>1
  <2>3. g[0] = a
    BY <2>1
  <2>4. \A i \in 1 .. k + 1 : g[i] = F[<<i, g[i - 1]>>]
    <3> TAKE i \in 1 .. k + 1
    <3>1. CASE i = k + 1
      <4>1. i - 1 = k /\ k \in 0 .. k + 1 /\ k # k + 1
        BY <3>1
      <4>2. g[k] = f[k]
        BY <4>1
      <4>3. g[i] = F[<<k + 1, f[k]>>]
        BY <3>1
      <4> HIDE DEF g
      <4> QED
        BY <3>1, <4>1, <4>2, <4>3
    <3>2. CASE i # k + 1
      <4>1. i \in 1 .. k /\ i - 1 \in 0 .. k + 1 /\ i - 1 # k + 1
        BY <3>2
      <4>2. g[i - 1] = f[i - 1] /\ g[i] = f[i]
        BY <4>1
      <4> HIDE DEF g
      <4> QED
        BY <4>1, <4>2, <2>1
    <3> QED
      BY <3>1, <3>2
  <2>5. Eq(g, k + 1)
    BY <2>2, <2>3, <2>4
  <2> HIDE DEF Eq, g
  <2> QED
    BY <2>5
<1>3. Nat \subseteq T
  <2> HIDE DEF T
  <2> QED
    BY <1>1, <1>2, Induct
<1>4. n \in T
  BY <1>3
<1> QED
  BY <1>4
=============================================================================
