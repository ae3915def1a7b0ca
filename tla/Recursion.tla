------------------------------ MODULE Recursion ------------------------------
(***************************************************************************)
(* Induction and recursion on the natural numbers, in a form in which the  *)
(* hypotheses are sets and functions: what a recursive definition of the   *)
(* models computes is derived from here.  All of it comes from the fact    *)
(* that < is well founded on Nat (WellFoundedInduction).                   *)
(***************************************************************************)
EXTENDS Integers, WellFoundedInduction, TLAPS

\* Every non-empty set of natural numbers has a least element.
LEMMA LeastNumber ==
  ASSUME NEW T \in SUBSET Nat, T # {}
  PROVE  \E m \in T : \A n \in T : m <= n
<1>1. PICK m \in T : \A n \in T : ~ (<<n, m>> \in OpToRel(<, Nat))
  BY WFMin, NatLessThanWellFounded
<1>2. ASSUME NEW a \in Nat, NEW b \in Nat, a < b
      PROVE  <<a, b>> \in OpToRel(<, Nat)
  BY <1>2, Zenon DEF OpToRel
<1>3. \A n \in T : ~(n < m)
  BY <1>1, <1>2, Zenon
<1> QED
  BY <1>3

\* Induction: a set with 0 and all successors is Nat.
LEMMA NatSetInduction ==
  ASSUME NEW T \in SUBSET Nat, 0 \in T, \A n \in T : n + 1 \in T
  PROVE  T = Nat
<1> SUFFICES ASSUME Nat \ T # {}
             PROVE  FALSE
  OBVIOUS
<1>1. PICK m \in Nat \ T : \A n \in Nat \ T : m <= n
  BY LeastNumber
<1>2. m - 1 \in Nat
  BY <1>1
<1>3. m - 1 \in T
  BY <1>1, <1>2
<1> QED
  BY <1>1, <1>3

-----------------------------------------------------------------------------

\* The sequence g, as far as n, starts with a and goes on by step.
Follows(g, n, a, step) ==
  g[0] = a /\ \A i \in 1..n : g[i] = step[<<g[i - 1], i>>]

LEMMA FollowsAgree ==
  ASSUME NEW a, NEW step, NEW m \in Nat, NEW n \in Nat, m <= n,
         NEW g, NEW h, Follows(g, m, a, step), Follows(h, n, a, step)
  PROVE  \A i \in 0..m : g[i] = h[i]
<1> DEFINE T == {i \in Nat : i <= m => g[i] = h[i]}
<1>1. 0 \in T
  BY DEF Follows
<1>2. ASSUME NEW i \in T
      PROVE  i + 1 \in T
  <2>1. CASE i + 1 <= m
    <3>1. g[i] = h[i] /\ i + 1 \in 1..m /\ i + 1 \in 1..n /\ (i + 1) - 1 = i
      BY <2>1
    <3>2. g[i + 1] = step[<<g[i], i + 1>>] /\ h[i + 1] = step[<<h[i], i + 1>>]
      BY <3>1 DEF Follows
    <3> QED
      BY <3>1, <3>2
  <2>2. CASE ~(i + 1 <= m)
    BY <2>2
  <2> QED
    BY <2>1, <2>2
<1>3. T \in SUBSET Nat
  OBVIOUS
<1> HIDE DEF T
<1>4. T = Nat
  BY <1>1, <1>2, <1>3, NatSetInduction
<1> QED
  BY <1>4 DEF T

LEMMA FollowsExists ==
  ASSUME NEW a, NEW step, NEW n \in Nat
  PROVE  \E g : Follows(g, n, a, step)
<1> DEFINE T == {k \in Nat : \E g : Follows(g, k, a, step)}
<1>1. 0 \in T
  <2>1. Follows([i \in 0..0 |-> a], 0, a, step)
    BY DEF Follows
  <2> QED
    BY <2>1
<1>2. ASSUME NEW k \in T
      PROVE  k + 1 \in T
  <2>1. PICK g : Follows(g, k, a, step)
    OBVIOUS
  <2> DEFINE h == [i \in 0..(k + 1) |-> IF i = k + 1 THEN step[<<g[k], k + 1>>] ELSE g[i]]
  <2>2. h[k + 1] = step[<<g[k], k + 1>>] /\ \A i \in 0..k : h[i] = g[i]
    OBVIOUS
  <2> HIDE DEF h
  <2>3. ASSUME NEW i \in 1..(k + 1)
        PROVE  h[i] = step[<<h[i - 1], i>>]
    <3>1. CASE i = k + 1
      <4>1. i - 1 = k /\ h[k] = g[k]
        BY <2>2, <3>1
      <4> QED
        BY <2>2, <3>1, <4>1
    <3>2. CASE i # k + 1
      <4>1. i \in 1..k /\ i \in 0..k /\ i - 1 \in 0..k
        BY <3>2
      <4>2. g[i] = step[<<g[i - 1], i>>]
        BY <2>1, <4>1 DEF Follows
      <4> QED
        BY <2>2, <4>1, <4>2
    <3> QED
      BY <3>1, <3>2
  <2>4. Follows(h, k + 1, a, step)
    BY <2>1, <2>2, <2>3 DEF Follows
  <2>5. k + 1 \in Nat
    OBVIOUS
  <2> QED
    BY <2>4, <2>5, Zenon
<1>3. T \in SUBSET Nat
  OBVIOUS
<1> HIDE DEF T
<1>4. T = Nat
  BY <1>1, <1>2, <1>3, NatSetInduction
<1> QED
  BY <1>4 DEF T

\* f starts with a and goes on by step for ever.
Iterates(f, a, step) ==
  /\ f = [n \in Nat |-> f[n]]
  /\ f[0] = a
  /\ \A n \in Nat : f[n + 1] = step[<<f[n], n + 1>>]

\* There is a function on Nat with a given first value and a given step.
LEMMA RecursionOnNat ==
  ASSUME NEW a, NEW step
  PROVE  \E f : Iterates(f, a, step)
<1> DEFINE G(n) == CHOOSE g : Follows(g, n, a, step)
           f == [n \in Nat |-> G(n)[n]]
<1>1. ASSUME NEW n \in Nat
      PROVE  Follows(G(n), n, a, step)
  BY FollowsExists
<1> HIDE DEF G
<1>2. f[0] = a
  BY <1>1 DEF Follows
<1>3. ASSUME NEW n \in Nat
      PROVE  f[n + 1] = step[<<f[n], n + 1>>]
  <2>1. \A i \in 0..n : G(n)[i] = G(n + 1)[i]
    BY <1>1, FollowsAgree
  <2>2. n + 1 \in 1..(n + 1) /\ n + 1 \in Nat /\ (n + 1) - 1 = n
    OBVIOUS
  <2>3. G(n + 1)[n + 1] = step[<<G(n + 1)[(n + 1) - 1], n + 1>>]
    BY <1>1, <2>2, Zenon DEF Follows
  <2> QED
    BY <2>1, <2>2, <2>3
<1>4. f = [n \in Nat |-> f[n]]
  OBVIOUS
<1>5. Iterates(f, a, step)
  BY <1>2, <1>3, <1>4 DEF Iterates
<1> QED
  BY <1>5

\* Its values are of the type that the step keeps.
LEMMA TypedRecursionOnNat ==
  ASSUME NEW S, NEW a \in S, NEW step \in [S \X Nat -> S]
  PROVE  \E f \in [Nat -> S] : Iterates(f, a, step)
<1>1. PICK f : Iterates(f, a, step)
  BY RecursionOnNat
<1> DEFINE T == {n \in Nat : f[n] \in S}
<1>2. 0 \in T
  BY <1>1 DEF Iterates
<1>3. ASSUME NEW n \in T
      PROVE  n + 1 \in T
  <2>1. n + 1 \in Nat /\ <<f[n], n + 1>> \in S \X Nat
    OBVIOUS
  <2>2. f[n + 1] = step[<<f[n], n + 1>>] /\ step[<<f[n], n + 1>>] \in S
    BY <1>1, <2>1 DEF Iterates
  <2> QED
    BY <2>1, <2>2
<1>4. T \in SUBSET Nat
  OBVIOUS
<1> HIDE DEF T
<1>5. T = Nat
  BY <1>2, <1>3, <1>4, NatSetInduction
<1>6. \A n \in Nat : f[n] \in S
  BY <1>5 DEF T
<1>7. f \in [Nat -> S]
  BY <1>1, <1>6 DEF Iterates
<1> QED
  BY <1>1, <1>7
=============================================================================
