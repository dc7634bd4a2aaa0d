---------------------------- MODULE NaturalFacts ----------------------------
(***************************************************************************)
(* Least elements, induction and recursion over the natural numbers.  A    *)
(* property is given as the set of the numbers that have it.               *)
(***************************************************************************)
EXTENDS Integers, WellFoundedInduction, TLAPS

(* A nonempty set of natural numbers has a least one. *)
LEMMA LeastNatural ==
    ASSUME NEW S, S \subseteq Nat, S # {}
    PROVE  \E m \in S : \A n \in S : m <= n
<1> DEFINE R == OpToRel(<, Nat)
<1>1. IsWellFoundedOn(R, Nat)
  BY NatLessThanWellFounded
<1>2. \A x, y \in Nat : y < x => <<y, x>> \in R
  BY DEF OpToRel
<1> HIDE DEF R
<1>3. PICK x \in S : \A y \in S : ~ (<<y, x>> \in R)
  BY <1>1, WFMin, Zenon
<1>4. \A y \in S : ~ (y < x)
  BY <1>2, <1>3
<1> QED  BY <1>4

(* What holds of 0 and of n + 1 whenever it holds of n holds of all. *)
LEMMA SetInduction ==
    ASSUME NEW S, 0 \in S, \A n \in Nat : n \in S => n + 1 \in S
    PROVE  Nat \subseteq S
<1> SUFFICES ASSUME Nat \ S # {} PROVE FALSE
  OBVIOUS
<1> DEFINE T == Nat \ S
<1>1. \E x \in T : \A y \in T : x <= y
  <2>1. T \subseteq Nat /\ T # {}
    OBVIOUS
  <2> HIDE DEF T
  <2> QED  BY <2>1, LeastNatural
<1>2. PICK x \in T : \A y \in T : x <= y
  BY <1>1
<1>3. x # 0 /\ x - 1 \in Nat /\ ~ (x <= x - 1)
  OBVIOUS
<1>4. x - 1 \in S
  BY <1>2, <1>3
<1>5. (x - 1) + 1 \in S
  BY <1>3, <1>4
<1> QED  BY <1>5

(* What holds of n whenever it holds of all below n holds of all. *)
LEMMA StrongInduction ==
    ASSUME NEW S, \A n \in Nat : (\A m \in Nat : m < n => m \in S) => n \in S
    PROVE  Nat \subseteq S
<1> SUFFICES ASSUME Nat \ S # {} PROVE FALSE
  OBVIOUS
<1> DEFINE T == Nat \ S
<1>1. T \subseteq Nat /\ T # {}
  OBVIOUS
<1> HIDE DEF T
<1>2. PICK x \in T : \A y \in T : x <= y
  BY <1>1, LeastNatural
<1>3. \A m \in Nat : m < x => m \in S
  BY <1>2 DEF T
<1> QED  BY <1>2, <1>3 DEF T

(* The scheme of a recursive function: the value at n, unless n is a base,   *)
(* is made by h from the value at g[n], which is less than n.                *)
Scheme(V, Base, b, h, g) ==
    /\ b \in [Nat -> V] /\ h \in [Nat -> [V -> V]] /\ g \in [Nat -> Nat]
    /\ \A n \in Nat : n \notin Base => g[n] < n

ObeysScheme(f, Base, b, h, g) ==
    \A n \in Nat : /\ n \in Base => f[n] = b[n]
                   /\ n \notin Base => f[n] = h[n][f[g[n]]]

(* Some function obeys it. *)
LEMMA RecursionDefines ==
    ASSUME NEW V, NEW Base, NEW b, NEW h, NEW g, Scheme(V, Base, b, h, g)
    PROVE  \E f \in [Nat -> V] : ObeysScheme(f, Base, b, h, g)
<1>0. /\ b \in [Nat -> V] /\ h \in [Nat -> [V -> V]] /\ g \in [Nat -> Nat]
      /\ \A n \in Nat : n \notin Base => g[n] < n
  BY DEF Scheme
<1> DEFINE Value(n, p) == IF n \in Base THEN b[n] ELSE h[n][p[g[n]]]
           Partial(n, p) == /\ p \in [0 .. n -> V]
                            /\ \A k \in 0 .. n : p[k] = Value(k, p)
<1>1. ASSUME NEW m \in Nat, NEW n \in Nat, NEW p, NEW q,
             Partial(m, p), Partial(n, q)
      PROVE  \A k \in (0 .. m) \cap (0 .. n) : p[k] = q[k]
  <2> DEFINE S == {k \in Nat : k \in (0 .. m) \cap (0 .. n) => p[k] = q[k]}
  <2>1. ASSUME NEW k \in Nat, \A j \in Nat : j < k => j \in S
        PROVE  k \in S
    <3>1. ASSUME k \in (0 .. m) \cap (0 .. n)
          PROVE  p[k] = q[k]
      <4>1. p[k] = Value(k, p) /\ q[k] = Value(k, q)
        BY <1>1, <3>1
      <4>2. CASE k \in Base
        BY <4>1, <4>2
      <4>3. CASE k \notin Base
        <5>1. g[k] \in Nat /\ g[k] < k
          BY <1>0, <4>3
        <5>2. p[g[k]] = q[g[k]]
          BY <2>1, <3>1, <5>1
        <5> QED  BY <4>1, <4>3, <5>2
      <4> QED  BY <4>2, <4>3
    <3> HIDE DEF Partial
    <3> QED  BY <3>1
  <2> HIDE DEF S
  <2>2. Nat \subseteq S
    BY <2>1, StrongInduction
  <2> QED  BY <2>2 DEF S
<1>2. \A n \in Nat : \E p : Partial(n, p)
  <2> DEFINE S == {n \in Nat : \E p : Partial(n, p)}
  <2>1. 0 \in S
    <3>1. 0 \in Base
      BY <1>0
    <3>2. Partial(0, [k \in 0 .. 0 |-> b[k]])
      BY <1>0, <3>1
    <3> QED  BY <3>2
  <2>2. ASSUME NEW n \in Nat, n \in S
        PROVE  n + 1 \in S
    <3>1. PICK p : Partial(n, p)
      BY <2>2
    <3> DEFINE q == [k \in 0 .. n + 1 |-> IF k <= n THEN p[k] ELSE Value(k, p)]
    <3>2. \A k \in 0 .. n : q[k] = p[k]
      OBVIOUS
    <3>3. \A k \in 0 .. n + 1 : k \notin Base => g[k] \in 0 .. n
      BY <1>0
    <3>4. \A k \in 0 .. n + 1 : Value(k, q) = Value(k, p)
      <4> HIDE DEF q
      <4> QED  BY <3>2, <3>3
    <3>5. \A k \in 0 .. n + 1 : Value(k, p) \in V
      <4> SUFFICES ASSUME NEW k \in 0 .. n + 1  PROVE Value(k, p) \in V
        OBVIOUS
      <4>1. CASE k \in Base
        BY <1>0, <4>1
      <4>2. CASE k \notin Base
        <5>1. p[g[k]] \in V
          BY <3>1, <3>3, <4>2
        <5> QED  BY <1>0, <4>2, <5>1
      <4> QED  BY <4>1, <4>2
    <3>6. q \in [0 .. n + 1 -> V]
      <4>1. \A k \in 0 .. n : p[k] \in V
        BY <3>1
      <4> HIDE DEF Value, Partial
      <4> QED  BY <3>5, <4>1
    <3>7. \A k \in 0 .. n + 1 : q[k] = Value(k, p)
      <4>1. \A k \in 0 .. n : p[k] = Value(k, p)
        BY <3>1
      <4> HIDE DEF Value, Partial
      <4> QED  BY <4>1
    <3>8. Partial(n + 1, q)
      BY <3>4, <3>6, <3>7
    <3> HIDE DEF Partial, q
    <3> QED  BY <3>8
  <2> HIDE DEF S
  <2>3. Nat \subseteq S
    BY <2>1, <2>2, SetInduction
  <2> QED  BY <2>3 DEF S
<1> DEFINE P == [n \in Nat |-> CHOOSE p : Partial(n, p)]
           f == [n \in Nat |-> P[n][n]]
<1>3. \A n \in Nat : Partial(n, P[n])
  BY <1>2, Zenon
<1> HIDE DEF P
<1>4. \A n \in Nat : P[n][n] \in V
  <2> TAKE n \in Nat
  <2>1. P[n] \in [0 .. n -> V] /\ n \in 0 .. n
    BY <1>3
  <2> QED  BY <2>1
<1>5. ASSUME NEW n \in Nat
      PROVE  f[n] = Value(n, f)
  <2>1. f[n] = Value(n, P[n])
    BY <1>3
  <2>2. CASE n \in Base
    BY <2>1, <2>2
  <2>3. CASE n \notin Base
    <3>1. g[n] \in Nat /\ g[n] < n
      BY <1>0, <2>3
    <3>2. g[n] \in (0 .. n) \cap (0 .. g[n])
      BY <3>1
    <3>3. Partial(n, P[n]) /\ Partial(g[n], P[g[n]])
      BY <1>3, <3>1
    <3> HIDE DEF Partial
    <3>4. P[n][g[n]] = P[g[n]][g[n]]
      BY <1>1, <3>1, <3>2, <3>3
    <3>5. f[g[n]] = P[g[n]][g[n]]
      BY <3>1
    <3> QED  BY <2>1, <2>3, <3>4, <3>5
  <2> QED  BY <2>2, <2>3
<1> QED  BY <1>4, <1>5 DEF ObeysScheme

(* The least element of a set of naturals is what CHOOSE finds. *)
LEMMA LeastIsChosen ==
    ASSUME NEW S, S \subseteq Nat, NEW m \in S, \A k \in S : m <= k
    PROVE  (CHOOSE j \in S : \A k \in S : j <= k) = m
<1> DEFINE c == CHOOSE j \in S : \A k \in S : j <= k
<1>1. c \in S /\ \A k \in S : c <= k
  OBVIOUS
<1> HIDE DEF c
<1>2. c = m
  BY <1>1
<1> QED  BY <1>2 DEF c
=============================================================================
