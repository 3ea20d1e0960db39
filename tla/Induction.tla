----------------------------- MODULE Induction -----------------------------
(***************************************************************************)
(* Induction over the natural numbers, for sets in place of predicates,    *)
(* and what follows for functions defined by recursion on 0..n.  Sums over *)
(* the rows of a table and options parsed one after the other need it.     *)
(***************************************************************************)
EXTENDS Integers, WellFoundedInduction, TLAPS

LEMMA LeastNatural ==
  ASSUME NEW T, T \subseteq Nat, T # {}
  PROVE  \E m \in T : \A n \in T : m <= n
<1> DEFINE R == OpToRel(<, Nat)
<1>1. IsWellFoundedOn(R, Nat)
  BY NatLessThanWellFounded
<1>2. \A x, y \in Nat : <<y, x>> \in R <=> y < x
  BY DEF OpToRel
<1> HIDE DEF R
<1>3. PICK m \in T : \A n \in T : ~ (<<n, m>> \in R)
  BY <1>1, WFMin
<1>4. m \in Nat /\ \A n \in T : n \in Nat /\ ~(n < m)
  BY <1>2, <1>3
<1> QED BY <1>3, <1>4

LEMMA NaturalInduction ==
  ASSUME NEW S, 0 \in S, \A n \in Nat : n \in S => n + 1 \in S
  PROVE  Nat \subseteq S
<1> DEFINE T == Nat \ S
<1> SUFFICES ASSUME T # {} PROVE FALSE
  OBVIOUS
<1>1. T \subseteq Nat
  OBVIOUS
<1>2. PICK m \in T : \A n \in T : m <= n
  <2> HIDE DEF T
  <2> QED BY <1>1, LeastNatural
<1>3. m # 0 /\ m - 1 \in Nat /\ m - 1 \notin T
  BY <1>2
<1> QED BY <1>3

\* f goes up from c by one step after the other, as far as m.
Climbs(f, c, step, m) == f[0] = c /\ \A k \in 1..m : f[k] = step[k][f[k - 1]]

\* A recursion that goes up by one has a solution.
LEMMA RecursionSolved ==
  ASSUME NEW V, NEW c \in V, NEW n \in Nat, NEW step \in [1..n -> [V -> V]]
  PROVE  \E f \in [0..n -> V] : Climbs(f, c, step, n)
<1> DEFINE S == {m \in Nat : m <= n => \E f \in [0..m -> V] : Climbs(f, c, step, m)}
<1>1. 0 \in S
  <2> DEFINE g == [k \in 0..0 |-> c]
  <2>1. g \in [0..0 -> V] /\ Climbs(g, c, step, 0)
    BY DEF Climbs
  <2> QED BY <2>1
<1>2. ASSUME NEW m \in Nat, m \in S PROVE m + 1 \in S
  <2>1. SUFFICES ASSUME m + 1 <= n
                 PROVE  \E f \in [0..(m + 1) -> V] : Climbs(f, c, step, m + 1)
    OBVIOUS
  <2>2. PICK f \in [0..m -> V] : Climbs(f, c, step, m)
    BY <1>2, <2>1
  <2> DEFINE g == [k \in 0..(m + 1) |-> IF k <= m THEN f[k] ELSE step[m + 1][f[m]]]
  <2>3. f[m] \in V /\ m + 1 \in 1..n
    BY <2>1, <2>2
  <2>4. step[m + 1][f[m]] \in V
    BY <2>3
  <2>5. g \in [0..(m + 1) -> V]
    BY <2>2, <2>4
  <2>6. \A k \in 0..m : g[k] = f[k]
    OBVIOUS
  <2>7. g[m + 1] = step[m + 1][f[m]] /\ g[m] = f[m]
    OBVIOUS
  <2> HIDE DEF g
  <2>8. ASSUME NEW k \in 1..(m + 1) PROVE g[k] = step[k][g[k - 1]]
    <3>1. CASE k = m + 1
      BY <2>7, <3>1
    <3>2. CASE k # m + 1
      <4>1. k \in 1..m /\ k \in 0..m /\ k - 1 \in 0..m
        BY <3>2
      <4> QED BY <2>2, <2>6, <4>1 DEF Climbs
    <3> QED BY <3>1, <3>2
  <2>9. g[0] = c
    BY <2>2, <2>6 DEF Climbs
  <2> QED BY <2>5, <2>8, <2>9 DEF Climbs
<1>3. n \in S
  <2> HIDE DEF S
  <2> QED BY <1>1, <1>2, NaturalInduction
<1> QED BY <1>3
=============================================================================
