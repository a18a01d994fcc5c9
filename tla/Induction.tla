------------------------------ MODULE Induction ------------------------------
(***************************************************************************)
(* Induction over the natural numbers, from the fact that they are well    *)
(* founded: the facts are about sets of numbers and take no operator, so   *)
(* that what a recursive function computes can be proved with them.        *)
(***************************************************************************)
EXTENDS Naturals, FiniteSetsExt, WellFoundedInduction, TLAPS

\* A set of natural numbers that is not empty has a least one.
LEMMA LeastNatural ==
    ASSUME NEW T \in SUBSET Nat, T # {}
    PROVE  \E n \in T : \A m \in T : n <= m
<1> DEFINE R == OpToRel(<, Nat)
<1>1. IsWellFoundedOn(R, Nat)
  BY NatLessThanWellFounded, Zenon
<1>2. \E x \in T : \A y \in T : ~(<<y, x>> \in R)
  <2> HIDE DEF R
  <2> QED BY <1>1, WFMin, Zenon
<1>3. \A x, y \in Nat : y < x => <<y, x>> \in R
  BY DEF OpToRel
<1>4. PICK x \in T : \A y \in T : ~(<<y, x>> \in R)
  BY <1>2, Zenon
<1>5. \A y \in T : ~(y < x)
  BY <1>3, <1>4, Zenon
<1> QED
  <2>1. \A y \in T : x <= y
    BY <1>5
  <2> QED BY <2>1, Zenon

\* What holds of 0, and of n when it holds of n - 1, holds up to N.
LEMMA InductionUpTo ==
    ASSUME NEW N \in Nat, NEW T, 0 \in T,
           \A n \in 1 .. N : n - 1 \in T => n \in T
    PROVE  \A n \in 0 .. N : n \in T
<1>1. SUFFICES ASSUME (0 .. N) \ T # {} PROVE FALSE
  BY Zenon
<1>2. (0 .. N) \ T \in SUBSET Nat
  OBVIOUS
<1>3. PICK n \in (0 .. N) \ T : \A m \in (0 .. N) \ T : n <= m
  BY <1>1, <1>2, LeastNatural, Zenon
<1>4. n # 0 /\ n \in 1 .. N /\ n - 1 \in 0 .. N /\ ~(n <= n - 1)
  BY <1>3
<1>5. n - 1 \in T
  BY <1>3, <1>4, Zenon
<1> QED BY <1>3, <1>4, <1>5, Zenon

\* g[n] is what n steps of G make of base.
Iterates(g, V, base, N, G) ==
    /\ g \in [0 .. N -> V]
    /\ g[0] = base
    /\ \A i \in 1 .. N : g[i] = G[<<g[i - 1], i>>]

\* A recursive definition over 0 .. N defines a function.
LEMMA IterationExists ==
    ASSUME NEW V, NEW base, NEW N, NEW G, base \in V, N \in Nat, G \in [V \X (1 .. N) -> V]
    PROVE  \E g : Iterates(g, V, base, N, G)
<1> DEFINE T == {n \in 0 .. N : \E g : Iterates(g, V, base, n, G)}
<1>1. 0 \in T
  <2> DEFINE g == [i \in 0 .. 0 |-> base]
  <2>1. g \in [0 .. 0 -> V] /\ g[0] = base /\ 1 .. 0 = {} /\ 0 \in 0 .. N
    OBVIOUS
  <2> QED BY <2>1, Zenon DEF Iterates
<1>2. ASSUME NEW n \in 1 .. N, n - 1 \in T PROVE n \in T
  <2>1. PICK g : Iterates(g, V, base, n - 1, G)
    BY <1>2, Zenon
  <2> DEFINE h == [i \in 0 .. n |-> IF i = n THEN G[<<g[n - 1], n>>] ELSE g[i]]
  <2>2. h \in [0 .. n -> V]
    <3>1. n - 1 \in 0 .. n - 1 /\ \A i \in 0 .. n : i # n => i \in 0 .. n - 1
      OBVIOUS
    <3>2. g[n - 1] \in V
      BY <2>1, <3>1, Zenon DEF Iterates
    <3>3. G[<<g[n - 1], n>>] \in V
      BY <3>2
    <3> QED BY <2>1, <3>1, <3>3, Zenon DEF Iterates
  <2>3. \A i \in 0 .. n - 1 : i \in 0 .. n /\ i # n
    OBVIOUS
  <2>4. \A i \in 0 .. n - 1 : h[i] = g[i]
    BY <2>3, Zenon
  <2>5. h[n] = G[<<g[n - 1], n>>] /\ n - 1 \in 0 .. n - 1 /\ 0 \in 0 .. n - 1
    OBVIOUS
  <2>6. \A i \in 1 .. n : h[i] = G[<<h[i - 1], i>>]
    <3>1. ASSUME NEW i \in 1 .. n, i = n PROVE h[i] = G[<<h[i - 1], i>>]
      BY <3>1, <2>4, <2>5, Zenon
    <3>2. ASSUME NEW i \in 1 .. n, i # n PROVE h[i] = G[<<h[i - 1], i>>]
      <4>1. i \in 1 .. n - 1 /\ i \in 0 .. n - 1 /\ i - 1 \in 0 .. n - 1
        BY <3>2
      <4> QED BY <4>1, <2>1, <2>4, Zenon DEF Iterates
    <3> QED BY <3>1, <3>2, Zenon
  <2>7. h[0] = base
    BY <2>1, <2>4, <2>5, Zenon DEF Iterates
  <2> HIDE DEF h
  <2>8. Iterates(h, V, base, n, G)
    BY <2>2, <2>6, <2>7, Zenon DEF Iterates
  <2>9. n \in 0 .. N
    OBVIOUS
  <2> QED BY <2>8, <2>9, Zenon
<1>3. \A n \in 0 .. N : n \in T
  <2> HIDE DEF T
  <2> QED BY <1>1, <1>2, InductionUpTo, Zenon
<1>4. N \in 0 .. N
  OBVIOUS
<1> QED BY <1>3, <1>4, Zenon


\* Max of a bounded set of numbers is its greatest member.
LEMMA GreatestExists ==
    ASSUME NEW N \in Nat, NEW S \in SUBSET (1 .. N), S # {}
    PROVE  Max(S) \in S /\ \A k \in S : Max(S) >= k
<1> DEFINE T == {N - k : k \in S}
<1>1. T \in SUBSET Nat /\ T # {}
  <2>1. \A k \in S : N - k \in Nat
    OBVIOUS
  <2> QED BY <2>1, Zenon
<1>2. PICK d \in T : \A m \in T : d <= m
  <2> HIDE DEF T
  <2> QED BY <1>1, LeastNatural, Zenon
<1>3. PICK x \in S : d = N - x
  BY Zenon
<1>4. ASSUME NEW k \in S PROVE x >= k
  <2>1. N - x <= N - k
    BY <1>2, <1>3, Zenon
  <2>2. x \in Int /\ k \in Int
    OBVIOUS
  <2> QED BY <2>1, <2>2
<1> QED BY <1>4, Zenon DEF Max
=============================================================================
