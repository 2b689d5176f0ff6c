------------------------------ MODULE NatProofs ------------------------------
(***************************************************************************)
(* Induction and recursion on the natural numbers, for sets instead of     *)
(* predicates and for functions instead of operators.  The prover cannot   *)
(* instantiate a theorem that takes an operator; it can apply one that     *)
(* takes a set.                                                            *)
(***************************************************************************)
EXTENDS Integers, WellFoundedInduction, TLAPS

\* A nonempty set of natural numbers has a least element.
LEMMA LeastNatural ==
  ASSUME NEW T \in SUBSET Nat, T # {}
  PROVE  \E n \in T : \A m \in T : n <= m
<1>1. IsWellFoundedOn(OpToRel(<, Nat), Nat)
  BY NatLessThanWellFounded
<1>2. \E x \in T : \A y \in T : ~(<<y, x>> \in OpToRel(<, Nat))
  BY <1>1, WFMin, Zenon
<1>3. \A x, y \in T : ~(<<y, x>> \in OpToRel(<, Nat)) => x <= y
  BY DEF OpToRel
<1>4. QED
  BY <1>2, <1>3

LEMMA SetInduction ==
  ASSUME NEW T \in SUBSET Nat, 0 \in T, \A n \in T : n + 1 \in T
  PROVE  T = Nat
<1>1. SUFFICES ASSUME Nat \ T # {} PROVE FALSE
  OBVIOUS
<1>2. PICK n \in Nat \ T : \A m \in Nat \ T : n <= m
  BY <1>1, LeastNatural
<1>3. n - 1 \in Nat /\ n - 1 + 1 = n
  BY <1>2
<1>4. n - 1 \in T
  BY <1>2, <1>3
<1>5. QED
  BY <1>2, <1>3, <1>4

-----------------------------------------------------------------------------
\* A recursion from a, in which step[n] takes the value after n steps to the next, and S has
\* all values.  This and what follows have names because the prover finds what to apply
\* the lemmas to by the names.
Within(S, a, step) == a \in S /\ \A n \in Nat : \A x \in S : step[n][x] \in S

\* f goes through the values of the recursion.
Solves(f, S, a, step) ==
  f \in [Nat -> S] /\ f[0] = a /\ \A n \in Nat : f[n + 1] = step[n][f[n]]

\* g computes the first n steps of the recursion from a.
Computes(g, n, S, a, step) ==
  /\ g \in [0 .. n -> S] /\ g[0] = a
  /\ \A i \in 0 .. n - 1 : g[i + 1] = step[i][g[i]]

\* A recursion can be carried as far as one likes, and how far does not change its values.
LEMMA ComputedForAll ==
  ASSUME NEW S, NEW a, NEW step, Within(S, a, step)
  PROVE  \A n \in Nat : \E g : Computes(g, n, S, a, step)
<1> DEFINE T == {n \in Nat : \E g : Computes(g, n, S, a, step)}
<1>1. 0 \in T
  <2>1. Computes([i \in 0 .. 0 |-> a], 0, S, a, step)
    BY DEF Computes, Within
  <2>2. QED
    BY <2>1
<1>2. ASSUME NEW n \in T PROVE n + 1 \in T
  <2>1. PICK g : Computes(g, n, S, a, step)
    OBVIOUS
  <2>2. n \in Nat /\ g[n] \in S /\ step[n][g[n]] \in S
    BY <2>1 DEF Computes, Within
  <2> DEFINE h == [i \in 0 .. n + 1 |-> IF i = n + 1 THEN step[n][g[n]] ELSE g[i]]
  <2>3. h \in [0 .. n + 1 -> S] /\ h[0] = a
    BY <2>1, <2>2 DEF Computes
  <2>4. ASSUME NEW i \in 0 .. n PROVE h[i + 1] = step[i][h[i]]
    <3>1. h[i] = g[i] /\ h[i + 1] = IF i = n THEN step[n][g[n]] ELSE g[i + 1]
      BY <2>2
    <3>2. CASE i = n
      BY <3>1, <3>2, Zenon
    <3>3. CASE i # n
      <4>1. i \in 0 .. n - 1 /\ h[i + 1] = g[i + 1]
        BY <2>2, <3>1, <3>3
      <4>2. QED
        BY <2>1, <3>1, <4>1 DEF Computes
    <3>4. QED
      BY <3>2, <3>3
  <2> HIDE DEF h
  <2>5. Computes(h, n + 1, S, a, step)
    <3>1. n + 1 - 1 = n
      BY <2>2
    <3>2. QED
      BY <2>3, <2>4, <3>1 DEF Computes
  <2>6. QED
    BY <2>2, <2>5
<1>3. T = Nat
  <2> HIDE DEF T
  <2>1. T \in SUBSET Nat
    BY DEF T
  <2>2. QED
    BY <1>1, <1>2, <2>1, SetInduction
<1>4. QED
  BY <1>3

LEMMA ComputedAlike ==
  ASSUME NEW S, NEW a, NEW step, Within(S, a, step),
         NEW m \in Nat, NEW n \in Nat, m <= n, NEW g, NEW h,
         Computes(g, m, S, a, step), Computes(h, n, S, a, step)
  PROVE  g[m] = h[m]
<1> DEFINE T == {i \in Nat : i <= m => g[i] = h[i]}
<1>1. 0 \in T
  BY DEF Computes
<1>2. ASSUME NEW i \in T PROVE i + 1 \in T
  <2>1. CASE i + 1 <= m
    <3>1. i \in 0 .. m - 1 /\ i \in 0 .. n - 1 /\ g[i] = h[i]
      BY <2>1
    <3>2. g[i + 1] = step[i][g[i]] /\ h[i + 1] = step[i][h[i]]
      BY <3>1 DEF Computes
    <3>3. QED
      BY <1>2, <3>1, <3>2
  <2>2. QED
    BY <2>1
<1>3. T = Nat
  <2> HIDE DEF T
  <2>1. T \in SUBSET Nat
    BY DEF T
  <2>2. QED
    BY <1>1, <1>2, <2>1, SetInduction
<1>4. QED
  BY <1>3

\* A recursion from a, in which a step depends on its number and on the value so far, has a
\* solution.
LEMMA Recursion ==
  ASSUME NEW S, NEW a, NEW step, Within(S, a, step)
  PROVE  \E f : Solves(f, S, a, step)
<1> DEFINE G == [n \in Nat |-> CHOOSE g : Computes(g, n, S, a, step)]
<1>1. \A n \in Nat : Computes(G[n], n, S, a, step)
  BY ComputedForAll
<1> HIDE DEF G
<1> DEFINE f == [n \in Nat |-> G[n][n]]
<1>2. f \in [Nat -> S] /\ f[0] = a
  BY <1>1 DEF Computes
<1>3. ASSUME NEW n \in Nat PROVE f[n + 1] = step[n][f[n]]
  <2>1. /\ Computes(G[n], n, S, a, step) /\ Computes(G[n + 1], n + 1, S, a, step)
          /\ n + 1 \in Nat /\ n <= n + 1 /\ n + 1 - 1 = n
    BY <1>1
  <2> HIDE DEF f
  <2>2. G[n][n] = G[n + 1][n]
    BY <2>1, ComputedAlike
  <2>3. G[n + 1][n + 1] = step[n][G[n + 1][n]]
    BY <2>1 DEF Computes
  <2>4. QED
    BY <2>1, <2>2, <2>3 DEF f
<1>4. QED
  BY <1>2, <1>3 DEF Solves
=============================================================================
