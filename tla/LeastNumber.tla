---------------------------- MODULE LeastNumber -----------------------------
(***************************************************************************)
(* Every set of naturals that is not empty has a least element: what the   *)
(* proofs use for the choices of the code ("the first in the set") and,    *)
(* as the least counterexample, for induction.                             *)
(***************************************************************************)
EXTENDS Integers, FiniteSets, FiniteSetTheorems, WellFoundedInduction, TLAPS

\* The elements below k form a finite set that grows with k, and strict
\* inclusion of finite sets is well founded.
LEMMA LeastOfNaturals ==
  ASSUME NEW S \in SUBSET Nat, S # {}
  PROVE  \E m \in S : \A k \in S : m <= k
<1> DEFINE below(k) == {j \in S : j < k}
           family == {below(k) : k \in S}
<1>1. family \subseteq FiniteSubsetsOf(Nat) /\ family # {}
  <2> SUFFICES ASSUME NEW k \in S
               PROVE  below(k) \in FiniteSubsetsOf(Nat)
    OBVIOUS
  <2>1. k \in Nat /\ below(k) \in SUBSET Nat
    OBVIOUS
  <2>2. \A j \in below(k) : j <= k
    <3> SUFFICES ASSUME NEW j \in S, j < k
                 PROVE  j <= k
      OBVIOUS
    <3> QED
      OBVIOUS
  <2>3. IsFiniteSet(below(k))
    BY <2>1, <2>2, FS_BoundedSetOfNaturals
  <2> QED
    BY <2>1, <2>3 DEF FiniteSubsetsOf
<1>2. PICK least \in family : \A T \in family : <<T, least>> \notin StrictSubsetOrdering(Nat)
  <2> HIDE DEF family
  <2> QED
    BY <1>1, WFMin, FS_StrictSubsetOrderingWellFounded
<1>3. PICK m \in S : least = below(m)
  OBVIOUS
<1>4. \A k \in S : m <= k
  <2> SUFFICES ASSUME NEW k \in S, k < m
               PROVE  FALSE
    OBVIOUS
  <2>1. below(k) \subseteq below(m)
    <3> SUFFICES ASSUME NEW j \in S, j < k
                 PROVE  j < m
      OBVIOUS
    <3> QED
      BY j \in Nat, k \in Nat, m \in Nat
  <2>2. k \in below(m) /\ k \notin below(k)
    <3>1. ~(k < k)
      BY k \in Nat
    <3> QED
      BY <3>1
  <2>3. <<below(k), below(m)>> \in StrictSubsetOrdering(Nat)
    <3>1. below(k) \in SUBSET Nat /\ below(m) \in SUBSET Nat /\ below(k) # below(m)
      BY <2>2
    <3> QED
      BY <2>1, <3>1 DEF StrictSubsetOrdering
  <2> QED
    BY <1>2, <1>3, <2>3
<1> QED
  BY <1>4

\* What holds of 0, and of each number whose predecessor it holds of, holds of
\* all: the least number it does not hold of is not 0 and has a predecessor.
LEMMA AllNumbers ==
  ASSUME NEW K \in Nat, NEW S \in SUBSET (0 .. K), 0 \in S,
         \A k \in 1 .. K : k - 1 \in S => k \in S
  PROVE  \A k \in 0 .. K : k \in S
<1> DEFINE rest == (0 .. K) \ S
<1> SUFFICES ASSUME rest # {}
             PROVE  FALSE
  OBVIOUS
<1>1. rest \in SUBSET Nat
  OBVIOUS
<1>2. PICK m \in rest : \A k \in rest : m <= k
  <2> HIDE DEF rest
  <2> QED
    BY <1>1, LeastOfNaturals
<1>3. m \in 1 .. K /\ m \notin S
  OBVIOUS
<1>4. m - 1 \notin rest /\ m - 1 \in 0 .. K
  BY <1>2, <1>3
<1> QED
  BY <1>3, <1>4

\* What taking a step K times goes through.
Iterated(g, K, V, start, step) ==
  /\ g \in [0 .. K -> V]
  /\ g[0] = start
  /\ \A k \in 1 .. K : g[k] = step[g[k-1]]

\* A step from values to values can be taken any number of times.
LEMMA Iterates ==
  ASSUME NEW V, NEW start \in V, NEW step \in [V -> V], NEW K \in Nat
  PROVE  \E g : Iterated(g, K, V, start, step)
<1> DEFINE Is(n, g) == g[0] = start /\ \A k \in 1 .. n : g[k] = step[g[k-1]]
           S == {n \in 0 .. K : \E g \in [0 .. n -> V] : Is(n, g)}
<1>1. 0 \in S
  <2> DEFINE h == [k \in 0 .. 0 |-> start]
  <2>1. h \in [0 .. 0 -> V] /\ h[0] = start /\ 0 \in 0 .. K
    OBVIOUS
  <2>2. 1 .. 0 = {}
    OBVIOUS
  <2> HIDE DEF h
  <2>3. Is(0, h)
    BY <2>1, <2>2
  <2> QED
    BY <2>1, <2>3
<1>2. ASSUME NEW n \in 1 .. K, n - 1 \in S
      PROVE  n \in S
  <2>1. PICK g \in [0 .. n - 1 -> V] : Is(n - 1, g)
    BY <1>2
  <2> DEFINE h == [k \in 0 .. n |-> IF k = n THEN step[g[n-1]] ELSE g[k]]
  <2>2. n \in Nat /\ n - 1 \in 0 .. n - 1 /\ 0 \in 0 .. n - 1
    OBVIOUS
  <2>3. \A k \in 0 .. n : k # n => k \in 0 .. n - 1
    OBVIOUS
  <2>4. h \in [0 .. n -> V]
    <3>1. g[n-1] \in V /\ step[g[n-1]] \in V
      BY <2>2
    <3>2. \A k \in 0 .. n : k # n => g[k] \in V
      BY <2>3
    <3> QED
      BY <3>1, <3>2
  <2>5. h[n] = step[g[n-1]] /\ h[n-1] = g[n-1] /\ h[0] = g[0]
    BY <2>2
  <2>6. ASSUME NEW k \in 1 .. n, k # n
        PROVE  h[k] = step[h[k-1]]
    <3>1. k \in 1 .. n - 1 /\ k \in 0 .. n /\ k - 1 \in 0 .. n /\ k - 1 # n
      BY <2>6
    <3>2. h[k] = g[k] /\ h[k-1] = g[k-1]
      BY <2>6, <3>1
    <3> QED
      BY <2>1, <3>1, <3>2
  <2> HIDE DEF h
  <2>7. Is(n, h)
    BY <2>1, <2>5, <2>6
  <2> QED
    BY <2>4, <2>7
<1>3. S \in SUBSET (0 .. K)
  OBVIOUS
<1>4. K \in S
  <2> HIDE DEF S
  <2> QED
    BY <1>1, <1>2, <1>3, AllNumbers
<1> QED
  BY <1>4 DEF Iterated

=============================================================================
