------------------------------ MODULE Induction ------------------------------
(***************************************************************************)
(* Induction over the natural numbers and definition by recursion, stated  *)
(* of sets and functions, so that the provers can be given an instance:    *)
(* what the lemmas about sums, lists and texts of the other modules rest   *)
(* on. A set stands for the formula to be proved, a function for the right *)
(* side of a recursive definition.                                         *)
(***************************************************************************)
EXTENDS Integers, WellFoundedInduction, TLAPS

\* A set of natural numbers has a least element.
LEMMA LeastElement ==
    ASSUME NEW T, T \subseteq Nat, T # {}
    PROVE  \E m \in T : \A k \in T : m <= k
  <1> DEFINE R == OpToRel(<, Nat)
  <1>1. IsWellFoundedOn(R, Nat)
    BY NatLessThanWellFounded, Zenon
  <1>2. \A j, k \in Nat : j < k => <<j, k>> \in R
    BY Zenon DEF OpToRel
  <1> HIDE DEF R
  <1>3. PICK m \in T : \A k \in T : <<k, m>> \notin R
    BY <1>1, WFMin
  <1>4. ASSUME NEW k \in T
        PROVE  m <= k
    <2>1. m \in Nat /\ k \in Nat
      OBVIOUS
    <2>2. ~(k < m)
      BY <2>1, <1>2, <1>3
    <2> QED
      BY <2>1, <2>2
  <1> QED
    BY <1>4

\* What holds of 0, and below n of the successor of each number it holds of, holds
\* up to n.
LEMMA InductionTo ==
    ASSUME NEW S, NEW n \in Nat,
           0 \in S,
           \A k \in Nat : k < n /\ k \in S => k + 1 \in S
    PROVE  \A k \in 0..n : k \in S
  <1> DEFINE T == {k \in 0..n : k \notin S}
  <1> SUFFICES ASSUME T # {} PROVE FALSE
    OBVIOUS
  <1>1. T \subseteq Nat
    OBVIOUS
  <1>2. PICK m \in T : \A k \in T : m <= k
    <2> HIDE DEF T
    <2> QED BY <1>1, LeastElement
  <1>3. m # 0 /\ m \in 0..n /\ m \notin S
    OBVIOUS
  <1>4. m - 1 \in 0..n /\ m - 1 \notin T /\ m - 1 < n /\ m - 1 \in Nat
    BY <1>2, <1>3
  <1>5. m - 1 \in S
    BY <1>4
  <1> QED
    BY <1>3, <1>4, <1>5

\* The right sides of recursive definitions of functions from D to V.
Steps(D, V) == [D -> [[D -> V] -> V]]

\* The value at d depends on the values at arguments of lower rank only.
LooksBack(D, V, rank, step) ==
    \A d \in D : \A g, h \in [D -> V] :
       (\A e \in D : rank[e] < rank[d] => g[e] = h[e]) => step[d][g] = step[d][h]

\* f is a function so defined.
Solves(D, V, step, f) == f \in [D -> V] /\ \A d \in D : f[d] = step[d][f]

\* There is a function for every recursive definition that looks back.
LEMMA Recursion ==
    ASSUME NEW D, NEW V, NEW v, v \in V,
           NEW N, N \in Nat, NEW rank, rank \in [D -> 0..N],
           NEW step, step \in Steps(D, V), LooksBack(D, V, rank, step)
    PROVE  \E f : Solves(D, V, step, f)
  <1> USE DEF Steps, LooksBack
  <1> DEFINE F == [D -> V]
             Good(k, g) == \A d \in D : rank[d] < k => g[d] = step[d][g]
             S == {k \in 0..(N + 1) : \E g \in F : Good(k, g)}
  <1>0. \A d \in D : rank[d] \in 0..N /\ rank[d] \in Nat
    OBVIOUS
  <1>1. 0 \in S
    <2>1. [d \in D |-> v] \in F
      OBVIOUS
    <2>2. \A g : Good(0, g)
      BY <1>0
    <2> HIDE DEF F, Good
    <2> QED
      BY <2>1, <2>2
  <1>2. \A k \in Nat : k < N + 1 /\ k \in S => k + 1 \in S
    <2> SUFFICES ASSUME NEW k \in Nat, k < N + 1, k \in S
                 PROVE  k + 1 \in S
      <3> HIDE DEF S
      <3> QED
        OBVIOUS
    <2>1. PICK g \in F : Good(k, g)
      <3> HIDE DEF F, Good
      <3> QED
        OBVIOUS
    <2> DEFINE h == [d \in D |-> IF rank[d] = k THEN step[d][g] ELSE g[d]]
    <2>2. h \in F
      OBVIOUS
    <2>3. \A d \in D : rank[d] = k => h[d] = step[d][g]
      OBVIOUS
    <2>4. \A d \in D : rank[d] # k => h[d] = g[d]
      OBVIOUS
    <2> HIDE DEF h
    <2>5. ASSUME NEW d \in D, rank[d] < k + 1
          PROVE  h[d] = step[d][h]
      <3>1. step[d][g] = step[d][h]
        <4>1. \A e \in D : rank[e] < rank[d] => g[e] = h[e]
          BY <1>0, <2>4, <2>5
        <4> QED
          BY <2>2, <4>1
      <3>2. h[d] = step[d][g]
        <4>1. CASE rank[d] = k
          BY <2>3, <4>1
        <4>2. CASE rank[d] # k
          <5>1. rank[d] < k
            <6>1. rank[d] \in Nat /\ rank[d] < k + 1 /\ rank[d] # k
              BY <1>0, <2>5, <4>2
            <6>2. \A r \in Nat : r < k + 1 /\ r # k => r < k
              OBVIOUS
            <6> QED
              BY <6>1, <6>2, Zenon
          <5> QED
            BY <2>1, <2>4, <4>2, <5>1
        <4> QED
          BY <4>1, <4>2
      <3> QED
        BY <3>1, <3>2
    <2>6. Good(k + 1, h)
      BY <2>5
    <2>7. k + 1 \in 0..(N + 1)
      OBVIOUS
    <2> HIDE DEF F, Good
    <2> QED
      BY <2>2, <2>6, <2>7
  <1>3. \A k \in 0..(N + 1) : k \in S
    <2>1. N + 1 \in Nat
      OBVIOUS
    <2> HIDE DEF S
    <2> QED
      BY <1>1, <1>2, <2>1, InductionTo, Zenon
  <1>4. PICK g \in F : Good(N + 1, g)
    <2>1. N + 1 \in S
      <3> HIDE DEF S
      <3> QED
        BY <1>3
    <2> HIDE DEF F, Good
    <2> QED
      BY <2>1
  <1>5. \A d \in D : g[d] = step[d][g]
    BY <1>0, <1>4
  <1> QED
    BY <1>4, <1>5 DEF Solves
==============================================================================
