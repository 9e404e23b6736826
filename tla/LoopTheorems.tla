---------------------------- MODULE LoopTheorems ----------------------------
(***************************************************************************)
(* What the proofs about loops rest on: induction up to a bound, that a    *)
(* loop of n rounds has a state after every round, what holds of these     *)
(* states, and that a set of natural numbers has a smallest one.           *)
(***************************************************************************)
EXTENDS Integers, WellFoundedInduction, TLAPS

(* What holds of 0, and of k + 1 when it holds of k < n, holds of n. *)
LEMMA IntervalInduction ==
    ASSUME NEW n \in Nat, NEW T, 0 \in T, \A k \in T : k \in 0..n /\ k < n => k + 1 \in T
    PROVE  \A k \in 0..n : k \in T
<1> DEFINE R == OpToRel(<, Nat)
           D == (0..n) \ T
<1>1. IsWellFoundedOn(R, Nat)
  BY NatLessThanWellFounded, Zenon
<1>2. D \in SUBSET Nat
  OBVIOUS
<1>3. SUFFICES ASSUME D # {} PROVE FALSE
  OBVIOUS
<1>4. PICK d \in D : \A e \in D : ~ (<<e, d>> \in R)
  <2> HIDE DEF R, D
  <2> QED BY <1>1, <1>2, <1>3, WFMin, Zenon
<1>5. \A e \in D : ~(e < d)
  BY <1>2, <1>4 DEF OpToRel
<1>6. d \in 1..n
  OBVIOUS
<1>7. d - 1 \in 0..n /\ d - 1 < d /\ d - 1 < n /\ d - 1 + 1 = d
  BY <1>6
<1>8. d - 1 \in T
  BY <1>5, <1>7
<1>9. d \in T
  BY <1>7, <1>8
<1> QED BY <1>9

(* g holds the state st a loop starts in and the states after its n rounds,
   round i of which is F[i]. *)
LoopRun(n, st, F, g) == g = [i \in 0..n |-> IF i = 0 THEN st ELSE F[i][g[i - 1]]]

(* A loop of n rounds has a state after every round. *)
LEMMA LoopExists ==
    ASSUME NEW n \in Nat, NEW st, NEW F
    PROVE  \E g : LoopRun(n, st, F, g)
<1> DEFINE Runs(m, g) == g = [i \in 0..m |-> IF i = 0 THEN st ELSE F[i][g[i - 1]]]
           T == {m \in 0..n : \E g : Runs(m, g)}
<1>1. 0 \in T
  <2>1. Runs(0, [i \in 0..0 |-> st])
    <3>1. \A i \in 0..0 : i = 0
      OBVIOUS
    <3> QED BY <3>1
  <2>2. 0 \in 0..n
    OBVIOUS
  <2> HIDE DEF Runs
  <2> QED BY <2>1, <2>2
<1>2. ASSUME NEW k \in T, k < n PROVE k + 1 \in T
  <2>1. PICK g : Runs(k, g)
    OBVIOUS
  <2> DEFINE h == [i \in 0..(k + 1) |-> IF i <= k THEN g[i] ELSE F[k + 1][g[k]]]
  <2>2. k \in Nat /\ k + 1 \in 0..n
    BY <1>2
  <2>3. ASSUME NEW i \in 0..(k + 1)
        PROVE  h[i] = IF i = 0 THEN st ELSE F[i][h[i - 1]]
    <3>1. CASE i = 0
      <4>1. g[0] = st /\ h[0] = g[0]
        BY <2>1, <2>2
      <4> QED BY <4>1, <3>1
    <3>2. CASE i # 0 /\ i <= k
      <4>1. i \in 0..k /\ i - 1 \in 0..(k + 1) /\ i - 1 <= k
        BY <3>2, <2>2
      <4>2. g[i] = F[i][g[i - 1]]
        BY <4>1, <3>2, <2>1
      <4>3. h[i] = g[i] /\ h[i - 1] = g[i - 1]
        BY <4>1, <3>2
      <4> QED BY <4>2, <4>3, <3>2
    <3>3. CASE i = k + 1
      <4>1. k \in 0..(k + 1) /\ k <= k /\ ~(k + 1 <= k) /\ k + 1 # 0 /\ i - 1 = k
        BY <3>3, <2>2
      <4>2. h[k] = g[k]
        BY <4>1
      <4>3. h[i] = F[k + 1][g[k]]
        BY <4>1, <3>3
      <4> QED BY <4>1, <4>2, <4>3, <3>3
    <3> QED BY <3>1, <3>2, <3>3, <2>2
  <2>4. DOMAIN h = 0..(k + 1) /\ h = [i \in 0..(k + 1) |-> h[i]]
    OBVIOUS
  <2>5. Runs(k + 1, h)
    <3> HIDE DEF h
    <3>1. h = [i \in 0..(k + 1) |-> IF i = 0 THEN st ELSE F[i][h[i - 1]]]
      BY <2>3, <2>4
    <3> QED BY <3>1
  <2> HIDE DEF Runs, h
  <2> QED BY <2>2, <2>5
<1> HIDE DEF T
<1>3. \A k \in 0..n : k \in T
  BY <1>1, <1>2, IntervalInduction
<1>4. n \in T
  BY <1>3
<1>5. PICK g : Runs(n, g)
  BY <1>4 DEF T
<1> QED BY <1>5 DEF LoopRun

(* After k rounds that lead from D[0] to D[1], D[2], ... the state is in D[k]. *)
LEMMA LoopIn ==
    ASSUME NEW n \in Nat, NEW st, NEW F, NEW g, NEW D, LoopRun(n, st, F, g), st \in D[0],
           \A k \in 0..n : k < n => \A x \in D[k] : F[k + 1][x] \in D[k + 1]
    PROVE  \A k \in 0..n : g[k] \in D[k]
<1> DEFINE T == {k \in 0..n : g[k] \in D[k]}
<1>1. 0 \in T
  BY DEF LoopRun
<1>2. ASSUME NEW k \in T, k < n PROVE k + 1 \in T
  <2>1. PICK m : m = k + 1
    OBVIOUS
  <2>2. m \in 0..n /\ m # 0 /\ m - 1 = k
    BY <2>1, <1>2
  <2>3. g[m] = F[m][g[m - 1]]
    BY <2>2 DEF LoopRun
  <2>4. F[k + 1][g[k]] \in D[k + 1]
    BY <1>2
  <2> QED BY <2>1, <2>2, <2>3, <2>4
<1> HIDE DEF T
<1>3. \A k \in 0..n : k \in T
  BY <1>1, <1>2, IntervalInduction
<1> QED BY <1>3 DEF T

LEMMA SmallestOf ==
    ASSUME NEW S, S \subseteq Nat, S # {}
    PROVE  \E d \in S : \A c \in S : d <= c
<1> DEFINE R == OpToRel(<, Nat)
<1>1. IsWellFoundedOn(R, Nat)
  BY NatLessThanWellFounded, Zenon
<1>2. PICK d \in S : \A e \in S : ~ (<<e, d>> \in R)
  <2> HIDE DEF R
  <2>1. S \in SUBSET Nat
    OBVIOUS
  <2> QED BY <1>1, <2>1, WFMin, Zenon
<1>3. ASSUME NEW e \in S PROVE d <= e
  <2>1. d \in Nat /\ e \in Nat /\ ~(<<e, d>> \in R)
    BY <1>2
  <2>2. ~(e < d)
    BY <2>1 DEF OpToRel
  <2> HIDE DEF R
  <2> QED BY <2>1, <2>2
<1> HIDE DEF R
<1> QED BY <1>3
=============================================================================
