---------------------------- MODULE BasicLemmas -----------------------------
(***************************************************************************)
(* Facts about numbers and sequences that the proofs about several         *)
(* components need.  Induction is stated of the set of the numbers that a  *)
(* property holds for; what the models define by recursion is reasoned     *)
(* about with it.                                                          *)
(***************************************************************************)
EXTENDS Integers, Sequences, WellFoundedInduction, TLAPS

(***************************************************************************)
(* A set of natural numbers that is not empty has a least element.         *)
(***************************************************************************)
LEMMA LeastElement ==
    ASSUME NEW T, T \subseteq Nat, T # {}
    PROVE  \E x \in T : \A y \in T : x <= y
  <1> DEFINE R == {ss \in Nat \X Nat : ss[1] < ss[2]}
  <1>1. IsWellFoundedOn(R, Nat)
    BY NatLessThanWellFounded, Zenon DEF OpToRel
  <1>2. \E x \in T : \A y \in T : ~(<<y, x>> \in R)
    <2> HIDE DEF R
    <2> QED
      BY <1>1, WFMin, Zenon
  <1>3. \A x, y \in Nat : ~(<<y, x>> \in R) => x <= y
    BY SMT
  <1> QED
    BY <1>2, <1>3

(***************************************************************************)
(* A set that holds 0, and the successor of each number it holds, holds    *)
(* every natural number.                                                   *)
(***************************************************************************)
LEMMA InductionOnSet ==
    ASSUME NEW S, 0 \in S, \A n \in Nat : n \in S => n + 1 \in S
    PROVE  \A n \in Nat : n \in S
  <1> DEFINE T == Nat \ S
  <1>1. SUFFICES ASSUME T # {} PROVE FALSE
    OBVIOUS
  <1>2. PICK x \in T : \A y \in T : x <= y
    BY <1>1, LeastElement
  <1>3. x \in Nat /\ x \notin S /\ x # 0
    BY <1>2
  <1>4. x - 1 \in Nat /\ x - 1 \in S
    BY <1>2, <1>3
  <1>5. (x - 1) + 1 \in S
    BY <1>4
  <1> QED
    BY <1>3, <1>5

(***************************************************************************)
(* A function on 1..n is a sequence of length n.                           *)
(***************************************************************************)
LEMMA FunctionIsSequence ==
    ASSUME NEW S, NEW n \in Nat, NEW f, f \in [1..n -> S]
    PROVE  f \in Seq(S) /\ Len(f) = n
  OBVIOUS

(***************************************************************************)
(* A function defined from its value one step before: step k takes a value *)
(* of V to another.                                                        *)
(***************************************************************************)
StepsWithin(F, N, V) == F \in [(1..N) \X V -> V]

Unfolds(f, v0, F, N) == f[0] = v0 /\ \A k \in 1..N : f[k] = F[<<k, f[k - 1]>>]

(***************************************************************************)
(* Such a function exists: it starts at v0 and takes every step of F.      *)
(***************************************************************************)
LEMMA RecursionExists ==
    ASSUME NEW V, NEW v0 \in V, NEW N \in Nat, NEW F, StepsWithin(F, N, V)
    PROVE  \E f \in [0..N -> V] : Unfolds(f, v0, F, N)
  <1>0. F \in [(1..N) \X V -> V]
    BY DEF StepsWithin
  <1> DEFINE IsRec(n, f) == f = [k \in 0..n |-> IF k = 0 THEN v0 ELSE F[<<k, f[k - 1]>>]]
             S == {n \in Nat : n <= N => \E f \in [0..n -> V] : IsRec(n, f)}
  <1>1. 0 \in S
    <2>1. [k \in 0..0 |-> v0] \in [0..0 -> V] /\ IsRec(0, [k \in 0..0 |-> v0])
      OBVIOUS
    <2> QED
      BY <2>1
  <1>2. ASSUME NEW n \in Nat, n \in S PROVE n + 1 \in S
    <2>1. SUFFICES ASSUME n + 1 <= N PROVE \E f \in [0..(n + 1) -> V] : IsRec(n + 1, f)
      OBVIOUS
    <2>2. PICK g \in [0..n -> V] : IsRec(n, g)
      BY <1>2, <2>1
    <2> DEFINE f == [k \in 0..(n + 1) |-> IF k = n + 1 THEN F[<<n + 1, g[n]>>] ELSE g[k]]
    <2>3. F[<<n + 1, g[n]>>] \in V
      BY <1>0, <2>1
    <2>4. f \in [0..(n + 1) -> V]
      BY <2>3
    <2>5. \A k \in 0..n : f[k] = g[k]
      OBVIOUS
    <2>6. ASSUME NEW k \in 0..(n + 1)
          PROVE  f[k] = IF k = 0 THEN v0 ELSE F[<<k, f[k - 1]>>]
      <3>1. CASE k = n + 1
        <4>1. k # 0 /\ k - 1 = n /\ n \in 0..n /\ f[k] = F[<<n + 1, g[n]>>]
          BY <3>1
        <4> HIDE DEF f
        <4> QED
          BY <2>5, <3>1, <4>1
      <3>2. CASE k \in 0..n
        <4>1. g[k] = IF k = 0 THEN v0 ELSE F[<<k, g[k - 1]>>]
          BY <2>2, <3>2
        <4>2. k # 0 => k - 1 \in 0..n
          BY <3>2
        <4> HIDE DEF f
        <4> QED
          BY <2>5, <3>2, <4>1, <4>2
      <3> QED
        BY <3>1, <3>2
    <2>7. IsRec(n + 1, f)
      <3>1. f = [k \in 0..(n + 1) |-> f[k]]
        OBVIOUS
      <3> HIDE DEF f
      <3> QED
        BY <2>6, <3>1
    <2> HIDE DEF f
    <2> QED
      BY <2>4, <2>7
  <1>3. N \in S
    <2> HIDE DEF S
    <2> QED
      BY <1>1, <1>2, InductionOnSet
  <1>4. PICK f \in [0..N -> V] : IsRec(N, f)
    BY <1>3
  <1>5. \A k \in 0..N : f[k] = IF k = 0 THEN v0 ELSE F[<<k, f[k - 1]>>]
    BY <1>4
  <1>6. Unfolds(f, v0, F, N)
    <2>1. f[0] = v0
      <3>1. 0 \in 0..N
        OBVIOUS
      <3> QED
        BY <1>5, <3>1, Zenon
    <2>2. ASSUME NEW k \in 1..N PROVE f[k] = F[<<k, f[k - 1]>>]
      <3>1. k \in 0..N /\ k # 0
        OBVIOUS
      <3> QED
        BY <1>5, <3>1
    <2> QED
      BY <2>1, <2>2 DEF Unfolds
  <1> HIDE DEF IsRec
  <1> QED
    BY <1>4, <1>6
=============================================================================
