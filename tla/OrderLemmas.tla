------------------------------ MODULE OrderLemmas ------------------------------
(***************************************************************************)
(* Least elements of sets of natural numbers, which the other proofs use   *)
(* wherever the code takes a minimum or the first of several.              *)
(***************************************************************************)
EXTENDS Integers, FiniteSetTheorems, TLAPS

\* Every non-empty set of naturals has a least element: the intervals 0..n are
\* finite, and strict inclusion of finite sets is well founded.
LEMMA LeastExists ==
    ASSUME NEW S \in SUBSET Nat, S # {}
    PROVE  \E m \in S : \A n \in S : m <= n
<1> DEFINE T == {0 .. n : n \in S}
<1>1. T \subseteq FiniteSubsetsOf(Nat) /\ T # {}
  <2>1. \A n \in S : 0 .. n \subseteq Nat /\ IsFiniteSet(0 .. n)
    BY FS_Interval, SMT
  <2>2. \A X \in T : X \subseteq Nat /\ IsFiniteSet(X)
    BY <2>1, Zenon
  <2>3. T # {}
    BY Zenon
  <2> HIDE DEF T
  <2>4. QED
    BY <2>2, <2>3, Zenon DEF FiniteSubsetsOf
<1>2. PICK x \in T : \A y \in T : <<y, x>> \notin StrictSubsetOrdering(Nat)
  <2> HIDE DEF T
  <2> QED
    BY <1>1, FS_StrictSubsetOrderingWellFounded, WFMin
<1>3. PICK m \in S : x = 0 .. m
  BY <1>2
<1>4. ASSUME NEW n \in S, n < m
      PROVE  FALSE
  <2>1. 0 .. n \subseteq 0 .. m /\ 0 .. n # 0 .. m
    <3>1. m \in 0 .. m /\ m \notin 0 .. n
      BY <1>4, SMT
    <3>2. QED
      BY <1>4, <3>1, SMT
  <2>2. <<0 .. n, 0 .. m>> \in StrictSubsetOrdering(Nat)
    BY <2>1, SMT DEF StrictSubsetOrdering
  <2>3. QED
    BY <1>2, <1>3, <2>2
<1>5. QED
  BY <1>4, SMT
===============================================================================
