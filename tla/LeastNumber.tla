----------------------------- MODULE LeastNumber -----------------------------
(* Every set of natural numbers that is not empty has a least element: what *)
(* inductions over data, in the proofs that need them, come down to.  One   *)
(* takes the least number a statement is wrong for and shows it is right.   *)
EXTENDS Naturals, WellFoundedInduction, TLAPS

LEMMA LeastElement ==
  ASSUME NEW T \in SUBSET Nat, T # {}
  PROVE  \E n \in T : \A m \in T : n <= m
  <1> DEFINE Less == {p \in Nat \X Nat : p[1] < p[2]}
  <1>1. IsWellFoundedOn(Less, Nat)
    <2>1. Less = OpToRel(<, Nat)
      BY DEF OpToRel
    <2> QED
      BY <2>1, NatLessThanWellFounded
  <1>2. ASSUME NEW n \in Nat, NEW m \in Nat, m < n
        PROVE  <<m, n>> \in Less
    <2>1. <<m, n>> \in Nat \X Nat
      OBVIOUS
    <2>2. <<m, n>>[1] < <<m, n>>[2]
      BY <1>2
    <2> QED
      BY <2>1, <2>2
  <1> HIDE DEF Less
  <1>3. PICK n \in T : \A m \in T : ~ (<<m, n>> \in Less)
    BY <1>1, WFMin
  <1>4. ASSUME NEW m \in T PROVE n <= m
    <2>1. ~ (m < n)
      BY <1>2, <1>3
    <2> QED
      BY <2>1
  <1> QED
    BY <1>4

(* The form the proofs use: a set of naturals that holds 0 and, with the   *)
(* predecessor of a number, the number, holds all of them up to a bound.   *)
LEMMA UpTo ==
  ASSUME NEW N \in Nat, NEW S,
         0 \in S,
         \A n \in 1..N : n - 1 \in S => n \in S
  PROVE  \A n \in 0..N : n \in S
  <1> DEFINE T == {n \in 0..N : n \notin S}
  <1> SUFFICES ASSUME T # {} PROVE FALSE
    OBVIOUS
  <1>1. PICK n \in T : \A m \in T : n <= m
    <2>1. T \in SUBSET Nat
      OBVIOUS
    <2> QED
      BY <2>1, LeastElement
  <1>2. n # 0 /\ n \in 1..N
    BY <1>1
  <1>3. n - 1 \in 0..N /\ n - 1 \notin T
    BY <1>1, <1>2
  <1> QED
    BY <1>2, <1>3
=============================================================================
