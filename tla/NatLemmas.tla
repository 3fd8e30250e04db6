------------------------------ MODULE NatLemmas ------------------------------
(* What the proofs of this project need of the natural numbers: a set of    *)
(* them has a least member, and a bounded one a greatest.  Arguments over   *)
(* the length of a walk or of a sequence are made with these, by taking     *)
(* the least counterexample.                                                *)
EXTENDS Integers, WellFoundedInduction, TLAPS

LEMMA LeastNat ==
    ASSUME NEW T \in SUBSET Nat, T # {}
    PROVE  \E m \in T : \A k \in T : m <= k
<1>1. \E m \in T : \A k \in T : ~(<<k, m>> \in OpToRel(<, Nat))
  BY NatLessThanWellFounded, WFMin
<1>2. PICK m \in T : \A k \in T : ~(<<k, m>> \in OpToRel(<, Nat))
  BY <1>1
<1>3. ASSUME NEW k \in T, k < m
      PROVE  FALSE
  <2>1. <<k, m>> \in Nat \X Nat
    OBVIOUS
  <2> QED BY <1>2, <1>3, <2>1 DEF OpToRel
<1> QED BY <1>3

LEMMA GreatestNat ==
    ASSUME NEW T \in SUBSET Nat, T # {}, NEW b \in Nat, \A k \in T : k <= b
    PROVE  \E m \in T : \A k \in T : k <= m
<1> DEFINE Room == {b - k : k \in T}
<1>1. Room \in SUBSET Nat /\ Room # {}
  <2>1. PICK k \in T : TRUE
    OBVIOUS
  <2>2. b - k \in Room
    OBVIOUS
  <2> QED BY <2>2
<1>2. PICK d \in Room : \A e \in Room : d <= e
  BY <1>1, LeastNat
<1>3. PICK m \in T : d = b - m
  OBVIOUS
<1>4. ASSUME NEW k \in T
      PROVE  k <= m
  <2>1. d <= b - k
    BY <1>2
  <2> QED BY <1>3, <2>1
<1> QED BY <1>4

\* Induction: what holds of 0, and of n + 1 when it holds of n, holds of all.
LEMMA NatInductive ==
    ASSUME NEW S, 0 \in S, \A n \in Nat : n \in S => n + 1 \in S
    PROVE  Nat \subseteq S
<1>1. SUFFICES ASSUME Nat \ S # {}
               PROVE  FALSE
  OBVIOUS
<1>2. PICK m \in Nat \ S : \A k \in Nat \ S : m <= k
  BY <1>1, LeastNat
<1>3. m - 1 \in Nat /\ m - 1 \in S
  BY <1>2
<1> QED BY <1>2, <1>3
=============================================================================
