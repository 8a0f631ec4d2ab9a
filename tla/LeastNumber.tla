---------------------------- MODULE LeastNumber ----------------------------
(***************************************************************************)
(* The least-number principle for sets of natural numbers, the form of     *)
(* induction the proofs of the other modules use.                          *)
(***************************************************************************)
EXTENDS Integers, WellFoundedInduction, TLAPS

\* Every non-empty set of natural numbers has a least element.
LEMMA LeastOfSet ==
  ASSUME NEW S \in SUBSET Nat, S # {}
  PROVE  \E n \in S : \A m \in S : n <= m
<1> DEFINE Less == {ss \in Nat \X Nat : ss[1] < ss[2]}
<1>1. IsWellFoundedOn(Less, Nat)
  BY NatLessThanWellFounded DEF OpToRel
<1>2. PICK n \in S : \A m \in S : <<m, n>> \notin Less
  <2> HIDE DEF Less
  <2> QED
    BY <1>1, WFMin
<1>3. \A m \in S : m < n => <<m, n>> \in Less
  OBVIOUS
<1>4. \A m \in S : m \in Nat /\ n \in Nat
  OBVIOUS
<1> QED
  <2> HIDE DEF Less
  <2>1. \A m \in S : ~(m < n)
    BY <1>2, <1>3
  <2> QED
    BY <1>4, <2>1

=============================================================================
