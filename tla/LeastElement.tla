---------------------------- MODULE LeastElement ----------------------------
(***************************************************************************)
(* Induction over the naturals, as the proofs of this project use it: what *)
(* fails somewhere fails somewhere first.                                  *)
(***************************************************************************)
EXTENDS Integers, FiniteSets, FiniteSetTheorems, WellFoundedInduction, TLAPS

\* A non-empty set of naturals has a least element: the initial segments below its
\* members are finite sets, and strict inclusion of finite sets is well-founded.
LEMMA LeastElement ==
  ASSUME NEW S \in SUBSET Nat, S # {}
  PROVE  \E n \in S : \A k \in S : n <= k
<1> DEFINE Below == {1..n : n \in S}
           R == StrictSubsetOrdering(Nat)
<1>1. Below \subseteq FiniteSubsetsOf(Nat) /\ Below # {}
  <2>1. \A n \in S : 1..n \in FiniteSubsetsOf(Nat)
    BY FS_Interval DEF FiniteSubsetsOf
  <2> QED BY <2>1
<1>2. PICK b \in Below : \A c \in Below : <<c, b>> \notin R
  <2>1. IsWellFoundedOn(R, FiniteSubsetsOf(Nat))
    BY FS_StrictSubsetOrderingWellFounded
  <2> HIDE DEF R, Below
  <2> QED BY <1>1, <2>1, WFMin
<1>3. PICK n \in S : b = 1..n
  OBVIOUS
<1>4. ASSUME NEW k \in S, k < n PROVE FALSE
  <2>1. 1..k \subseteq 1..n /\ n \in 1..n /\ n \notin 1..k
    BY <1>4
  <2>2. <<1..k, b>> \in R
    BY <1>3, <2>1 DEF StrictSubsetOrdering
  <2> QED BY <1>2, <2>2
<1> QED BY <1>4
=============================================================================
