---------------------------- MODULE OrderLemmas ----------------------------
(***************************************************************************)
(* What the proofs use about the order of the natural numbers.             *)
(***************************************************************************)
EXTENDS Integers, WellFoundedInduction, TLAPS

\* The least-number principle, from the library's theorem on well-founded relations.
LEMMA LeastNumber ==
    ASSUME NEW S, S \subseteq Nat, S # {}
    PROVE  \E m \in S : \A n \in S : m <= n
<1> DEFINE R == {ss \in Nat \X Nat : ss[1] < ss[2]}
<1>1. IsWellFoundedOn(R, Nat)
  BY NatLessThanWellFounded DEF OpToRel
<1>2. \E m \in S : \A n \in S : ~(<<n, m>> \in R)
  <2> HIDE DEF R
  <2> QED BY <1>1, WFMin
<1>3. PICK m \in S : \A n \in S : ~(<<n, m>> \in R)
  BY <1>2
<1>4. ASSUME NEW n \in S PROVE m <= n
  <2>1. ~(n < m)
    BY <1>3
  <2> QED BY <2>1
<1> QED BY <1>4

\* Induction for a set: what holds of a number is that it is in the set.
LEMMA Inductive ==
    ASSUME NEW S, 0 \in S, \A n \in Nat : n \in S => n + 1 \in S
    PROVE  Nat \subseteq S
<1> DEFINE Out == Nat \ S
<1>1. ASSUME Out # {} PROVE FALSE
  <2>1. PICK m \in Out : \A n \in Out : m <= n
    <3>1. Out \subseteq Nat
      OBVIOUS
    <3> HIDE DEF Out
    <3> QED BY <1>1, <3>1, LeastNumber
  <2>2. m \in Nat /\ m \notin S /\ m # 0
    BY <2>1
  <2>3. m - 1 \in Nat /\ ~(m <= m - 1) /\ (m - 1) + 1 = m
    BY <2>2
  <2>4. m - 1 \in S
    BY <2>1, <2>3
  <2> QED BY <2>2, <2>3, <2>4
<1> QED BY <1>1
=============================================================================
