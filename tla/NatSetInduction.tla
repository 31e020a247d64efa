-------------------------- MODULE NatSetInduction --------------------------
(***************************************************************************)
(* Induction over the natural numbers stated of sets, so that it can be    *)
(* used where an induction theorem whose parameter is an operator cannot.  *)
(***************************************************************************)
EXTENDS Integers, WellFoundedInduction, TLAPS

\* A set of natural numbers that is not empty has a least element.
LEMMA LeastElement ==
  ASSUME NEW T, T \subseteq Nat, T # {}
  PROVE  \E x \in T : \A y \in T : ~ (y < x)
<1> DEFINE R == {p \in Nat \X Nat : p[1] < p[2]}
<1>1. IsWellFoundedOn(R, Nat)
  BY NatLessThanWellFounded, Zenon DEF OpToRel
<1> HIDE DEF R
<1>2. \E x \in T : \A y \in T : ~ (<<y, x>> \in R)
  BY <1>1, WFMin
<1> QED BY <1>2 DEF R

\* Induction up to a bound: a set that has 0 and, with each number below n, the
\* next one, has every number up to n.
LEMMA BoundedInduction ==
  ASSUME NEW n \in Nat, NEW S, 0 \in S,
         \A k \in 0..(n - 1) : k \in S => k + 1 \in S
  PROVE  \A k \in 0..n : k \in S
<1> DEFINE T == {k \in 0..n : k \notin S}
<1> SUFFICES ASSUME T # {} PROVE FALSE
  OBVIOUS
<1>0. T \subseteq Nat /\ T # {}
  OBVIOUS
<1>1. PICK m \in T : \A y \in T : ~ (y < m)
  <2> HIDE DEF T
  <2> QED BY <1>0, LeastElement
<1>2. m # 0 /\ m - 1 \in 0..(n - 1)
  BY <1>1
<1>3. m - 1 \in S
  BY <1>1, <1>2
<1>4. (m - 1) + 1 \in S
  BY <1>2, <1>3
<1> QED BY <1>1, <1>4
=============================================================================
