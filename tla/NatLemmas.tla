----------------------------- MODULE NatLemmas -----------------------------
(***************************************************************************)
(* Least and greatest elements, which load_offset, into_store and the      *)
(* writers of the replicas take of sets of numbers.                        *)
(***************************************************************************)
EXTENDS Integers, WellFoundedInduction, TLAPS

(* A non-empty set of naturals has a least element. *)
LEMMA LeastExists ==
    ASSUME NEW T, T \subseteq Nat, T # {}
    PROVE  \E x \in T : \A y \in T : x <= y
<1>1. \E x \in T : \A y \in T : ~(<<y, x>> \in OpToRel(<, Nat))
  BY NatLessThanWellFounded, WFMin
<1>2. PICK x \in T : \A y \in T : ~(<<y, x>> \in OpToRel(<, Nat))
  BY <1>1
<1>3. ASSUME NEW y \in T PROVE x <= y
  <2>1. ~(<<y, x>> \in OpToRel(<, Nat))
    BY <1>2
  <2>2. x \in Nat /\ y \in Nat
    OBVIOUS
  <2>3. <<y, x>> \in OpToRel(<, Nat) <=> y < x
    BY <2>2 DEF OpToRel
  <2>4. ~(y < x)
    BY <2>1, <2>3, Zenon
  <2> QED BY <2>2, <2>4
<1> QED BY <1>2, <1>3

(* A non-empty set of integers with an upper bound has a greatest element. *)
LEMMA GreatestExists ==
    ASSUME NEW T, NEW b \in Int, T \subseteq Int, \A x \in T : x <= b, T # {}
    PROVE  \E x \in T : \A y \in T : y <= x
<1> DEFINE Left == {b - x : x \in T}
<1>1. Left \subseteq Nat /\ Left # {}
  <2>1. \A x \in T : b - x \in Nat
    OBVIOUS
  <2> QED BY <2>1
<1>2. PICK l \in Left : \A y \in Left : l <= y
  <2> HIDE DEF Left
  <2> QED BY <1>1, LeastExists
<1>3. PICK x \in T : l = b - x
  BY <1>2
<1>4. ASSUME NEW y \in T PROVE y <= x
  <2>1. b - x <= b - y
    BY <1>2, <1>3
  <2> QED BY <2>1
<1> QED BY <1>4

=============================================================================
