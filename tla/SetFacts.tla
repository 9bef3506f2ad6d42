------------------------------ MODULE SetFacts ------------------------------
(***************************************************************************)
(* What the proofs use of the theory of finite sets and of the natural     *)
(* numbers.  A lemma that needs one of these facts assumes SetFacts.  The  *)
(* modules of proofs show SetFacts from the libraries at their very end,   *)
(* right before the theorems, so that no other step has to carry the       *)
(* libraries along.                                                        *)
(***************************************************************************)
EXTENDS Integers, FiniteSets

(* A finite set has a number of elements.                                  *)
CardinalityFact == \A S : IsFiniteSet(S) => Cardinality(S) \in Nat

(* The empty set and a set of one element.                                 *)
SmallFact ==
    /\ IsFiniteSet({}) /\ Cardinality({}) = 0
    /\ \A x : IsFiniteSet({x}) /\ Cardinality({x}) = 1

(* The numbers from 1 to n are n numbers.                                  *)
IntervalFact == \A n \in Nat : IsFiniteSet(1 .. n) /\ Cardinality(1 .. n) = n

(* A part of a finite set, and when it is the whole set.                   *)
SubsetFact ==
    \A S, T : IsFiniteSet(S) /\ T \subseteq S =>
        /\ IsFiniteSet(T) /\ Cardinality(T) <= Cardinality(S)
        /\ Cardinality(T) = Cardinality(S) => T = S

(* A set with one element more and one with one element less.              *)
AddFact ==
    \A S, x : IsFiniteSet(S) /\ x \notin S =>
        IsFiniteSet(S \cup {x}) /\ Cardinality(S \cup {x}) = Cardinality(S) + 1
RemoveFact ==
    \A S, x : IsFiniteSet(S) /\ x \in S =>
        IsFiniteSet(S \ {x}) /\ Cardinality(S \ {x}) = Cardinality(S) - 1

(* More elements than values: two elements have the same value.            *)
PigeonFact ==
    \A S, T : IsFiniteSet(S) /\ IsFiniteSet(T) /\ Cardinality(T) < Cardinality(S) =>
        \A f \in [S -> T] : \E a, b \in S : a # b /\ f[a] = f[b]

(* A set of natural numbers has a least one: induction.                    *)
LeastFact == \A T : T \subseteq Nat /\ T # {} => \E m \in T : \A k \in T : m <= k

SetFacts ==
    /\ CardinalityFact /\ SmallFact /\ IntervalFact /\ SubsetFact
    /\ AddFact /\ RemoveFact /\ PigeonFact /\ LeastFact
=============================================================================
