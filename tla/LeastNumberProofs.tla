-------------------------- MODULE LeastNumberProofs --------------------------
(* What the proofs about lowest free port numbers rest on                  *)
(* (mustLowestFreePortOnBridge takes the first gap).                       *)
EXTENDS Integers, WellFoundedInduction, TLAPS

(* A non-empty set of numbers has a least element.                         *)
LEMMA LeastNumber ==
    ASSUME NEW S, S \subseteq Nat, S # {}
    PROVE  \E p \in S : \A q \in S : p <= q
<1> DEFINE R == OpToRel(<, Nat)
<1>1. IsWellFoundedOn(R, Nat)
  BY NatLessThanWellFounded
<1>2. \E p \in S : \A q \in S : ~ (<<q, p>> \in R)
  <2> HIDE DEF R
  <2> QED  BY <1>1, WFMin
<1>3. \A p, q \in Nat : <<q, p>> \in R <=> q < p
  BY DEF OpToRel
<1> HIDE DEF R
<1>4. PICK p \in S : \A q \in S : ~ (<<q, p>> \in R)
  BY <1>2
<1>5. \A q \in S : q \in Nat /\ p \in Nat /\ ~ (q < p)
  BY <1>3, <1>4, Zenon
<1>6. \A q \in S : p <= q
  BY <1>5
<1> QED  BY <1>4, <1>6
=============================================================================
