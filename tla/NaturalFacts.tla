---------------------------- MODULE NaturalFacts ----------------------------
(***************************************************************************)
(* Facts about the natural numbers that the proofs of several components   *)
(* rest on: a least and a greatest element, and induction over a set of    *)
(* numbers, which needs no operator as a parameter.                        *)
(***************************************************************************)
EXTENDS Integers, WellFoundedInduction, TLAPS

LessThan == {p \in Nat \X Nat : p[1] < p[2]}

LEMMA LessThanWellFounded == IsWellFoundedOn(LessThan, Nat)
  BY NatLessThanWellFounded DEF LessThan, OpToRel

\* A set of natural numbers has a least element.
LEMMA Least ==
    ASSUME NEW S \in SUBSET Nat, S # {}
    PROVE  \E m \in S : \A n \in S : m <= n
<1>1. PICK x \in S : \A y \in S : ~(<<y, x>> \in LessThan)
  BY LessThanWellFounded, WFMin
<1>2. ASSUME NEW y \in S, y < x
      PROVE  FALSE
  <2> DEFINE p == <<y, x>>
  <2>1. p \in Nat \X Nat /\ p[1] < p[2]
    BY <1>2
  <2> HIDE DEF p
  <2>2. p \in LessThan
    BY <2>1 DEF LessThan
  <2> QED BY <1>1, <2>2 DEF p
<1> QED BY <1>2

\* A bounded set of natural numbers has a greatest element.
LEMMA Greatest ==
    ASSUME NEW S \in SUBSET Nat, S # {}, NEW bound \in Nat, \A n \in S : n <= bound
    PROVE  \E m \in S : \A n \in S : n <= m
<1> DEFINE T == {bound - n : n \in S}
<1>1. T \in SUBSET Nat /\ T # {}
  <2>1. \A n \in S : bound - n \in Nat
    OBVIOUS
  <2> QED BY <2>1
<1>2. PICK t \in T : \A u \in T : t <= u
  BY <1>1, Least
<1>3. PICK m \in S : t = bound - m
  BY <1>2
<1>4. ASSUME NEW n \in S
      PROVE  n <= m
  <2>1. bound - n \in T
    OBVIOUS
  <2> QED BY <1>2, <1>3, <2>1
<1> QED BY <1>4

\* A set that has i, and k + 1 with every k from i on, has all numbers from i on.
LEMMA Climbs ==
    ASSUME NEW S, NEW i \in Nat, i \in S,
           \A k \in Nat : i <= k /\ k \in S => k + 1 \in S
    PROVE  \A j \in Nat : i <= j => j \in S
<1> SUFFICES ASSUME NEW j \in Nat, i <= j, j \notin S
             PROVE  FALSE
  OBVIOUS
<1> DEFINE Missing == {k \in Nat : i <= k /\ k \notin S}
<1>1. PICK m \in Missing : \A k \in Missing : m <= k
  <2>1. Missing \in SUBSET Nat /\ Missing # {}
    OBVIOUS
  <2> QED BY <2>1, Least
<1>2. m # i
  BY <1>1
<1>3. m - 1 \in Nat /\ i <= m - 1 /\ m - 1 \notin Missing
  BY <1>1, <1>2
<1>4. (m - 1) + 1 \in S
  BY <1>3
<1> QED BY <1>1, <1>4

=============================================================================
