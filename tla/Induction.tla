----------------------------- MODULE Induction -----------------------------
(***************************************************************************)
(* Induction for the proofs of the other modules, over sets: to show P(n)  *)
(* for all numbers, apply it to {n \in Nat : P(n)}.  The theorems of the   *)
(* library say the same of an operator P, which no prover here can give    *)
(* them.                                                                   *)
(***************************************************************************)
EXTENDS Integers, FiniteSetTheorems, WellFoundedInduction, TLAPS

(* A set of numbers that is not empty has a least one.                     *)
LEMMA LeastNumber ==
  ASSUME NEW S \in SUBSET Nat, S # {}
  PROVE  \E m \in S : \A n \in S : m <= n
<1> DEFINE R == {ss \in Nat \X Nat : ss[1] < ss[2]}
<1>1. IsWellFoundedOn(OpToRel(<, Nat), Nat)
  BY NatLessThanWellFounded
<1>2. IsWellFoundedOn(R, Nat)
  BY <1>1 DEF OpToRel
<1>3. PICK m \in S : \A n \in S : ~ (<<n, m>> \in R)
  <2> HIDE DEF R
  <2>1. QED
    BY <1>2, WFMin
<1>4. \A n \in S : m <= n
  <2> SUFFICES ASSUME NEW n \in S
               PROVE  m <= n
    OBVIOUS
  <2>1. ~ (<<n, m>> \in R)
    BY <1>3
  <2>2. m \in Nat /\ n \in Nat
    OBVIOUS
  <2>3. ~ (n < m)
    BY <2>1, <2>2
  <2>4. QED
    BY <2>2, <2>3
<1>5. QED
  BY <1>4

(* A set of numbers that has 0, and with each number the next, has them all.*)
LEMMA NumberInduction ==
  ASSUME NEW S, 0 \in S, \A n \in Nat : n \in S => n + 1 \in S
  PROVE  Nat \subseteq S
<1> SUFFICES ASSUME Nat \ S # {}
             PROVE  FALSE
  OBVIOUS
<1>1. PICK m \in Nat \ S : \A n \in Nat \ S : m <= n
  BY LeastNumber
<1>2. m # 0 /\ m - 1 \in Nat
  BY <1>1
<1>3. m - 1 \in S
  BY <1>1, <1>2
<1>4. (m - 1) + 1 \in S
  BY <1>2, <1>3
<1>5. QED
  BY <1>1, <1>4

(* The subsets of a finite set T: if each is in C as soon as all with one  *)
(* element less are, all are.                                              *)
LEMMA FiniteInduction ==
  ASSUME NEW T, IsFiniteSet(T), NEW C,
         \A s \in SUBSET T : (\A x \in s : s \ {x} \in C) => s \in C
  PROVE  SUBSET T \subseteq C
<1> DEFINE N == {n \in Nat : \A s \in SUBSET T : Cardinality(s) = n => s \in C}
<1>1. \A s \in SUBSET T : IsFiniteSet(s) /\ Cardinality(s) \in Nat
  BY FS_Subset, FS_CardinalityType
<1>2. 0 \in N
  BY <1>1, FS_EmptySet
<1>3. ASSUME NEW n \in Nat, n \in N PROVE n + 1 \in N
  <2> SUFFICES ASSUME NEW s \in SUBSET T, Cardinality(s) = n + 1
               PROVE  s \in C
    OBVIOUS
  <2>1. \A x \in s : Cardinality(s \ {x}) = n
    BY <1>1, FS_RemoveElement
  <2>2. \A x \in s : s \ {x} \in C
    BY <1>3, <2>1
  <2>3. QED
    BY <2>2
<1>4. Nat \subseteq N
  <2> HIDE DEF N
  <2>1. QED
    BY <1>2, <1>3, NumberInduction
<1>5. QED
  BY <1>1, <1>4
=============================================================================
