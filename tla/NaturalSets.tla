----------------------------- MODULE NaturalSets -----------------------------
(* Induction over the natural numbers, as facts about sets of them. *)
EXTENDS Integers, FiniteSetTheorems, WellFoundedInduction, TLAPS

\* The intervals 0..k with k in K are well founded: one of them is smallest.
LEMMA LeastElement ==
  ASSUME NEW K \in SUBSET Nat, NEW n \in K
  PROVE  \E m \in K : \A k \in K : m <= k
<1> DEFINE S == 0..n
           T == {0..k : k \in K \cap S}
<1>1. IsFiniteSet(S)
  BY FS_Interval
<1>2. IsWellFoundedOn(StrictSubsetOrdering(S), FiniteSubsetsOf(S))
  BY <1>1, FS_StrictSubsetOrderingWellFounded
<1>3. T \subseteq FiniteSubsetsOf(S) /\ T # {}
  <2>1. \A k \in K \cap S : 0..k \subseteq S /\ IsFiniteSet(0..k)
    BY FS_Interval
  <2>2. n \in K \cap S
    OBVIOUS
  <2> QED BY <2>1, <2>2 DEF FiniteSubsetsOf
<1>4. PICK x \in T : \A y \in T : <<y, x>> \notin StrictSubsetOrdering(S)
  <2> HIDE DEF T, S
  <2> QED BY <1>2, <1>3, WFMin
<1>5. PICK m \in K \cap S : x = 0..m
  BY <1>4
<1>6. ASSUME NEW k \in K, k < m PROVE FALSE
  <2>1. k \in K \cap S /\ 0..k \in T
    BY <1>5, <1>6
  <2>2. 0..k \subseteq x /\ 0..k # x /\ x \in SUBSET S /\ 0..k \in SUBSET S
    BY <1>5, <1>6
  <2>3. <<0..k, x>> \notin StrictSubsetOrdering(S)
    <3> HIDE DEF T, S
    <3> QED BY <2>1, <1>4
  <2>4. <<0..k, x>> \in StrictSubsetOrdering(S)
    <3> HIDE DEF T, S
    <3> QED BY <2>2 DEF StrictSubsetOrdering
  <2> QED BY <2>3, <2>4
<1> QED BY <1>5, <1>6

LEMMA NatSetInduction ==
  ASSUME NEW K, 0 \in K, \A n \in Nat : n \in K => n + 1 \in K
  PROVE  Nat \subseteq K
<1> SUFFICES ASSUME NEW n \in Nat \ K PROVE FALSE
  OBVIOUS
<1>1. PICK m \in Nat \ K : \A k \in Nat \ K : m <= k
  BY LeastElement
<1> QED BY <1>1

\* A property of {} that each other part of a finite set has if one of its
\* elements can be spared for it is a property of every part.
LEMMA SubsetInduction ==
  ASSUME NEW P, IsFiniteSet(P), NEW K, {} \in K,
         \A s \in SUBSET P : s # {} => \E x \in s : s \ {x} \in K => s \in K
  PROVE  SUBSET P \subseteq K
<1> DEFINE N == {n \in Nat : \A s \in SUBSET P : Cardinality(s) = n => s \in K}
<1>1. \A s \in SUBSET P : IsFiniteSet(s) /\ Cardinality(s) \in Nat
  BY FS_Subset, FS_CardinalityType
<1>2. 0 \in N
  <2>1. \A s \in SUBSET P : Cardinality(s) = 0 => s = {}
    BY <1>1, FS_EmptySet
  <2> QED BY <2>1
<1>3. ASSUME NEW n \in Nat, n \in N PROVE n + 1 \in N
  <2>1. ASSUME NEW s \in SUBSET P, Cardinality(s) = n + 1 PROVE s \in K
    <3>1. s # {}
      BY <1>1, <2>1, FS_EmptySet
    <3>2. PICK x \in s : s \ {x} \in K => s \in K
      BY <3>1
    <3>3. Cardinality(s \ {x}) = n
      <4>1. IsFiniteSet(s) /\ Cardinality(s \ {x}) = Cardinality(s) - 1
        BY <1>1, FS_RemoveElement
      <4> QED BY <2>1, <4>1
    <3>4. s \ {x} \in K
      BY <1>3, <3>3
    <3> QED BY <3>2, <3>4
  <2> QED BY <2>1
<1>4. Nat \subseteq N
  <2> HIDE DEF N
  <2> QED BY <1>2, <1>3, NatSetInduction
<1> QED BY <1>1, <1>4
==============================================================================
