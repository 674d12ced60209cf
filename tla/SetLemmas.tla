------------------------------ MODULE SetLemmas ------------------------------
(* Facts about sets that the proofs about several components need.             *)
EXTENDS Naturals, FiniteSets, FiniteSetsExt, FiniteSetTheorems, TLAPS

\* A set of naturals that is not empty has a least element: among its initial
\* segments, all finite, one is the least for inclusion.
LEMMA MinIsLeast ==
  ASSUME NEW S, S \subseteq Nat, S # {}
  PROVE  Min(S) \in S /\ \A y \in S : Min(S) <= y
  <1> DEFINE Below(x) == {y \in S : y < x}
             Segments == {Below(x) : x \in S}
             R == StrictSubsetOrdering(Nat)
  <1>1. \A x \in S : Below(x) \in FiniteSubsetsOf(Nat)
    <2> SUFFICES ASSUME NEW x \in S PROVE Below(x) \in FiniteSubsetsOf(Nat)
      OBVIOUS
    <2>1. IsFiniteSet(0..x)
      BY FS_Interval
    <2>2. ASSUME NEW y \in Below(x) PROVE y \in 0..x
      BY SMT
    <2>3. QED
      BY <2>1, <2>2, FS_Subset DEF FiniteSubsetsOf
  <1>2. PICK t \in Segments : \A u \in Segments : <<u, t>> \notin R
    <2>1. IsWellFoundedOn(R, FiniteSubsetsOf(Nat))
      BY FS_StrictSubsetOrderingWellFounded
    <2>2. Segments \subseteq FiniteSubsetsOf(Nat) /\ Segments # {}
      BY <1>1
    <2> HIDE DEF Segments, R
    <2>3. QED
      BY <2>1, <2>2, WFMin
  <1>3. PICK x \in S : t = Below(x)
    OBVIOUS
  <1>4. \A y \in S : x <= y
    <2> SUFFICES ASSUME NEW y \in S, y < x PROVE FALSE
      OBVIOUS
    <2>1. \A z \in Below(y) : z \in Below(x)
      BY SMT
    <2>2. y \in Below(x) /\ y \notin Below(y)
      BY SMT
    <2>3. <<Below(y), Below(x)>> \in R
      BY <2>1, <2>2 DEF StrictSubsetOrdering
    <2>4. QED
      BY <2>3, <1>2, <1>3
  <1>5. QED
    BY <1>4 DEF Min

\* Induction over the naturals, on the set of those that have the property: the
\* least one outside it has a predecessor, which is inside.
LEMMA CountingUp ==
  ASSUME NEW G, 0 \in G, \A n \in Nat : n \in G => n + 1 \in G
  PROVE  Nat \subseteq G
  <1> SUFFICES ASSUME Nat \ G # {} PROVE FALSE
    OBVIOUS
  <1>1. PICK m \in Nat \ G : \A y \in Nat \ G : m <= y
    BY MinIsLeast, Nat \ G \subseteq Nat
  <1>2. m - 1 \in Nat /\ (m - 1) + 1 = m
    BY <1>1
  <1>3. m - 1 \in G
    BY <1>1, <1>2, SMT
  <1>4. QED
    BY <1>1, <1>2, <1>3

\* Induction over the subsets of a finite set, one element at a time, on the set
\* of those that have the property.
LEMMA OneMore ==
  ASSUME NEW S, IsFiniteSet(S), NEW G,
         \A T \in SUBSET S : (\A x \in T : T \ {x} \in G) => T \in G
  PROVE  SUBSET S \subseteq G
  <1> DEFINE Sized == {n \in Nat : \A T \in SUBSET S : Cardinality(T) = n => T \in G}
  <1>1. ASSUME NEW T \in SUBSET S PROVE IsFiniteSet(T) /\ Cardinality(T) \in Nat
    BY FS_Subset, FS_CardinalityType
  <1>2. 0 \in Sized
    <2>1. ASSUME NEW T \in SUBSET S, Cardinality(T) = 0 PROVE T = {}
      BY <1>1, <2>1, FS_EmptySet
    <2>2. QED
      BY <2>1
  <1>3. ASSUME NEW n \in Nat, n \in Sized PROVE n + 1 \in Sized
    <2> SUFFICES ASSUME NEW T \in SUBSET S, Cardinality(T) = n + 1 PROVE T \in G
      OBVIOUS
    <2>1. ASSUME NEW x \in T PROVE T \ {x} \in G
      <3>1. Cardinality(T \ {x}) = n
        BY <1>1, FS_RemoveElement
      <3>2. QED
        BY <3>1, <1>3
    <2>2. QED
      BY <2>1
  <1>4. Nat \subseteq Sized
    <2> HIDE DEF Sized
    <2>1. QED
      BY <1>2, <1>3, CountingUp
  <1>5. QED
    BY <1>1, <1>4
===============================================================================
