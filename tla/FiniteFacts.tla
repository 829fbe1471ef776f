----------------------------- MODULE FiniteFacts -----------------------------
(***************************************************************************)
(* Facts about finite sets and numbers that the proofs share.  They stand  *)
(* on the well-foundedness of the strict subsets of a finite set, which    *)
(* also gives an induction over numbers that is stated with a set.         *)
(***************************************************************************)
EXTENDS Integers, FiniteSets, FiniteSetTheorems, TLAPS

-----------------------------------------------------------------------------
(* Greatest elements *)

\* A finite set of integers has a greatest element.
LEMMA HasGreatest ==
  ASSUME NEW S, S \subseteq Int, IsFiniteSet(S), S # {}
  PROVE  \E s \in S : \A t \in S : t <= s
<1> DEFINE Above(s) == {t \in S : t > s}
           T == {Above(s) : s \in S}
<1>1. T \subseteq FiniteSubsetsOf(S) /\ T # {}
  <2>1. T \subseteq SUBSET S /\ T # {}
    OBVIOUS
  <2> HIDE DEF T
  <2> QED
    BY <2>1, FS_FiniteSubsetsOfFinite
<1>2. PICK x \in T : \A y \in T : ~ (<<y, x>> \in StrictSubsetOrdering(S))
  <2> HIDE DEF T
  <2> QED
    BY <1>1, WFMin, FS_StrictSubsetOrderingWellFounded
<1>3. PICK s \in S : x = Above(s)
  OBVIOUS
<1>4. ASSUME NEW t \in S, t > s
      PROVE  FALSE
  <2>1. ASSUME NEW u \in Above(t)
        PROVE  u \in Above(s)
    BY <1>4
  <2>2. t \in Above(s) /\ t \notin Above(t)
    BY <1>4
  <2>3. <<Above(t), Above(s)>> \in StrictSubsetOrdering(S)
    <3>1. Above(t) \subseteq S /\ Above(s) \subseteq S
      OBVIOUS
    <3> HIDE DEF Above
    <3> QED
      BY <2>1, <2>2, <3>1 DEF StrictSubsetOrdering
  <2> QED
    BY <1>2, <1>3, <2>3
<1> QED
  BY <1>4

\* Induction up to n: what holds of 0, and of a number's successor if of it.
LEMMA UpTo ==
  ASSUME NEW n \in Nat, NEW S, 0 \in S, \A k \in 0 .. (n - 1) : k \in S => k + 1 \in S
  PROVE  \A m \in 0 .. n : m \in S
<1> TAKE m \in 0 .. n
<1> DEFINE T == {k \in 0 .. m : k \in S}
<1>1. 0 \in T /\ T \subseteq 0 .. m
  OBVIOUS
<1>2. \A t \in T : t \in Int
  OBVIOUS
<1>3. IsFiniteSet(T)
  <2>1. IsFiniteSet(0 .. m)
    BY FS_Interval
  <2> HIDE DEF T
  <2> QED
    BY <1>1, <2>1, FS_Subset
<1>4. PICK g \in T : \A t \in T : t <= g
  <2>1. T \subseteq Int /\ T # {}
    BY <1>1, <1>2
  <2> HIDE DEF T
  <2> QED
    BY <1>3, <2>1, HasGreatest
<1>5. CASE g < m
  <2>1. g + 1 \in T
    BY <1>5
  <2> QED
    BY <1>4, <1>5, <2>1
<1>6. CASE g = m
  BY <1>4, <1>6
<1> QED
  BY <1>4, <1>5, <1>6

-----------------------------------------------------------------------------
(* Counting *)

Bit(b) == IF b THEN 1 ELSE 0

LEMMA CountOne ==
  ASSUME NEW S, NEW T, NEW x, IsFiniteSet(S), IsFiniteSet(T), S \ {x} = T \ {x}
  PROVE  Cardinality(T) = Cardinality(S) + Bit(x \in T) - Bit(x \in S)
<1>1. /\ Cardinality(S \ {x}) = IF x \in S THEN Cardinality(S) - 1 ELSE Cardinality(S)
      /\ Cardinality(T \ {x}) = IF x \in T THEN Cardinality(T) - 1 ELSE Cardinality(T)
  BY FS_RemoveElement
<1>2. Cardinality(S) \in Nat /\ Cardinality(T) \in Nat
  BY FS_CardinalityType
<1> QED
  BY <1>1, <1>2 DEF Bit

=============================================================================
