------------------------------- MODULE Extrema -------------------------------
(***************************************************************************)
(* Least and greatest elements of sets of naturals.  Min and Max choose an *)
(* element; that there is one to choose follows from the well-foundedness  *)
(* of inclusion on finite sets, applied to the intervals below each.       *)
(***************************************************************************)
EXTENDS Naturals, FiniteSetsExt, FiniteSetTheorems, TLAPS

(* A set of naturals has a least element. *)
LEMMA MinExists ==
  ASSUME NEW S, S \subseteq Nat, S # {}
  PROVE  Min(S) \in S /\ \A y \in S : Min(S) <= y
  <1> DEFINE Below == {0..x - 1 : x \in S}
  <1>1. IsWellFoundedOn(StrictSubsetOrdering(Nat), FiniteSubsetsOf(Nat))
    BY FS_StrictSubsetOrderingWellFounded
  <1>2. Below \subseteq FiniteSubsetsOf(Nat) /\ Below # {}
    <2>1. ASSUME NEW x \in S PROVE IsFiniteSet(0..x - 1) /\ 0..x - 1 \subseteq Nat
      BY FS_Interval
    <2> QED BY <2>1 DEF FiniteSubsetsOf
  <1>3. PICK b \in Below : \A c \in Below : ~ (<<c, b>> \in StrictSubsetOrdering(Nat))
    <2> HIDE DEF Below
    <2> QED BY <1>1, <1>2, WFMin
  <1>4. PICK x \in S : b = 0..x - 1
    OBVIOUS
  <1>5. ASSUME NEW y \in S PROVE x <= y
    <2> SUFFICES ASSUME y < x PROVE FALSE
      OBVIOUS
    <2>1. /\ 0..y - 1 \subseteq 0..x - 1 /\ 0..x - 1 \subseteq Nat
          /\ y \in 0..x - 1 /\ y \notin 0..y - 1
      OBVIOUS
    <2> DEFINE c == 0..y - 1
    <2>2. c \in Below /\ c \subseteq b /\ c # b /\ b \subseteq Nat
      BY <1>4, <2>1
    <2>3. <<c, b>> \in StrictSubsetOrdering(Nat)
      <3> HIDE DEF c
      <3> QED BY <2>2 DEF StrictSubsetOrdering
    <2> QED BY <1>3, <2>2, <2>3
  <1> QED BY <1>5 DEF Min

(* A bounded one has a greatest element. *)
LEMMA MaxExists ==
  ASSUME NEW n \in Nat, NEW S, S \subseteq 0..n, S # {}
  PROVE  Max(S) \in S /\ \A y \in S : Max(S) >= y
  <1> DEFINE T == {n - x : x \in S}
  <1>1. T \subseteq Nat /\ T # {}
    <2>1. \A x \in S : n - x \in Nat
      OBVIOUS
    <2>2. PICK x \in S : TRUE
      OBVIOUS
    <2>3. n - x \in T
      OBVIOUS
    <2> QED BY <2>1, <2>3
  <1>2. Min(T) \in T /\ \A y \in T : Min(T) <= y
    <2> HIDE DEF T
    <2> QED BY <1>1, MinExists
  <1>3. PICK x \in S : Min(T) = n - x
    BY <1>2
  <1>4. ASSUME NEW y \in S PROVE x >= y
    <2>1. n - y \in T
      OBVIOUS
    <2>2. n - x <= n - y
      BY <1>2, <1>3, <2>1
    <2> QED BY <2>2
  <1> QED BY <1>4 DEF Max
===============================================================================
