---------------------------- MODULE SetInduction ----------------------------
(***************************************************************************)
(* Induction over the natural numbers for sets instead of predicates: a    *)
(* set that holds 0 and, with every number, the next, holds them all.  A   *)
(* proof names the set of the numbers its claim is true of and cites       *)
(* NatInd.  What the recursive definitions of the models compute is proved *)
(* with it.                                                                *)
(***************************************************************************)
EXTENDS Integers, FiniteSetTheorems, TLAPS

\* A set of subsets of a finite set has one that contains no other.
LEMMA SmallestSubset ==
  ASSUME NEW S, IsFiniteSet(S), NEW F, F \subseteq SUBSET S, F # {}
  PROVE  \E T \in F : \A U \in F : U \subseteq T => U = T
<1>1. IsWellFoundedOn(StrictSubsetOrdering(S), SUBSET S)
  BY FS_StrictSubsetOrderingWellFounded, FS_FiniteSubsetsOfFinite
<1>2. PICK T \in F : \A U \in F : ~ (<<U, T>> \in StrictSubsetOrdering(S))
  BY <1>1, WFMin
<1>3. QED BY <1>2 DEF StrictSubsetOrdering

\* Every set of numbers that is not empty has a least element.
LEMMA NatMin ==
  ASSUME NEW T, T \subseteq Nat, T # {}
  PROVE  \E n \in T : \A m \in T : n <= m
<1>1. PICK k \in T : TRUE
  OBVIOUS
<1> DEFINE F == {0..n : n \in {x \in T : x <= k}}
<1>a. k \in Nat /\ IsFiniteSet(0..k)
  BY FS_Interval
<1>b. 0..k \in F
  BY <1>a, <1>1
<1>c. \A n \in {x \in T : x <= k} : 0..n \subseteq 0..k
  BY <1>a
<1>2. F \subseteq SUBSET (0..k) /\ F # {}
  BY <1>b, <1>c
<1>d. \A A \in F : \E n \in T : n <= k /\ A = 0..n
  OBVIOUS
<1>e. \A n \in T : n <= k => 0..n \in F
  OBVIOUS
<1> HIDE DEF F
<1>3. PICK A \in F : \A U \in F : U \subseteq A => U = A
  <2> DEFINE S == 0..k
  <2>1. IsFiniteSet(S) /\ F \subseteq SUBSET S /\ F # {}
    BY <1>2, <1>a
  <2> HIDE DEF S
  <2> QED BY <2>1, SmallestSubset
<1>4. PICK n \in T : n <= k /\ A = 0..n
  BY <1>d
<1>5. ASSUME NEW m \in T, m < n PROVE FALSE
  <2>1. 0..m \in F
    BY <1>4, <1>5, <1>1, <1>e
  <2>2. 0..m \subseteq A /\ n \in A /\ n \notin 0..m
    BY <1>4, <1>5
  <2> QED BY <2>1, <2>2, <1>3
<1> QED BY <1>4, <1>5

\* Induction.
LEMMA NatInd ==
  ASSUME NEW P, 0 \in P, \A n \in Nat : n \in P => n + 1 \in P
  PROVE  Nat \subseteq P
<1> SUFFICES ASSUME Nat \ P # {} PROVE FALSE
  OBVIOUS
<1>1. PICK n \in Nat \ P : \A m \in Nat \ P : n <= m
  BY NatMin
<1>2. n # 0 /\ n - 1 \in Nat /\ n - 1 \in P
  BY <1>1
<1> QED BY <1>2, <1>1
=============================================================================
