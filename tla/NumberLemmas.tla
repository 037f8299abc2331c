---------------------------- MODULE NumberLemmas ----------------------------
(***************************************************************************)
(* What the proofs need of sets of numbers: a least one exists, and, where *)
(* there is a bound, a greatest one.                                       *)
(***************************************************************************)
EXTENDS FiniteSetTheorems, TLAPS

\* A set of numbers that is closed downwards and has a bound is an interval.
LEMMA InitialSegment ==
  ASSUME NEW T \in SUBSET Nat, NEW b \in Nat, 0 \in T,
         \A x \in T : x <= b /\ 0 .. x \subseteq T
  PROVE  \E k \in Nat : T = 0 .. k
<1> DEFINE n == Cardinality(T)
<1>1. IsFiniteSet(T) /\ n \in Nat
  BY FS_BoundedSetOfNaturals, FS_CardinalityType
<1>2. n # 0
  BY <1>1, FS_EmptySet
<1>3. \A x \in T : x + 1 <= n
  <2> TAKE x \in T
  <2>1. 0 .. x \in SUBSET T
    OBVIOUS
  <2>2. Cardinality(0 .. x) <= n
    BY <1>1, <2>1, FS_Subset
  <2>3. Cardinality(0 .. x) = x + 1
    BY FS_Interval
  <2> QED BY <2>2, <2>3
<1> HIDE DEF n
<1>4. T \in SUBSET (0 .. n - 1)
  BY <1>1, <1>3
<1>5. IsFiniteSet(0 .. n - 1) /\ Cardinality(0 .. n - 1) = n
  BY <1>1, <1>2, FS_Interval
<1>6. T = 0 .. n - 1
  BY <1>4, <1>5, FS_Subset DEF n
<1> QED BY <1>1, <1>2, <1>6

\* A set of natural numbers that is not empty has a least element.
LEMMA LeastElement ==
  ASSUME NEW S \in SUBSET Nat, S # {}
  PROVE  \E x \in S : \A y \in S : x <= y
<1>1. PICK b \in S : TRUE
  OBVIOUS
<1> DEFINE T == {x \in 0 .. b : \A y \in S : x <= y}
<1>2. PICK k \in Nat : T = 0 .. k
  <2>1. T \in SUBSET Nat /\ 0 \in T /\ b \in Nat
    OBVIOUS
  <2>2. \A x \in T : x <= b /\ 0 .. x \subseteq T
    OBVIOUS
  <2> HIDE DEF T
  <2> QED BY <2>1, <2>2, InitialSegment
<1>3. k \in T /\ k + 1 \notin T
  <2> HIDE DEF T
  <2> QED BY <1>2
<1>4. k \in S /\ \A y \in S : k <= y
  BY <1>3
<1> QED BY <1>4

\* One that has a bound has a greatest element.
LEMMA GreatestElement ==
  ASSUME NEW S \in SUBSET Nat, S # {}, NEW b \in Nat, \A x \in S : x <= b
  PROVE  \E x \in S : \A y \in S : y <= x
<1> DEFINE T == {d \in 0 .. b : b - d \in S}
<1>1. T \in SUBSET Nat
  OBVIOUS
<1>2. T # {}
  <2>1. PICK x \in S : TRUE
    OBVIOUS
  <2>2. x \in Nat /\ x <= b
    OBVIOUS
  <2>3. b - x \in 0 .. b /\ b - (b - x) = x
    BY <2>2
  <2>4. b - x \in T
    BY <2>3
  <2> QED BY <2>4
<1>3. PICK d \in T : \A e \in T : d <= e
  <2> HIDE DEF T
  <2> QED BY <1>1, <1>2, LeastElement
<1>4. ASSUME NEW y \in S PROVE y <= b - d
  <2>1. y \in Nat /\ y <= b
    OBVIOUS
  <2>2. b - y \in 0 .. b /\ b - (b - y) = y
    BY <2>1
  <2>3. b - y \in T
    BY <2>2
  <2>4. d <= b - y
    BY <1>3, <2>3
  <2> QED BY <1>3, <2>1, <2>4
<1> QED BY <1>3, <1>4

=============================================================================
