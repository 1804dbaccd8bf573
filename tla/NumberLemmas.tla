---------------------------- MODULE NumberLemmas ----------------------------
(* Facts about numbers, remainders and positions in a list that several components' proofs use.   *)
EXTENDS FiniteSetTheorems, TLAPS

----------------------------------------------------------------------------
(* The least and the greatest of a set of numbers, from the library's theorem that the numbers    *)
(* are well-founded.                                                                              *)

Less == {e \in Nat \X Nat : e[1] < e[2]}

LEMMA LessIsWellFounded == IsWellFoundedOn(Less, Nat)
<1>1. OpToRel(<, Nat) = Less BY DEF OpToRel, Less
<1> QED BY <1>1, NatLessThanWellFounded

LEMMA HasLeast ==
  ASSUME NEW S \in SUBSET Nat, S # {}
  PROVE  \E n \in S : \A m \in S : n <= m
<1>1. PICK n \in S : \A m \in S : ~(<<m, n>> \in Less)
  BY LessIsWellFounded, WFMin, Zenon
<1>2. ASSUME NEW m \in S PROVE n <= m
  <2>1. ~(<<m, n>> \in Less) BY <1>1
  <2>2. m \in Nat /\ n \in Nat OBVIOUS
  <2>3. <<m, n>> \in Less <=> m < n BY <2>2 DEF Less
  <2> QED BY <2>1, <2>2, <2>3
<1> QED BY <1>2

LEMMA HasGreatest ==
  ASSUME NEW b \in Nat, NEW S \in SUBSET (0..b), S # {}
  PROVE  \E n \in S : \A m \in S : m <= n
<1> DEFINE D == {d \in 0..b : b - d \in S}
<1>1. PICK s \in S : TRUE OBVIOUS
<1>2. b - s \in D OBVIOUS
<1>3. PICK d \in D : \A e \in D : d <= e
  <2>1. D \in SUBSET Nat OBVIOUS
  <2>2. D # {} BY <1>2
  <2> HIDE DEF D
  <2> QED BY <2>1, <2>2, HasLeast
<1>4. b - d \in S BY <1>3
<1>5. ASSUME NEW m \in S PROVE m <= b - d
  <2>1. b - m \in D OBVIOUS
  <2>2. d <= b - m BY <1>3, <2>1
  <2>3. d \in 0..b BY <1>3
  <2> QED BY <2>2, <2>3
<1> QED BY <1>4, <1>5

----------------------------------------------------------------------------
(* Remainders.                                                                                    *)

LEMMA RemainderRange ==
  ASSUME NEW a \in Nat, NEW n \in Nat \ {0}
  PROVE  a % n \in 0..(n - 1)
OBVIOUS

LEMMA RemainderOfSum ==
  ASSUME NEW n \in Nat \ {0}, NEW a \in 0..(n - 1), NEW k \in 1..n
  PROVE  (a + k) % n = IF a + k < n THEN a + k ELSE a + k - n
<1>1. CASE a + k < n BY <1>1
<1>2. CASE a + k >= n
  <2>1. a + k - n \in 0..(n - 1) BY <1>2
  <2> QED BY <1>2, <2>1
<1> QED BY <1>1, <1>2

\* Turning a circle of n places does not bring two of them to one.
LEMMA TurnKeepsApart ==
  ASSUME NEW n \in Nat \ {0}, NEW k \in 1..n, NEW a \in 0..(n - 1), NEW b \in 0..(n - 1), a # b
  PROVE  (a + k) % n # (b + k) % n
<1>1. (a + k) % n = IF a + k < n THEN a + k ELSE a + k - n BY RemainderOfSum
<1>2. (b + k) % n = IF b + k < n THEN b + k ELSE b + k - n BY RemainderOfSum
<1> QED BY <1>1, <1>2

----------------------------------------------------------------------------
(* Positions in an ordered list, as LIMIT and OFFSET count them.                                  *)

Rank(S, x) == Cardinality({y \in S : y < x})

LEMMA RankType ==
  ASSUME NEW S \in SUBSET Nat, IsFiniteSet(S), NEW x
  PROVE  Rank(S, x) \in Nat /\ IsFiniteSet({y \in S : y < x})
BY FS_Subset, FS_CardinalityType DEF Rank

LEMMA RankGrows ==
  ASSUME NEW S \in SUBSET Nat, IsFiniteSet(S), NEW x \in S, NEW z \in Nat, x < z
  PROVE  Rank(S, x) < Rank(S, z)
<1> DEFINE X == {y \in S : y < x}
           Z == {y \in S : y < z}
<1>1. IsFiniteSet(X) /\ IsFiniteSet(Z) BY RankType
<1>2. x \notin X OBVIOUS
<1>3. X \cup {x} \subseteq Z
  <2>1. ASSUME NEW y \in X PROVE y \in Z
    <3>1. y \in Nat /\ x \in Nat /\ y < x OBVIOUS
    <3> QED BY <3>1
  <2> QED BY <2>1
<1>4. Rank(S, x) = Cardinality(X) /\ Rank(S, z) = Cardinality(Z) BY DEF Rank
<1> HIDE DEF X, Z
<1>5. Cardinality(X \cup {x}) = Cardinality(X) + 1 BY <1>1, <1>2, FS_AddElement
<1>6. Cardinality(X \cup {x}) <= Cardinality(Z) BY <1>1, <1>3, FS_Subset
<1>7. Cardinality(X) \in Nat /\ Cardinality(Z) \in Nat BY <1>1, FS_CardinalityType
<1> QED BY <1>4, <1>5, <1>6, <1>7

LEMMA RankBound ==
  ASSUME NEW S \in SUBSET Nat, IsFiniteSet(S), NEW x \in S
  PROVE  Rank(S, x) \in 0..(Cardinality(S) - 1)
<1> DEFINE X == {y \in S : y < x}
<1>1. IsFiniteSet(X) /\ Rank(S, x) \in Nat BY RankType
<1>2. x \notin X /\ X \cup {x} \subseteq S OBVIOUS
<1>3. Rank(S, x) = Cardinality(X) BY DEF Rank
<1> HIDE DEF X
<1>4. Cardinality(X \cup {x}) = Cardinality(X) + 1 BY <1>1, <1>2, FS_AddElement
<1>5. Cardinality(X \cup {x}) <= Cardinality(S) BY <1>2, FS_Subset
<1>6. Cardinality(S) \in Nat BY FS_CardinalityType
<1> QED BY <1>1, <1>3, <1>4, <1>5, <1>6

\* What stands in different places is different, so as many places hold no more.
LEMMA NoMoreThanPlaces ==
  ASSUME NEW R, NEW k \in Nat, NEW place \in [R -> 0..(k - 1)],
         \A x, y \in R : x # y => place[x] # place[y]
  PROVE  IsFiniteSet(R) /\ Cardinality(R) <= k
<1>1. place \in Injection(R, 0..(k - 1)) BY DEF Injection, IsInjective
<1>2. IsFiniteSet(0..(k - 1)) /\ Cardinality(0..(k - 1)) = k BY FS_Interval
<1> QED BY <1>1, <1>2, FS_Injection

\* A page of a list: rows from an offset on, at most as many as its limit.
LEMMA PageSizes ==
  ASSUME NEW S \in SUBSET Nat, IsFiniteSet(S), NEW offset \in Nat, NEW limit \in Nat,
         NEW P, P = {x \in S : Rank(S, x) >= offset /\ Rank(S, x) < offset + limit}
  PROVE  IsFiniteSet(P) /\ Cardinality(P) \in Nat /\ Cardinality(P) <= limit
<1> DEFINE place == [x \in P |-> Rank(S, x) - offset]
<1>1. \A x \in P : Rank(S, x) \in Nat BY RankType
<1>2. place \in [P -> 0..(limit - 1)]
  <2>1. ASSUME NEW x \in P PROVE Rank(S, x) - offset \in 0..(limit - 1)
    <3>1. Rank(S, x) >= offset /\ Rank(S, x) < offset + limit OBVIOUS
    <3> QED BY <1>1, <3>1
  <2> QED BY <2>1
<1>3. ASSUME NEW x \in P, NEW y \in P, x # y PROVE place[x] # place[y]
  <2>1. x \in Nat /\ y \in Nat /\ x \in S /\ y \in S OBVIOUS
  <2>2. x < y \/ y < x BY <1>3, <2>1
  <2>3. Rank(S, x) < Rank(S, y) \/ Rank(S, y) < Rank(S, x) BY <2>1, <2>2, RankGrows
  <2> QED BY <1>1, <2>3
<1>4. IsFiniteSet(P) /\ Cardinality(P) <= limit
  <2> HIDE DEF place
  <2> QED BY <1>2, <1>3, NoMoreThanPlaces
<1> QED BY <1>4, FS_CardinalityType

\* The end of a page that is not empty is not behind the end of the list.
LEMMA PageWithin ==
  ASSUME NEW S \in SUBSET Nat, IsFiniteSet(S), NEW offset \in Nat,
         NEW P \in SUBSET S, P # {}, \A x \in P : Rank(S, x) >= offset
  PROVE  offset + Cardinality(P) <= Cardinality(S)
<1>1. PICK f \in P : \A x \in P : f <= x BY HasLeast
<1> DEFINE B == {y \in S : y < f}
<1>2. IsFiniteSet(B) /\ Cardinality(B) \in Nat /\ Cardinality(B) >= offset
  BY <1>1, RankType DEF Rank
<1>3. B \cap P = {} /\ B \cup P \subseteq S
  <2>1. ASSUME NEW y \in B, y \in P PROVE FALSE
    <3>1. f <= y /\ y < f /\ y \in Nat /\ f \in Nat BY <1>1, <2>1
    <3> QED BY <3>1
  <2> QED BY <2>1
<1>4. IsFiniteSet(P) /\ Cardinality(P) \in Nat /\ Cardinality(S) \in Nat
  BY FS_Subset, FS_CardinalityType
<1> HIDE DEF B
<1>5. Cardinality(B \cup P) = Cardinality(B) + Cardinality(P)
  <2>1. Cardinality(B \cup P) = Cardinality(B) + Cardinality(P) - Cardinality(B \cap P)
    BY <1>2, <1>4, FS_Union
  <2>2. Cardinality(B \cap P) = 0 BY <1>3, FS_EmptySet
  <2> QED BY <1>2, <1>4, <2>1, <2>2
<1>6. Cardinality(B \cup P) <= Cardinality(S) BY <1>3, FS_Subset
<1> QED BY <1>2, <1>4, <1>5, <1>6
=============================================================================
