------------------------------ MODULE FiniteLemmas -----------------------------
(***************************************************************************)
(* Facts about finite sets that the proofs of the other modules rest on.   *)
(* LeastSet takes the place of an induction over the subsets of a finite   *)
(* set, whose theorem in the library has an operator as a parameter.       *)
(***************************************************************************)
EXTENDS FiniteSetTheorems, TLAPS

(* Among sets of finite sets there is a least one.                         *)
LEMMA LeastSet ==
  ASSUME NEW S, IsFiniteSet(S), NEW G \in SUBSET SUBSET S, G # {}
  PROVE \E T \in G : \A U \in G : U \subseteq T => U = T
  <1>1. IsWellFoundedOn(StrictSubsetOrdering(S), SUBSET S)
    BY FS_StrictSubsetOrderingWellFounded, FS_FiniteSubsetsOfFinite
  <1>2. PICK T \in G : \A U \in G : ~(<<U, T>> \in StrictSubsetOrdering(S))
    BY <1>1, WFMin
  <1>3. ASSUME NEW U \in G, U \subseteq T PROVE U = T
    <2>1. <<U, T>> \in (SUBSET S) \X (SUBSET S)
      OBVIOUS
    <2>2. <<U, T>> \notin StrictSubsetOrdering(S)
      BY <1>2
    <2>3. QED
      BY <1>3, <2>1, <2>2 DEF StrictSubsetOrdering
  <1>4. QED
    BY <1>3

(* A function that numbers the elements of a finite set has a greatest and *)
(* a least value on it.                                                    *)
LEMMA GreatestValue ==
  ASSUME NEW S, IsFiniteSet(S), S # {}, NEW f \in [S -> Int]
  PROVE \E x \in S : \A y \in S : f[y] <= f[x]
  <1> DEFINE Above(x) == {y \in S : f[y] > f[x]}
  <1> DEFINE G == {Above(x) : x \in S}
  <1>1. G \in SUBSET SUBSET S /\ G # {}
    <2>1. \A x \in S : Above(x) \in SUBSET S
      OBVIOUS
    <2>2. \A x \in S : Above(x) \in G
      OBVIOUS
    <2>3. \A T \in G : \E x \in S : T = Above(x)
      OBVIOUS
    <2> HIDE DEF Above, G
    <2>4. QED
      BY <2>1, <2>2, <2>3
  <1>2. PICK T \in G : \A U \in G : U \subseteq T => U = T
    <2> HIDE DEF G
    <2>1. QED
      BY <1>1, LeastSet
  <1>3. PICK x \in S : T = Above(x)
    BY <1>2
  <1>4. ASSUME NEW y \in S, f[y] > f[x] PROVE FALSE
    <2>1. Above(y) \subseteq Above(x)
      BY <1>4
    <2>2. y \in Above(x) /\ y \notin Above(y)
      BY <1>4
    <2>3. Above(y) = Above(x)
      BY <1>2, <1>3, <2>1
    <2>4. QED
      BY <2>2, <2>3
  <1>5. \A y \in S : f[y] \in Int /\ f[x] \in Int
    OBVIOUS
  <1>6. QED
    BY <1>4, <1>5

LEMMA LeastValue ==
  ASSUME NEW S, IsFiniteSet(S), S # {}, NEW f \in [S -> Int]
  PROVE \E x \in S : \A y \in S : f[x] <= f[y]
  <1> DEFINE g == [x \in S |-> 0 - f[x]]
  <1>1. g \in [S -> Int]
    OBVIOUS
  <1>2. PICK x \in S : \A y \in S : g[y] <= g[x]
    <2> HIDE DEF g
    <2>1. QED
      BY <1>1, GreatestValue
  <1>3. \A y \in S : f[y] \in Int /\ f[x] \in Int /\ 0 - f[y] <= 0 - f[x]
    BY <1>2
  <1>4. QED
    BY <1>3

(* A set of numbers has a least member.                                    *)
LEMMA LeastMember ==
  ASSUME NEW S \in SUBSET Int, IsFiniteSet(S), S # {}
  PROVE \E x \in S : \A y \in S : x <= y
  <1> DEFINE f == [x \in S |-> x]
  <1>1. f \in [S -> Int]
    OBVIOUS
  <1>2. PICK x \in S : \A y \in S : f[x] <= f[y]
    <2> HIDE DEF f
    <2>1. QED
      BY <1>1, LeastValue
  <1>3. QED
    BY <1>2

(* Two finite sets without a common element.                               *)
LEMMA DisjointUnion ==
  ASSUME NEW S, IsFiniteSet(S), NEW T, IsFiniteSet(T), S \intersect T = {}
  PROVE /\ IsFiniteSet(S \union T)
        /\ Cardinality(S \union T) = Cardinality(S) + Cardinality(T)
  <1>1. Cardinality(S) \in Nat /\ Cardinality(T) \in Nat
    BY FS_CardinalityType
  <1>2. Cardinality(S \intersect T) = 0
    BY FS_EmptySet
  <1>3. /\ IsFiniteSet(S \union T)
        /\ Cardinality(S \union T) =
             Cardinality(S) + Cardinality(T) - Cardinality(S \intersect T)
    BY FS_Union
  <1>4. QED
    BY <1>1, <1>2, <1>3

(* The values of a function on a finite set.                               *)
LEMMA ImageOfFinite ==
  ASSUME NEW S, IsFiniteSet(S), NEW f
  PROVE IsFiniteSet({f[x] : x \in S})
  <1> DEFINE T == {f[x] : x \in S}
             g == [x \in S |-> f[x]]
  <1>1. g \in Surjection(S, T)
    BY DEF Surjection
  <1>2. QED
    BY <1>1, FS_Surjection

(* A set with at most one element.                                         *)
LEMMA AtMostOne ==
  ASSUME NEW S, \A x, y \in S : x = y
  PROVE IsFiniteSet(S) /\ Cardinality(S) <= 1
  <1>1. CASE S = {}
    BY <1>1, FS_EmptySet
  <1>2. CASE S # {}
    <2>1. PICK x \in S : S = {x}
      BY <1>2
    <2>2. IsFiniteSet({x}) /\ Cardinality({x}) = 1
      BY FS_Singleton
    <2>3. QED
      BY <2>1, <2>2
  <1>3. QED
    BY <1>1, <1>2

(* One element paired with the first n numbers.                            *)
LEMMA PairsOfOne ==
  ASSUME NEW u, NEW n \in Nat
  PROVE IsFiniteSet({u} \X (1..n)) /\ Cardinality({u} \X (1..n)) = n
  <1>1. IsFiniteSet({u}) /\ Cardinality({u}) = 1
    BY FS_Singleton
  <1>2. IsFiniteSet(1..n) /\ Cardinality(1..n) = n
    BY FS_Interval
  <1>3. /\ IsFiniteSet({u} \X (1..n))
        /\ Cardinality({u} \X (1..n)) = Cardinality({u}) * Cardinality(1..n)
    BY <1>1, <1>2, FS_Product
  <1>4. QED
    BY <1>1, <1>2, <1>3
===============================================================================
