---------------------------- MODULE EmailCronBounds ----------------------------
(***************************************************************************)
(* Proofs about what one run of EmailCron may miss, repeat and count as    *)
(* failed, for every number of users, batch size, fault and step of        *)
(* another actor: the three bounds that count sets of users or of sends    *)
(* against each other.                                                     *)
(***************************************************************************)
EXTENDS EmailCronProofs, FiniteLemmas

-------------------------------------------------------------------------------
(* The place of a user in the order of the query.                          *)

Place(P, u) == Cardinality({v \in P : v <= u})

LEMMA PlaceType ==
  ASSUME NEW P \in SUBSET Users, NEW u \in Users
  PROVE /\ IsFiniteSet({v \in P : v <= u})
        /\ Place(P, u) \in Nat
        /\ u \in P => Place(P, u) >= 1
  <1> DEFINE Before == {v \in P : v <= u}
  <1>1. Before \in SUBSET Users
    OBVIOUS
  <1>2. IsFiniteSet(Before) /\ Cardinality(Before) \in Nat
    BY <1>1, UsersFinite
  <1>3. u \in Int
    BY EmailCronAssumption DEF Users
  <1>4. u \in P => Before # {}
    BY <1>3
  <1>5. Cardinality(Before) = 0 <=> Before = {}
    BY <1>2, FS_EmptySet
  <1>6. QED
    BY <1>2, <1>4, <1>5 DEF Place

(* A later user has a higher place.                                        *)
LEMMA PlaceGrows ==
  ASSUME NEW P \in SUBSET Users, NEW u \in P, NEW v \in P, u < v
  PROVE Place(P, u) < Place(P, v)
  <1> DEFINE Before(w) == {x \in P : x <= w}
  <1>1. u \in Int /\ v \in Int /\ \A x \in P : x \in Int
    BY EmailCronAssumption DEF Users
  <1>2. Before(u) \subseteq Before(v) \ {v} /\ v \in Before(v)
    <2>1. \A x \in P : x <= u => x <= v /\ x # v
      BY <1>1
    <2>2. v <= v
      BY <1>1
    <2>3. QED
      BY <2>1, <2>2
  <1>3. IsFiniteSet(Before(v)) /\ IsFiniteSet(Before(u))
    BY PlaceType
  <1>4. /\ IsFiniteSet(Before(v) \ {v})
        /\ Cardinality(Before(v) \ {v}) = Cardinality(Before(v)) - 1
    BY <1>2, <1>3, FS_RemoveElement
  <1>5. Cardinality(Before(u)) <= Cardinality(Before(v) \ {v})
    BY <1>2, <1>4, FS_Subset
  <1>6. Cardinality(Before(u)) \in Nat /\ Cardinality(Before(v)) \in Nat
    BY <1>3, FS_CardinalityType
  <1>7. /\ Place(P, u) = Cardinality(Before(u))
        /\ Place(P, v) = Cardinality(Before(v))
    BY DEF Place
  <1> HIDE DEF Before
  <1>8. QED
    BY <1>4, <1>5, <1>6, <1>7

LEMMA PlaceIsOnes ==
  ASSUME NEW P \in SUBSET Users, NEW u \in P, NEW v \in P,
         Place(P, u) = Place(P, v)
  PROVE u = v
  <1>1. u \in Int /\ v \in Int
    BY EmailCronAssumption DEF Users
  <1>2. Place(P, u) \in Nat /\ Place(P, v) \in Nat
    BY PlaceType
  <1>3. ~(u < v) /\ ~(v < u)
    BY <1>2, PlaceGrows
  <1>4. QED
    BY <1>1, <1>3

(* There are no more users than places for them.                           *)
LEMMA PlacesBetween ==
  ASSUME NEW P \in SUBSET Users, NEW A \in SUBSET P,
         NEW o \in Nat, NEW k \in Nat,
         \A u \in A : o < Place(P, u) /\ Place(P, u) <= o + k
  PROVE IsFiniteSet(A) /\ Cardinality(A) <= k
  <1> DEFINE f == [u \in A |-> Place(P, u)]
  <1>1. \A u \in A : Place(P, u) \in Nat
    BY PlaceType
  <1>2. f \in [A -> o + 1 .. o + k]
    BY <1>1
  <1>3. \A u, v \in A : f[u] = f[v] => u = v
    BY PlaceIsOnes
  <1>4. f \in Injection(A, o + 1 .. o + k)
    <2> HIDE DEF f
    <2>1. QED
      BY <1>2, <1>3 DEF Injection, IsInjective
  <1>5. IsFiniteSet(o + 1 .. o + k) /\ Cardinality(o + 1 .. o + k) = k
    <2>1. o + 1 \in Int /\ o + k \in Int
      OBVIOUS
    <2>2. Cardinality(o + 1 .. o + k)
            = IF o + 1 > o + k THEN 0 ELSE o + k - (o + 1) + 1
      BY <2>1, FS_Interval
    <2>3. QED
      BY <2>1, <2>2, FS_Interval
  <1>6. QED
    <2> HIDE DEF f
    <2>1. QED
      BY <1>4, <1>5, FS_Injection

(* A user that leaves moves those behind it up by one place.               *)
LEMMA PlaceAfter ==
  ASSUME NEW P \in SUBSET Users, NEW w \in P, NEW u \in Users
  PROVE \/ Place(P \ {w}, u) = Place(P, u)
        \/ Place(P \ {w}, u) = Place(P, u) - 1
  <1> DEFINE Before == {v \in P : v <= u}
  <1>1. {v \in P \ {w} : v <= u} = Before \ {w}
    OBVIOUS
  <1>2. IsFiniteSet(Before)
    BY PlaceType
  <1>3. Cardinality(Before \ {w}) =
          IF w \in Before THEN Cardinality(Before) - 1 ELSE Cardinality(Before)
    <2> HIDE DEF Before
    <2>1. QED
      BY <1>2, FS_RemoveElement
  <1>4. QED
    BY <1>1, <1>3 DEF Place

-------------------------------------------------------------------------------
(* A page.                                                                 *)

LEMMA RankIsPlace ==
  /\ \A u \in Users : Rank(u) = Place(Pending, u)
  /\ \A u \in Users : Rank(u)' = Place(Pending', u)
  BY DEF Rank, Place, Pending

(* What a page is, as far as the bounds are concerned: it has everyone     *)
(* behind the offset up to its own size, and it is empty only when nobody  *)
(* is behind the offset.                                                   *)
LEMMA PageBounds ==
  ASSUME TypeOK
  PROVE /\ Cardinality(Page) \in Nat
        /\ \A u \in Page : Rank(u) <= offset + Cardinality(Page)
        /\ \A u \in Pending : /\ offset < Rank(u)
                              /\ Rank(u) <= offset + Cardinality(Page)
                              => u \in Page
        /\ Page = {} => \A u \in Pending : Rank(u) <= offset
  <1>1. /\ Pending \in SUBSET Users /\ Page \in SUBSET Pending
        /\ offset \in Nat /\ flags.batch \in Nat \ {0}
    BY EmailCronAssumption DEF TypeOK, Pending, Page
  <1>2. ASSUME NEW u \in Pending
        PROVE /\ u \in Users /\ u \in Int
              /\ Rank(u) = Place(Pending, u)
              /\ Rank(u) \in Nat /\ 0 < Rank(u)
    <2>1. u \in Users /\ u \in Int
      BY <1>1, EmailCronAssumption DEF Users
    <2>2. Place(Pending, u) \in Nat /\ Place(Pending, u) >= 1
      BY <1>1, <2>1, PlaceType
    <2>3. QED
      BY <2>1, <2>2, RankIsPlace
  <1>3. IsFiniteSet(Page) /\ Cardinality(Page) <= flags.batch
    BY <1>1, <1>2, PlacesBetween DEF Page
  <1>4. Cardinality(Page) \in Nat
    BY <1>3, FS_CardinalityType
  <1>5. ASSUME NEW u \in Page PROVE Rank(u) <= offset + Cardinality(Page)
    <2> DEFINE Front == {v \in Pending : v <= u /\ Rank(v) <= offset}
               Back == {v \in Pending : v <= u /\ offset < Rank(v)}
    <2>1. /\ Front \in SUBSET Pending
          /\ \A v \in Front : /\ 0 < Place(Pending, v)
                              /\ Place(Pending, v) <= 0 + offset
      BY <1>1, <1>2
    <2>2. IsFiniteSet(Front) /\ Cardinality(Front) <= offset
      <3> HIDE DEF Front
      <3>1. QED
        BY <1>1, <2>1, PlacesBetween
    <2>3. \A v \in Back : Rank(v) <= Rank(u)
      BY <1>1, <1>2, PlaceGrows
    <2>4. Back \in SUBSET Page
      BY <1>1, <1>2, <2>3 DEF Page
    <2>5. IsFiniteSet(Back) /\ Cardinality(Back) <= Cardinality(Page)
      BY <1>3, <2>4, FS_Subset
    <2>6. {v \in Pending : v <= u} = Front \union Back
      BY <1>2, <1>1
    <2>7. Front \intersect Back = {}
      BY <1>1, <1>2
    <2>8. Rank(u) = Cardinality(Front \union Back)
      BY <2>6 DEF Rank
    <2> HIDE DEF Front, Back
    <2>9. Rank(u) = Cardinality(Front) + Cardinality(Back)
      BY <2>2, <2>5, <2>7, <2>8, DisjointUnion
    <2>10. Cardinality(Front) \in Nat /\ Cardinality(Back) \in Nat
      BY <2>2, <2>5, FS_CardinalityType
    <2>11. QED
      BY <1>1, <1>4, <2>2, <2>5, <2>9, <2>10
  <1>6. ASSUME NEW u \in Pending, offset < Rank(u),
               Rank(u) <= offset + Cardinality(Page)
        PROVE u \in Page
    BY <1>1, <1>2, <1>3, <1>4, <1>6 DEF Page
  <1>7. ASSUME Page = {}, NEW w \in Pending, offset < Rank(w) PROVE FALSE
    <2> DEFINE Rest == {v \in Pending : offset < Rank(v)}
    <2>1. Rest \in SUBSET Int /\ Rest # {} /\ IsFiniteSet(Rest)
      BY <1>1, <1>2, <1>7, UsersFinite
    <2>2. PICK u \in Rest : \A v \in Rest : u <= v
      <3> HIDE DEF Rest
      <3>1. QED
        BY <2>1, LeastMember
    <2>3. u \in Pending /\ offset < Rank(u)
      BY <2>2
    <2> DEFINE Front == {v \in Pending : v <= u} \ {u}
    <2>4. ASSUME NEW v \in Front
          PROVE 0 < Place(Pending, v) /\ Place(Pending, v) <= 0 + offset
      <3>1. v \in Pending /\ v <= u /\ v # u /\ v \in Int /\ u \in Int
        BY <1>2, <2>3
      <3>2. ~(offset < Rank(v))
        BY <2>2, <3>1
      <3>3. QED
        BY <1>1, <1>2, <3>1, <3>2
    <2>5. Front \in SUBSET Pending
      OBVIOUS
    <2>6. IsFiniteSet(Front) /\ Cardinality(Front) <= offset
      <3> HIDE DEF Front
      <3>1. QED
        BY <1>1, <2>4, <2>5, PlacesBetween
    <2>7. {v \in Pending : v <= u} = Front \union {u} /\ u \notin Front
      BY <1>2, <2>3
    <2>8. Rank(u) = Cardinality(Front \union {u})
      BY <2>7 DEF Rank
    <2>9. Cardinality(Front \union {u}) = Cardinality(Front) + 1
      <3> HIDE DEF Front
      <3>1. QED
        BY <2>6, <2>7, FS_AddElement
    <2>10. Rank(u) <= offset + 1
      BY <1>1, <2>6, <2>8, <2>9, FS_CardinalityType
    <2>11. u \in Page
      BY <1>1, <1>2, <2>3, <2>10 DEF Page
    <2>12. QED
      BY <1>7, <2>11
  <1>8. QED
    BY <1>1, <1>2, <1>4, <1>5, <1>6, <1>7

-------------------------------------------------------------------------------
(* What a run has gone past.                                               *)

(* The rank up to which this run has fetched: the batch in hand counts.    *)
Reached == IF Mailing THEN offset + Cardinality(batch) ELSE offset

(* The steps that move the rows, the pages or the run; a quiet one does    *)
(* not.                                                                    *)
Quiet ==
  /\ UNCHANGED <<visible, verified, gone, late, took, base, offset, batch>>
  /\ Running' => Running /\ (Mailing' <=> Mailing)
  /\ phase' = "clean" => phase = "clean"

LEMMA StepKinds ==
  ASSUME [Next]_vars
  PROVE \/ Start \/ Fetch \/ End \/ Collect \/ Quiet
        \/ \E u \in Users : Appear(u) \/ Verify(u)
  <1> USE DEF Quiet, Running, Mailing, users, fetched
  <1>1. CASE Kill \/ FetchFails
    BY <1>1 DEF Kill, FetchFails
  <1>2. ASSUME NEW u \in Users,
               \/ Store(u) \/ StoreFails(u) \/ Dispatch(u)
               \/ SendSucceeds(u) \/ SendFails(u) \/ Count(u) \/ Report(u)
        PROVE Quiet
    BY <1>2 DEF Store, StoreFails, Dispatch, SendSucceeds, SendFails, Count,
                Report
  <1>3. CASE UNCHANGED vars
    BY <1>3 DEF vars
  <1>4. QED
    BY <1>1, <1>2, <1>3, NextCases

Taken == {u \in Users : took[u] > 0}

(* Users leave the pending ones only by being verified, and only pending   *)
(* ones are fetched.                                                       *)
UsersInv == /\ gone \subseteq verified
            /\ (base \ gone) \subseteq Pending
            /\ late \subseteq visible
            /\ Taken \subseteq visible

LEMMA InitUsers == Init => UsersInv
  BY DEF Init, UsersInv, Taken, Zero

LEMMA NextUsers == TypeOK /\ UsersInv /\ [Next]_vars => UsersInv'
  <1> SUFFICES ASSUME TypeOK, UsersInv, [Next]_vars PROVE UsersInv'
    OBVIOUS
  <1> USE DEF UsersInv, Taken, Pending
  <1>0. took \in [Users -> Nat]
    BY DEF TypeOK
  <1>1. CASE Start
    BY <1>1 DEF Start, Zero
  <1>2. CASE Fetch
    <2>1. took' = [u \in Users |-> took[u] + IF u \in Page THEN 1 ELSE 0]
      BY <1>2 DEF Fetch
    <2>2. Taken' \subseteq Taken \union Page
      BY <1>0, <2>1
    <2>3. Page \subseteq visible
      BY DEF Page
    <2>4. UNCHANGED <<visible, verified, gone, late, base>>
      BY <1>2 DEF Fetch, users
    <2>5. QED
      BY <2>2, <2>3, <2>4
  <1>3. CASE End \/ Collect
    BY <1>3 DEF End, Collect, users, fetched
  <1>4. CASE Quiet
    BY <1>4 DEF Quiet
  <1>5. ASSUME NEW w \in Users, Appear(w) \/ Verify(w) PROVE UsersInv'
    BY <1>5 DEF Appear, Verify, fetched
  <1>6. QED
    BY <1>1, <1>2, <1>3, <1>4, <1>5, StepKinds

(* How ranks move.                                                         *)
LEMMA RanksMove ==
  ASSUME TypeOK, NEW w \in Users, Appear(w) \/ Verify(w)
  PROVE /\ Pending' \in SUBSET Users
        /\ \A u \in Users : Rank(u) \in Nat /\ Rank(u)' \in Nat
        /\ Appear(w) => /\ Pending \subseteq Pending'
                        /\ Pending' \subseteq Pending \union {w}
                        /\ \A u \in Users : \/ Rank(u)' = Rank(u)
                                            \/ Rank(u)' = Rank(u) + 1
        /\ Verify(w) => /\ w \in Pending /\ Pending' = Pending \ {w}
                        /\ \A u \in Users : \/ Rank(u)' = Rank(u)
                                            \/ Rank(u)' = Rank(u) - 1
  <1>1. Pending \in SUBSET Users
    BY DEF TypeOK, Pending
  <1>2. Pending' \in SUBSET Users
    BY <1>1 DEF Appear, Verify, Pending, TypeOK
  <1>3. \A u \in Users : Rank(u) \in Nat /\ Rank(u)' \in Nat
    BY <1>1, <1>2, PlaceType, RankIsPlace
  <1>4. ASSUME Appear(w)
        PROVE /\ Pending \subseteq Pending'
              /\ Pending' \subseteq Pending \union {w}
              /\ \A u \in Users : \/ Rank(u)' = Rank(u)
                                  \/ Rank(u)' = Rank(u) + 1
    <2>1. Pending' = Pending \/ (w \in Pending' /\ Pending = Pending' \ {w})
      BY <1>4 DEF Appear, Pending
    <2>2. ASSUME w \in Pending', Pending = Pending' \ {w}, NEW u \in Users
          PROVE Rank(u)' = Rank(u) \/ Rank(u)' = Rank(u) + 1
      <3>1. \/ Place(Pending' \ {w}, u) = Place(Pending', u)
            \/ Place(Pending' \ {w}, u) = Place(Pending', u) - 1
        BY <1>2, <2>2, PlaceAfter
      <3>2. QED
        BY <1>3, <2>2, <3>1, RankIsPlace
    <2>3. QED
      BY <2>1, <2>2, RankIsPlace
  <1>5. ASSUME Verify(w)
        PROVE /\ w \in Pending /\ Pending' = Pending \ {w}
              /\ \A u \in Users : \/ Rank(u)' = Rank(u)
                                  \/ Rank(u)' = Rank(u) - 1
    <2>1. w \in Pending /\ Pending' = Pending \ {w}
      BY <1>5 DEF Verify, Pending
    <2>2. QED
      BY <1>1, <2>1, PlaceAfter, RankIsPlace
  <1>6. QED
    BY <1>2, <1>3, <1>4, <1>5

(* At most one user has a given rank.                                      *)
LEMMA OneAtRank ==
  ASSUME TypeOK, NEW k
  PROVE /\ IsFiniteSet({u \in Pending : Rank(u) = k})
        /\ Cardinality({u \in Pending : Rank(u) = k}) <= 1
  <1> DEFINE S == {u \in Pending : Rank(u) = k}
  <1>1. Pending \in SUBSET Users
    BY DEF TypeOK, Pending
  <1>2. \A u, v \in S : u = v
    BY <1>1, RankIsPlace, PlaceIsOnes
  <1>3. IsFiniteSet(S) /\ Cardinality(S) <= 1
    <2> HIDE DEF S
    <2>1. QED
      BY <1>2, AtMostOne
  <1>4. QED
    BY <1>3

-------------------------------------------------------------------------------
(* Skipped users.                                                          *)

(* Users of the beginning that this run has gone past without fetching.    *)
Passed == {u \in base \ gone : took[u] = 0 /\ Rank(u) <= Reached}

(* Each of them is paid for by a user who was verified.                    *)
SkipInv == /\ Running => Cardinality(Passed) <= Cardinality(gone)
           /\ SkipsPaid

LEMMA InitSkips == Init => SkipInv
  BY DEF Init, SkipInv, SkipsPaid, Running

LEMMA SkipTypes ==
  ASSUME TypeOK
  PROVE /\ IsFiniteSet(Passed) /\ Cardinality(Passed) \in Nat
        /\ IsFiniteSet(Missed) /\ Cardinality(Missed) \in Nat
        /\ IsFiniteSet(gone) /\ Cardinality(gone) \in Nat
        /\ Cardinality(batch) \in Nat /\ offset \in Nat /\ Reached \in Nat
        /\ base \subseteq Users /\ took \in [Users -> Nat]
  <1>1. /\ Passed \in SUBSET Users /\ Missed \in SUBSET Users
        /\ gone \in SUBSET Users /\ batch \in SUBSET Users
    BY DEF TypeOK, Passed, Missed
  <1>2. Cardinality(batch) \in Nat /\ offset \in Nat
    BY <1>1, UsersFinite DEF TypeOK
  <1>3. QED
    BY <1>1, <1>2, UsersFinite DEF Reached, TypeOK

LEMMA AppearSkips ==
  ASSUME TypeOK, UsersInv, SkipInv, NEW w \in Users, Appear(w)
  PROVE SkipInv'
  <1>1. UNCHANGED <<phase, offset, batch, took, base, gone>>
    BY DEF Appear, fetched
  <1>2. Reached' = Reached /\ (Running' <=> Running)
    BY <1>1 DEF Reached, Mailing, Running
  <1>3. Passed' \subseteq Passed
    BY <1>1, <1>2, RanksMove, SkipTypes DEF Passed
  <1>4. /\ Cardinality(Passed') <= Cardinality(Passed)
        /\ Cardinality(Passed') \in Nat
    BY <1>3, SkipTypes, FS_Subset, FS_CardinalityType
  <1>5. Running' => Cardinality(Passed') <= Cardinality(gone')
    BY <1>1, <1>2, <1>4, SkipTypes DEF SkipInv
  <1>6. SkipsPaid'
    BY <1>1 DEF SkipInv, SkipsPaid, Missed
  <1>7. QED
    BY <1>5, <1>6 DEF SkipInv

LEMMA VerifySkips ==
  ASSUME TypeOK, UsersInv, SkipInv, NEW w \in Users, Verify(w)
  PROVE SkipInv'
  <1>1. /\ UNCHANGED <<phase, offset, batch, took, base>>
        /\ gone' = gone \union {w} /\ w \notin gone
    BY DEF Verify, fetched, UsersInv, Pending
  <1>2. Reached' = Reached /\ (Running' <=> Running)
    BY <1>1 DEF Reached, Mailing, Running
  <1>3. Cardinality(gone') = Cardinality(gone) + 1
    BY <1>1, SkipTypes, FS_AddElement
  <1> DEFINE Next1 == {u \in Pending : Rank(u) = Reached + 1}
  <1>4. Passed' \subseteq Passed \union Next1
    <2>1. SUFFICES ASSUME NEW u \in Passed', u \notin Passed PROVE u \in Next1
      OBVIOUS
    <2>2. /\ u \in base \ gone /\ took[u] = 0 /\ Rank(u)' <= Reached
          /\ u \in Pending /\ u \in Users
      BY <1>1, <1>2, SkipTypes DEF Passed, UsersInv
    <2>3. ~(Rank(u) <= Reached)
      BY <2>1, <2>2 DEF Passed
    <2>4. Rank(u) = Reached + 1
      BY <2>2, <2>3, RanksMove, SkipTypes
    <2>5. QED
      BY <2>2, <2>4
  <1>5. IsFiniteSet(Next1) /\ Cardinality(Next1) <= 1
    BY OneAtRank
  <1>6. /\ Cardinality(Passed') <= Cardinality(Passed) + 1
        /\ Cardinality(Passed') \in Nat
    <2> HIDE DEF Next1
    <2>1. /\ IsFiniteSet(Passed \union Next1)
          /\ Cardinality(Passed \union Next1) =
               Cardinality(Passed) + Cardinality(Next1)
                 - Cardinality(Passed \intersect Next1)
      BY <1>5, SkipTypes, FS_Union
    <2>2. Cardinality(Passed') <= Cardinality(Passed \union Next1)
      BY <1>4, <2>1, FS_Subset
    <2>3. IsFiniteSet(Passed \intersect Next1)
      BY SkipTypes, FS_Intersection
    <2>4. /\ Cardinality(Passed \intersect Next1) \in Nat
          /\ Cardinality(Next1) \in Nat /\ Cardinality(Passed) \in Nat
      BY <1>5, <2>3, SkipTypes, FS_CardinalityType
    <2>5. Cardinality(Passed') \in Nat
      BY <1>4, <2>1, FS_Subset, FS_CardinalityType
    <2>6. QED
      BY <1>5, <2>1, <2>2, <2>4, <2>5
  <1>7. Running' => Cardinality(Passed') <= Cardinality(gone')
    BY <1>2, <1>3, <1>6, SkipTypes DEF SkipInv
  <1>8. SkipsPaid'
    <2>1. Missed' \subseteq Missed
      BY <1>1 DEF Missed
    <2>2. /\ Cardinality(Missed') <= Cardinality(Missed)
          /\ Cardinality(Missed') \in Nat
      BY <2>1, SkipTypes, FS_Subset, FS_CardinalityType
    <2>3. QED
      BY <1>1, <1>3, <2>2, SkipTypes DEF SkipInv, SkipsPaid
  <1>9. QED
    BY <1>7, <1>8 DEF SkipInv

LEMMA FetchSkips ==
  ASSUME TypeOK, UsersInv, SkipInv, Fetch
  PROVE SkipInv'
  <1>1. /\ UNCHANGED <<visible, verified, gone, base, offset>>
        /\ phase = "fetch" /\ phase' = "tokens" /\ batch' = Page
        /\ took' = [u \in Users |-> took[u] + IF u \in Page THEN 1 ELSE 0]
    BY DEF Fetch, users
  <1>2. Reached = offset /\ Reached' = offset + Cardinality(Page)
    BY <1>1 DEF Reached, Mailing
  <1>3. Passed' \subseteq Passed
    <2>1. SUFFICES ASSUME NEW u \in Passed' PROVE u \in Passed
      OBVIOUS
    <2>2. /\ u \in base \ gone /\ u \in Pending /\ u \in Users
          /\ took'[u] = 0 /\ Rank(u)' <= offset + Cardinality(Page)
      BY <1>1, <1>2, SkipTypes DEF Passed, UsersInv
    <2>3. Rank(u)' = Rank(u)
      BY <1>1 DEF Rank, Pending
    <2>4. took[u] = 0 /\ u \notin Page
      BY <1>1, <2>2, SkipTypes
    <2>5. ~(offset < Rank(u))
      BY <2>2, <2>3, <2>4, PageBounds
    <2>6. Rank(u) \in Nat
      <3>1. Pending \in SUBSET Users
        BY DEF TypeOK, Pending
      <3>2. QED
        BY <2>2, <3>1, RankIsPlace, PlaceType
    <2>7. QED
      BY <1>2, <2>2, <2>4, <2>5, <2>6, SkipTypes DEF Passed
  <1>4. /\ Cardinality(Passed') <= Cardinality(Passed)
        /\ Cardinality(Passed') \in Nat
    BY <1>3, SkipTypes, FS_Subset, FS_CardinalityType
  <1>5. QED
    BY <1>1, <1>4, SkipTypes DEF SkipInv, SkipsPaid, Running

LEMMA EndSkips ==
  ASSUME TypeOK, UsersInv, SkipInv, End
  PROVE SkipInv'
  <1>1. /\ UNCHANGED <<gone, base, took>>
        /\ phase = "fetch" /\ Page = {} /\ ~Running'
    BY DEF End, users, fetched, Running
  <1>2. Missed \subseteq Passed
    <2>1. Reached = offset
      BY <1>1 DEF Reached, Mailing
    <2>2. \A u \in Pending : Rank(u) <= offset
      BY <1>1, PageBounds
    <2>3. QED
      BY <2>1, <2>2 DEF Missed, Passed, UsersInv
  <1>3. Cardinality(Missed) <= Cardinality(Passed)
    BY <1>2, SkipTypes, FS_Subset
  <1>4. Cardinality(Missed) <= Cardinality(gone)
    BY <1>1, <1>3, SkipTypes DEF SkipInv, Running
  <1>5. QED
    BY <1>1, <1>4 DEF SkipInv, SkipsPaid, Missed

LEMMA NextSkips ==
  TypeOK /\ UsersInv /\ SkipInv /\ [Next]_vars => SkipInv'
  <1> SUFFICES ASSUME TypeOK, UsersInv, SkipInv, [Next]_vars
               PROVE SkipInv'
    OBVIOUS
  <1>1. CASE Start
    <2>1. base' \ gone' = Pending /\ gone' = {} /\ phase' = "fetch"
          /\ offset' = 0 /\ Pending' = Pending
      BY <1>1 DEF Start, Pending
    <2>2. Reached' = 0
      BY <2>1 DEF Reached, Mailing
    <2>3. ASSUME NEW u \in Pending PROVE Rank(u)' >= 1 /\ Rank(u)' \in Nat
      <3>1. Pending \in SUBSET Users /\ u \in Users
        BY DEF TypeOK, Pending
      <3>2. Place(Pending, u) >= 1 /\ Place(Pending, u) \in Nat
        BY <3>1, PlaceType
      <3>3. Rank(u)' = Place(Pending, u)
        BY <2>1, <3>1, RankIsPlace
      <3>4. QED
        BY <3>2, <3>3
    <2>4. Passed' = {}
      BY <2>1, <2>2, <2>3 DEF Passed
    <2>5. QED
      BY <2>1, <2>4, FS_EmptySet DEF SkipInv, SkipsPaid
  <1>2. CASE Collect
    <2>1. /\ UNCHANGED <<visible, verified, gone, base, took>>
          /\ phase = "mail" /\ phase' = "fetch"
          /\ offset' = offset + Cardinality(batch)
      BY <1>2 DEF Collect, users, fetched
    <2>2. Reached' = Reached
      BY <2>1 DEF Reached, Mailing
    <2>3. Passed' = Passed
      BY <2>1, <2>2 DEF Passed, Rank, Pending
    <2>4. QED
      BY <2>1, <2>3 DEF SkipInv, SkipsPaid, Running
  <1>3. CASE Quiet
    <2>1. Running' => Reached' = Reached
      BY <1>3 DEF Quiet, Reached
    <2>2. Running' => Passed' = Passed
      BY <1>3, <2>1 DEF Quiet, Passed, Rank, Pending
    <2>3. QED
      BY <1>3, <2>2 DEF Quiet, SkipInv, SkipsPaid, Missed
  <1>4. QED
    BY <1>1, <1>2, <1>3, StepKinds, FetchSkips, EndSkips, AppearSkips,
       VerifySkips

(* A run that comes to its end misses at most one pending user for each    *)
(* one who was verified in the meantime, whatever the batch size.          *)
THEOREM SkipsArePaid == Spec => []SkipsPaid
  <1>1. SkipInv => SkipsPaid
    BY DEF SkipInv
  <1>2. QED
    BY <1>1, InitTypeOK, NextTypeOK, InitUsers, NextUsers, InitSkips, NextSkips,
       PTL DEF Spec

-------------------------------------------------------------------------------
(* Repeated users.                                                         *)

(* Users that were fetched and that the rows in front of them have moved   *)
(* behind what was gone past: a later page may fetch them again.           *)
Ahead == {u \in Taken \intersect Pending : Rank(u) > Reached}

(* A row that becomes visible moves at most one of them there.             *)
RepeatInv ==
  /\ IsFiniteSet(Repeats)
  /\ RepeatsPaid
  /\ Running => Cardinality(Repeats) + Cardinality(Ahead) <= Cardinality(late)

LEMMA RepeatTypes ==
  ASSUME TypeOK
  PROVE /\ IsFiniteSet(Ahead) /\ Cardinality(Ahead) \in Nat
        /\ IsFiniteSet(late) /\ Cardinality(late) \in Nat
        /\ Cardinality(batch) \in Nat /\ offset \in Nat /\ Reached \in Nat
        /\ Pending \in SUBSET Users /\ took \in [Users -> Nat]
        /\ \A u \in Users : Rank(u) \in Nat
  <1>1. /\ Ahead \in SUBSET Users /\ late \in SUBSET Users
        /\ Pending \in SUBSET Users
    BY DEF TypeOK, Ahead, Pending
  <1>2. QED
    BY <1>1, UsersFinite, SkipTypes, RankIsPlace, PlaceType

LEMMA NoRepeats == ASSUME took = Zero PROVE Repeats = {} /\ Taken = {}
  BY EmailCronAssumption DEF Repeats, Taken, Zero

LEMMA NoRepeatsPrimed == ASSUME took' = Zero PROVE Repeats' = {} /\ Taken' = {}
  BY EmailCronAssumption DEF Repeats, Taken, Zero

LEMMA InitRepeats == Init => RepeatInv
  <1>1. ASSUME Init PROVE RepeatInv
    <2>1. Repeats = {} /\ late = {} /\ ~Running
      BY <1>1, NoRepeats DEF Init, Running
    <2>2. QED
      BY <2>1, FS_EmptySet DEF RepeatInv, RepeatsPaid
  <1>2. QED
    BY <1>1

LEMMA AppearRepeats ==
  ASSUME TypeOK, UsersInv, RepeatInv, NEW w \in Users, Appear(w)
  PROVE RepeatInv'
  <1>1. /\ UNCHANGED <<phase, offset, batch, took>>
        /\ late' = late \union {w} /\ w \notin late /\ w \notin Taken
    BY DEF Appear, fetched, UsersInv
  <1>2. Reached' = Reached /\ (Running' <=> Running) /\ Repeats' = Repeats
    BY <1>1 DEF Reached, Mailing, Running, Repeats
  <1>3. Cardinality(late') = Cardinality(late) + 1
    BY <1>1, RepeatTypes, FS_AddElement
  <1> DEFINE Last == {u \in Pending : Rank(u) = Reached}
  <1>4. Ahead' \subseteq Ahead \union Last
    <2>1. SUFFICES ASSUME NEW u \in Ahead', u \notin Ahead PROVE u \in Last
      OBVIOUS
    <2>2. u \in Taken /\ u \in Pending' /\ u \in Users /\ Rank(u)' > Reached
      BY <1>1, <1>2, RanksMove DEF Ahead, Taken
    <2>3. u \in Pending
      BY <1>1, <2>2, RanksMove
    <2>4. ~(Rank(u) > Reached)
      BY <2>1, <2>2, <2>3 DEF Ahead
    <2>5. Rank(u) = Reached
      BY <2>2, <2>4, RanksMove, RepeatTypes
    <2>6. QED
      BY <2>3, <2>5
  <1>5. IsFiniteSet(Last) /\ Cardinality(Last) <= 1
    BY OneAtRank
  <1>6. /\ Cardinality(Ahead') <= Cardinality(Ahead) + 1
        /\ Cardinality(Ahead') \in Nat
    <2> HIDE DEF Last
    <2>1. /\ IsFiniteSet(Ahead \union Last)
          /\ Cardinality(Ahead \union Last) =
               Cardinality(Ahead) + Cardinality(Last)
                 - Cardinality(Ahead \intersect Last)
      BY <1>5, RepeatTypes, FS_Union
    <2>2. Cardinality(Ahead') <= Cardinality(Ahead \union Last)
      BY <1>4, <2>1, FS_Subset
    <2>3. IsFiniteSet(Ahead \intersect Last)
      BY RepeatTypes, FS_Intersection
    <2>4. /\ Cardinality(Ahead \intersect Last) \in Nat
          /\ Cardinality(Last) \in Nat /\ Cardinality(Ahead) \in Nat
      BY <1>5, <2>3, RepeatTypes, FS_CardinalityType
    <2>5. Cardinality(Ahead') \in Nat
      BY <1>4, <2>1, FS_Subset, FS_CardinalityType
    <2>6. QED
      BY <1>5, <2>1, <2>2, <2>4, <2>5
  <1>7. Cardinality(Repeats) \in Nat
    BY FS_CardinalityType DEF RepeatInv
  <1>8. RepeatsPaid'
    BY <1>2, <1>3, <1>7, RepeatTypes DEF RepeatInv, RepeatsPaid
  <1>9. Running' =>
          Cardinality(Repeats') + Cardinality(Ahead') <= Cardinality(late')
    BY <1>2, <1>3, <1>6, <1>7, RepeatTypes DEF RepeatInv
  <1>10. QED
    BY <1>2, <1>8, <1>9 DEF RepeatInv

LEMMA VerifyRepeats ==
  ASSUME TypeOK, UsersInv, RepeatInv, NEW w \in Users, Verify(w)
  PROVE RepeatInv'
  <1>1. UNCHANGED <<phase, offset, batch, took, late>>
    BY DEF Verify, fetched
  <1>2. Reached' = Reached /\ (Running' <=> Running) /\ Repeats' = Repeats
    BY <1>1 DEF Reached, Mailing, Running, Repeats
  <1>3. Ahead' \subseteq Ahead
    <2>1. SUFFICES ASSUME NEW u \in Ahead' PROVE u \in Ahead
      OBVIOUS
    <2>2. u \in Taken /\ u \in Pending /\ u \in Users /\ Rank(u)' > Reached
      BY <1>1, <1>2, RanksMove DEF Ahead, Taken
    <2>3. Rank(u) > Reached
      BY <2>2, RanksMove, RepeatTypes
    <2>4. QED
      BY <2>2, <2>3 DEF Ahead
  <1>4. Cardinality(Ahead') <= Cardinality(Ahead) /\ Cardinality(Ahead') \in Nat
    BY <1>3, RepeatTypes, FS_Subset, FS_CardinalityType
  <1>5. Cardinality(Repeats) \in Nat
    BY FS_CardinalityType DEF RepeatInv
  <1>6. QED
    BY <1>1, <1>2, <1>4, <1>5, RepeatTypes DEF RepeatInv, RepeatsPaid

(* A page repeats users that were ahead, and these are not any more.       *)
LEMMA FetchRepeats ==
  ASSUME TypeOK, UsersInv, RepeatInv, Fetch
  PROVE RepeatInv'
  <1> DEFINE Again == Page \intersect Taken
             New == {<<u, took[u] + 1>> : u \in Again}
  <1>1. /\ UNCHANGED <<visible, verified, late, offset>>
        /\ phase = "fetch" /\ phase' = "tokens" /\ batch' = Page
        /\ took' = [u \in Users |-> took[u] + IF u \in Page THEN 1 ELSE 0]
    BY DEF Fetch, users
  <1>2. /\ Reached = offset /\ Reached' = offset + Cardinality(Page)
        /\ Cardinality(Page) \in Nat /\ offset \in Nat
    BY <1>1, PageBounds, RepeatTypes DEF Reached, Mailing
  <1>3. Repeats' \subseteq Repeats \union New
    <2>1. SUFFICES ASSUME NEW x \in Repeats', x \notin Repeats PROVE x \in New
      OBVIOUS
    <2>2. PICK u \in Users : x \in {u} \X (2..took'[u])
      BY <2>1 DEF Repeats
    <2> PICK n \in 2..took'[u] : x = <<u, n>>
      BY <2>2
    <2>3. ~(n \in 2..took[u])
      BY <2>1, <2>2 DEF Repeats
    <2>4. /\ took[u] \in Nat
          /\ took'[u] = took[u] + IF u \in Page THEN 1 ELSE 0
      BY <1>1, RepeatTypes
    <2>5. u \in Page /\ n = took[u] + 1 /\ took[u] > 0
      BY <2>2, <2>3, <2>4
    <2>6. u \in Again
      BY <2>5 DEF Taken
    <2>7. QED
      BY <2>2, <2>5, <2>6
  <1>4. Again \subseteq Ahead
    BY <1>2 DEF Page, Ahead
  <1>5. IsFiniteSet(Again)
    BY <1>4, RepeatTypes, FS_Subset
  <1>6. IsFiniteSet(New) /\ Cardinality(New) <= Cardinality(Again)
    <2> DEFINE f == [u \in Again |-> <<u, took[u] + 1>>]
    <2>1. f \in Surjection(Again, New)
      BY DEF Surjection
    <2>2. QED
      <3> HIDE DEF f, New, Again
      <3>1. QED
        BY <1>5, <2>1, FS_Surjection
  <1>7. Ahead' \subseteq Ahead \ Again
    <2>1. SUFFICES ASSUME NEW u \in Ahead' PROVE u \in Ahead /\ u \notin Page
      OBVIOUS
    <2>2. /\ u \in Users /\ took'[u] > 0 /\ u \in Pending
          /\ Rank(u)' > offset + Cardinality(Page)
      BY <1>1, <1>2 DEF Ahead, Taken, Pending
    <2>3. Rank(u)' = Rank(u) /\ Rank(u) \in Nat
      BY <1>1, <2>2, RepeatTypes DEF Rank, Pending
    <2>4. u \notin Page
      BY <1>2, <2>2, <2>3, PageBounds
    <2>5. took[u] > 0
      BY <1>1, <2>2, <2>4, RepeatTypes
    <2>6. QED
      BY <1>2, <2>2, <2>3, <2>4, <2>5 DEF Ahead, Taken
  <1> HIDE DEF New, Again
  <1>8. /\ IsFiniteSet(Repeats') /\ IsFiniteSet(Repeats \union New)
        /\ Cardinality(Repeats') <= Cardinality(Repeats \union New)
    <2>1. IsFiniteSet(Repeats \union New)
      BY <1>6, FS_Union DEF RepeatInv
    <2>2. QED
      BY <1>3, <2>1, FS_Subset
  <1>9. Cardinality(Repeats \union New)
          <= Cardinality(Repeats) + Cardinality(New)
    <2>1. Cardinality(Repeats \union New) =
            Cardinality(Repeats) + Cardinality(New)
              - Cardinality(Repeats \intersect New)
      BY <1>6, FS_Union DEF RepeatInv
    <2>2. IsFiniteSet(Repeats \intersect New)
      BY FS_Intersection DEF RepeatInv
    <2>3. /\ Cardinality(Repeats) \in Nat /\ Cardinality(New) \in Nat
          /\ Cardinality(Repeats \intersect New) \in Nat
      BY <1>6, <2>2, FS_CardinalityType DEF RepeatInv
    <2>4. QED
      BY <2>1, <2>3
  <1>10. /\ IsFiniteSet(Ahead \ Again) /\ IsFiniteSet(Ahead')
         /\ Cardinality(Ahead') <= Cardinality(Ahead \ Again)
         /\ Cardinality(Ahead \ Again) = Cardinality(Ahead) - Cardinality(Again)
    <2>1. IsFiniteSet(Ahead \ Again)
      BY RepeatTypes, FS_Difference
    <2>2. Ahead \intersect Again = Again
      BY <1>4
    <2>3. Cardinality(Ahead \ Again) =
            Cardinality(Ahead) - Cardinality(Ahead \intersect Again)
      BY RepeatTypes, FS_Difference
    <2>4. QED
      BY <1>7, <2>1, <2>2, <2>3, FS_Subset
  <1>11. /\ Cardinality(Repeats') \in Nat /\ Cardinality(Repeats) \in Nat
         /\ Cardinality(Repeats \union New) \in Nat
         /\ Cardinality(New) \in Nat /\ Cardinality(Again) \in Nat
         /\ Cardinality(Ahead') \in Nat /\ Cardinality(Ahead \ Again) \in Nat
    BY <1>5, <1>6, <1>8, <1>10, FS_CardinalityType DEF RepeatInv
  <1>12. Cardinality(Repeats) + Cardinality(Ahead) <= Cardinality(late)
    BY <1>1 DEF RepeatInv, Running
  <1>13. Cardinality(Repeats') + Cardinality(Ahead') <= Cardinality(late)
    BY <1>6, <1>8, <1>9, <1>10, <1>11, <1>12, RepeatTypes
  <1>14. QED
    BY <1>1, <1>8, <1>11, <1>13, RepeatTypes DEF RepeatInv, RepeatsPaid

LEMMA NextRepeats ==
  TypeOK /\ UsersInv /\ RepeatInv /\ [Next]_vars => RepeatInv'
  <1> SUFFICES ASSUME TypeOK, UsersInv, RepeatInv, [Next]_vars PROVE RepeatInv'
    OBVIOUS
  <1>1. CASE Start
    <2>1. took' = Zero /\ late' = {}
      BY <1>1 DEF Start
    <2>2. Repeats' = {} /\ Taken' = {}
      BY <2>1, NoRepeatsPrimed
    <2>3. Ahead' = {}
      BY <2>2 DEF Ahead
    <2>4. QED
      BY <2>1, <2>2, <2>3, FS_EmptySet DEF RepeatInv, RepeatsPaid
  <1>2. CASE Collect
    <2>1. /\ UNCHANGED <<visible, verified, late, took>>
          /\ phase = "mail" /\ phase' = "fetch"
          /\ offset' = offset + Cardinality(batch)
      BY <1>2 DEF Collect, users, fetched
    <2>2. Reached' = Reached
      BY <2>1 DEF Reached, Mailing
    <2>3. Ahead' = Ahead
      BY <2>1, <2>2 DEF Ahead, Rank, Pending, Taken
    <2>4. QED
      BY <2>1, <2>3 DEF RepeatInv, RepeatsPaid, Repeats, Running
  <1>3. CASE Quiet
    <2>1. Running' => Reached' = Reached
      BY <1>3 DEF Quiet, Reached
    <2>2. Running' => Ahead' = Ahead
      BY <1>3, <2>1 DEF Quiet, Ahead, Rank, Pending, Taken
    <2>3. QED
      BY <1>3, <2>2 DEF Quiet, RepeatInv, RepeatsPaid, Repeats
  <1>4. CASE End
    BY <1>4 DEF End, users, fetched, RepeatInv, RepeatsPaid, Repeats, Running
  <1>5. QED
    BY <1>1, <1>2, <1>3, <1>4, StepKinds, FetchRepeats, AppearRepeats,
       VerifyRepeats

(* A run fetches at most one user once more for each row that becomes      *)
(* visible in the middle of it.                                            *)
THEOREM RepeatsArePaid == Spec => []RepeatsPaid
  <1>1. RepeatInv => RepeatsPaid
    BY DEF RepeatInv
  <1>2. QED
    BY <1>1, InitTypeOK, NextTypeOK, InitUsers, NextUsers, InitRepeats,
       NextRepeats, PTL DEF Spec

-------------------------------------------------------------------------------
(* Failed jobs.                                                            *)

(* The failed sends of the jobs that are not counted yet, one by one.      *)
Trying == {u \in batch : phase = "mail"
                        /\ stage[u] \in {"job", "sending", "settled"}}
Tries == UNION {{u} \X (1..attempts[u]) : u \in Trying}

Cost == Cardinality(Tries) + failed * (flags.retries + 1)

(* In the first run every failing send is held by its job, until the job   *)
(* is counted as failed for retries + 1 of them.                           *)
RetryInv ==
  /\ faults <= MaxFaults
  /\ runs = 0 => failed = 0 /\ ~Running
  /\ phase = "tokens" => attempts = Zero
  /\ IsFiniteSet(Tries)
  /\ runs <= 1 => Cost <= MaxFaults - faults

LEMMA RetryTypes ==
  ASSUME TypeOK
  PROVE /\ faults \in Nat /\ MaxFaults \in Nat /\ runs \in Nat
        /\ failed \in Nat /\ flags.retries \in Nat
        /\ failed * (flags.retries + 1) \in Nat
        /\ (failed + 1) * (flags.retries + 1)
             = failed * (flags.retries + 1) + flags.retries + 1
        /\ batch \subseteq Users /\ stage \in [Users -> Stages]
        /\ attempts \in [Users -> Nat]
  <1>1. /\ faults \in Nat /\ MaxFaults \in Nat /\ runs \in Nat
        /\ failed \in Nat /\ flags.retries \in Nat
        /\ batch \subseteq Users /\ stage \in [Users -> Stages]
        /\ attempts \in [Users -> Nat]
    BY EmailCronAssumption DEF TypeOK
  <1>2. ASSUME NEW a \in Nat, NEW b \in Nat
        PROVE a * (b + 1) \in Nat /\ (a + 1) * (b + 1) = a * (b + 1) + b + 1
    OBVIOUS
  <1>3. QED
    BY <1>1, <1>2

LEMMA NoTries == ASSUME phase # "mail" PROVE Tries = {}
  BY DEF Tries, Trying

LEMMA NoTriesPrimed == ASSUME phase' # "mail" PROVE Tries' = {}
  BY DEF Tries, Trying

LEMMA InitRetries == Init => RetryInv
  <1>1. ASSUME Init PROVE RetryInv
    <2>1. Tries = {}
      BY <1>1, NoTries DEF Init
    <2>2. \A n \in Nat : 0 + 0 * (n + 1) <= 0
      OBVIOUS
    <2>3. flags.retries \in Nat /\ MaxFaults \in Nat
      BY <1>1, EmailCronAssumption DEF Init
    <2>4. faults = MaxFaults /\ failed = 0 /\ ~Running /\ phase = "idle"
      BY <1>1 DEF Init, Running
    <2>5. Cost = 0 + 0 * (flags.retries + 1)
      BY <2>1, <2>4, FS_EmptySet DEF Cost
    <2>6. QED
      BY <2>1, <2>2, <2>3, <2>4, <2>5, FS_EmptySet DEF RetryInv
  <1>2. QED
    BY <1>1

(* Steps after which no job holds a failed send.                           *)
LEMMA IdleRetries ==
  ASSUME TypeOK, RetryInv, Tries' = {}, failed' = failed, flags' = flags,
         runs' = runs, faults' \in Nat, faults' <= faults,
         Running' => Running, phase' = "tokens" => attempts' = Zero
  PROVE RetryInv'
  <1>1. Cardinality(Tries) \in Nat /\ Cardinality(Tries') = 0
        /\ IsFiniteSet(Tries')
    BY FS_EmptySet, FS_CardinalityType DEF RetryInv
  <1>2. runs <= 1 => Cost' <= MaxFaults - faults'
    BY <1>1, RetryTypes DEF RetryInv, Cost
  <1>3. QED
    BY <1>1, <1>2, RetryTypes DEF RetryInv

LEMMA StartRetries == ASSUME TypeOK, RetryInv, Start PROVE RetryInv'
  <1>1. /\ faults' = faults /\ failed' = 0 /\ runs' = runs + 1
        /\ phase' = "fetch" /\ flags' \in Flags
    BY DEF Start
  <1>2. Tries' = {}
    BY <1>1, NoTriesPrimed
  <1>3. flags'.retries \in Nat
    BY <1>1, EmailCronAssumption
  <1>4. \A n \in Nat : 0 + 0 * (n + 1) = 0
    OBVIOUS
  <1>5. Cost' = 0
    BY <1>1, <1>2, <1>3, <1>4, FS_EmptySet DEF Cost
  <1>6. QED
    BY <1>1, <1>2, <1>5, RetryTypes, FS_EmptySet DEF RetryInv

LEMMA SendFailsRetries ==
  ASSUME TypeOK, JobsInv, RetryInv, NEW u \in Users, SendFails(u)
  PROVE RetryInv'
  <1>1. /\ phase = "mail" /\ phase' = "mail" /\ batch' = batch
        /\ flags' = flags /\ failed' = failed /\ runs' = runs
        /\ faults > 0 /\ faults' = faults - 1
        /\ attempts' = [attempts EXCEPT ![u] = @ + 1]
        /\ stage[u] = "sending" /\ stage'[u] \in {"sending", "settled"}
        /\ u \in batch /\ \A v \in Users \ {u} : stage'[v] = stage[v]
    BY JobsStep, RetryTypes DEF SendFails, Fault, metrics, process
  <1>2. Trying' = Trying /\ u \in Trying
    BY <1>1, RetryTypes DEF Trying
  <1>3. Tries' \subseteq Tries \union {<<u, attempts[u] + 1>>}
    <2>1. SUFFICES ASSUME NEW x \in Tries', x \notin Tries
                   PROVE x = <<u, attempts[u] + 1>>
      OBVIOUS
    <2>2. PICK v \in Trying : x \in {v} \X (1..attempts'[v])
      BY <1>2, <2>1 DEF Tries
    <2> PICK n \in 1..attempts'[v] : x = <<v, n>>
      BY <2>2
    <2>3. ~(n \in 1..attempts[v])
      BY <2>1, <2>2 DEF Tries
    <2>4. v \in Users /\ attempts[v] \in Nat
      BY <2>2, RetryTypes DEF Trying
    <2>5. v = u /\ n = attempts[u] + 1
      BY <1>1, <2>3, <2>4, RetryTypes
    <2>6. QED
      BY <2>5
  <1>4. /\ IsFiniteSet(Tries') /\ Cardinality(Tries') \in Nat
        /\ Cardinality(Tries) \in Nat
        /\ Cardinality(Tries') <= Cardinality(Tries) + 1
    <2> DEFINE More == Tries \union {<<u, attempts[u] + 1>>}
    <2>1. /\ IsFiniteSet(More) /\ Cardinality(Tries) \in Nat
          /\ Cardinality(More) <= Cardinality(Tries) + 1
      <3>1. IsFiniteSet(Tries) /\ Cardinality(Tries) \in Nat
        BY FS_CardinalityType DEF RetryInv
      <3>2. IsFiniteSet(More) /\
            \/ Cardinality(More) = Cardinality(Tries)
            \/ Cardinality(More) = Cardinality(Tries) + 1
        BY <3>1, FS_AddElement
      <3>3. QED
        BY <3>1, <3>2
    <2> HIDE DEF More
    <2>2. Tries' \subseteq More
      BY <1>3 DEF More
    <2>3. IsFiniteSet(Tries') /\ Cardinality(Tries') <= Cardinality(More)
      BY <2>1, <2>2, FS_Subset
    <2>4. Cardinality(Tries') \in Nat /\ Cardinality(More) \in Nat
      BY <2>1, <2>3, FS_CardinalityType
    <2>5. QED
      BY <2>1, <2>3, <2>4
  <1>5. runs <= 1 => Cost' <= MaxFaults - faults'
    BY <1>1, <1>4, RetryTypes DEF RetryInv, Cost
  <1>6. QED
    BY <1>1, <1>4, <1>5, RetryTypes DEF RetryInv, Running

(* A job that is counted as failed gives back what it held.                *)
LEMMA CountRetries ==
  ASSUME TypeOK, JobsInv, RetryInv, NEW u \in Users, Count(u)
  PROVE RetryInv'
  <1> DEFINE Held == {u} \X (1..attempts[u])
  <1>1. /\ phase = "mail" /\ phase' = "mail" /\ batch' = batch
        /\ flags' = flags /\ runs' = runs /\ faults' = faults
        /\ attempts' = attempts
        /\ stage[u] = "settled" /\ stage'[u] = "counted"
        /\ u \in batch /\ \A v \in Users \ {u} : stage'[v] = stage[v]
        /\ \/ failed' = failed
           \/ failed' = failed + 1 /\ attempts[u] > flags.retries
    BY JobsStep, RetryTypes DEF Count, Exhausted, process
  <1>2. Trying' = Trying \ {u} /\ u \in Trying
    BY <1>1, RetryTypes DEF Trying
  <1>3. Tries' \subseteq Tries \ Held /\ Held \subseteq Tries
    BY <1>1, <1>2 DEF Tries
  <1>4. IsFiniteSet(Held) /\ Cardinality(Held) = attempts[u]
    BY RetryTypes, PairsOfOne
  <1> HIDE DEF Held
  <1>5. /\ IsFiniteSet(Tries \ Held)
        /\ Cardinality(Tries \ Held) = Cardinality(Tries) - Cardinality(Held)
    <2>1. Tries \intersect Held = Held
      BY <1>3
    <2>2. IsFiniteSet(Tries \ Held) /\
          Cardinality(Tries \ Held)
            = Cardinality(Tries) - Cardinality(Tries \intersect Held)
      BY FS_Difference DEF RetryInv
    <2>3. QED
      BY <2>1, <2>2
  <1>6. /\ IsFiniteSet(Tries') /\ Cardinality(Tries') \in Nat
        /\ Cardinality(Tries) \in Nat /\ attempts[u] \in Nat
        /\ Cardinality(Tries') <= Cardinality(Tries) - attempts[u]
    <2>1. /\ IsFiniteSet(Tries')
          /\ Cardinality(Tries') <= Cardinality(Tries \ Held)
      BY <1>3, <1>5, FS_Subset
    <2>2. Cardinality(Tries') \in Nat /\ Cardinality(Tries) \in Nat
      BY <2>1, FS_CardinalityType DEF RetryInv
    <2>3. QED
      BY <1>4, <1>5, <2>1, <2>2, RetryTypes
  <1>7. runs <= 1 => Cost' <= MaxFaults - faults'
    BY <1>1, <1>6, RetryTypes DEF RetryInv, Cost
  <1>8. runs = 0 => FALSE
    BY <1>1 DEF RetryInv, Running
  <1>9. QED
    BY <1>1, <1>6, <1>7, <1>8, RetryTypes DEF RetryInv

LEMMA NextRetries ==
  TypeOK /\ JobsInv /\ RetryInv /\ [Next]_vars => RetryInv'
  <1> SUFFICES ASSUME TypeOK, JobsInv, RetryInv, [Next]_vars PROVE RetryInv'
    OBVIOUS
  <1>1. CASE Kill \/ End \/ Collect \/ Fetch
    <2>1. /\ phase' # "mail" /\ failed' = failed /\ flags' = flags
          /\ runs' = runs /\ faults' = faults
          /\ Running' => Running
          /\ phase' = "tokens" => attempts' = Zero
      BY <1>1 DEF Kill, End, Collect, Fetch, metrics, process, Running
    <2>2. Tries' = {}
      BY <2>1, NoTriesPrimed
    <2>3. faults' \in Nat /\ faults' <= faults
      BY <2>1, RetryTypes
    <2>4. QED
      BY <2>1, <2>2, <2>3, IdleRetries
  <1>2. ASSUME FetchFails \/ \E u \in Users : StoreFails(u) PROVE RetryInv'
    <2>1. /\ phase' = "failed" /\ failed' = failed /\ flags' = flags
          /\ runs' = runs /\ faults > 0 /\ faults' = faults - 1
      BY <1>2 DEF FetchFails, StoreFails, Fault, metrics, process
    <2>2. QED
      BY <2>1, NoTriesPrimed, IdleRetries, RetryTypes DEF Running
  <1>3. ASSUME NEW u \in Users, Store(u) PROVE RetryInv'
    <2>1. /\ phase = "tokens" /\ phase' \in {"tokens", "mail"}
          /\ attempts' = attempts
          /\ failed' = failed /\ flags' = flags /\ runs' = runs
          /\ faults' = faults /\ batch' = batch
      BY <1>3 DEF Store, process
    <2>2. attempts' = Zero
      BY <2>1 DEF RetryInv
    <2>3. Tries' = {}
      BY <2>1, <2>2, RetryTypes DEF Tries, Trying, Zero
    <2>4. QED
      BY <2>1, <2>2, <2>3, IdleRetries, RetryTypes DEF Running
  <1>4. ASSUME \/ UNCHANGED vars
               \/ \E u \in Users : \/ Appear(u) \/ Verify(u) \/ Dispatch(u)
                                  \/ SendSucceeds(u) \/ Report(u)
        PROVE RetryInv'
    <2>1. /\ phase' = phase /\ attempts' = attempts /\ batch' = batch
          /\ failed' = failed /\ flags' = flags /\ runs' = runs
          /\ faults' = faults
      BY <1>4 DEF Appear, Verify, Dispatch, SendSucceeds, Report, vars, metrics,
                  process
    <2>2. Trying' = Trying
      <3>1. CASE stage' = stage
        BY <2>1, <3>1 DEF Trying
      <3>2. ASSUME NEW u \in Users, Dispatch(u) \/ SendSucceeds(u) \/ Report(u)
            PROVE Trying' = Trying
        <4>1. \/ /\ stage[u] \in {"job", "sending"}
                 /\ stage'[u] \in {"sending", "settled"}
              \/ stage[u] = "counted" /\ stage'[u] = "left"
          BY <3>2, RetryTypes DEF Dispatch, First, SendSucceeds, Report
        <4>2. QED
          BY <2>1, <3>2, <4>1, JobsStep, RetryTypes DEF Trying
      <3>3. QED
        BY <1>4, <3>1, <3>2 DEF Appear, Verify, vars
    <2>3. Tries' = Tries
      BY <2>1, <2>2 DEF Tries
    <2>4. QED
      BY <2>1, <2>3 DEF RetryInv, Cost, Running
  <1>5. QED
    BY <1>1, <1>2, <1>3, <1>4, NextCases, StartRetries, SendFailsRetries,
       CountRetries

(* In the first run a job counts as failed only after --max-retries        *)
(* further attempts, each of which failed: the failed jobs together never  *)
(* cost fewer faults than that.                                            *)
THEOREM RetriesAlwaysUsed == Spec => []RetriesUsed
  <1>1. TypeOK /\ RetryInv => RetriesUsed
    <2>1. ASSUME TypeOK, RetryInv PROVE RetriesUsed
      <3>1. Cardinality(Tries) \in Nat
        BY <2>1, FS_CardinalityType DEF RetryInv
      <3>2. QED
        BY <2>1, <3>1, RetryTypes DEF RetryInv, Cost, RetriesUsed
    <2>2. QED
      BY <2>1
  <1>2. QED
    BY <1>1, InitTypeOK, NextTypeOK, InitJobs, NextJobs, InitRetries,
       NextRetries, PTL DEF Spec
===============================================================================
