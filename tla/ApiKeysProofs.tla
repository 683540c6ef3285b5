----------------------------- MODULE ApiKeysProofs -----------------------------
(***************************************************************************)
(* Proofs about ApiKeys for every number of workers and keys, every limit  *)
(* and every resolution of the clock: type correctness, the finality of an *)
(* immediate revocation, the frozen rows of deleted keys, the least grace  *)
(* of a revoked key, and the bounds on how far racing requests exceed the  *)
(* limit and share a name.                                                 *)
(***************************************************************************)
EXTENDS ApiKeys, FiniteSetTheorems, TLAPS

CreateJob(k) == [kind |-> "create", key |-> k]
RevokeJob(k, s) == [kind |-> "revoke", key |-> k, strategy |-> s]
UseJob(k) == [kind |-> "use", key |-> k]

InCreation == {"named", "inserted", "counted"}

(* Every action by name, for the case splits.                              *)
LEMMA NextCases ==
  ASSUME Next
  PROVE \/ \E w \in Workers, k \in Keys :
              \/ Create(w, k) \/ Insert(w, k) \/ Count(w, k)
              \/ Commit(w, k) \/ CreateFails(w, k)
              \/ Authenticate(w, k) \/ Touch(w, k)
        \/ \E w \in Workers, k \in Keys, s \in Strategies :
              \/ ApplyRevoke(w, k, s) \/ RevokeFails(w, k, s)
              \/ \E o \in Orgs : Revoke(w, o, k, s)
        \/ DeleteKeys
        \/ Tick
  BY DEF Next, CreateStep, RevokeStep, UseStep

(* An expiry lies more than a day less an hour ahead whatever the time,    *)
(* unless the revocation is immediate (postgres/api_key.go:99-107).        *)
LEMMA ExpiryIsAhead ==
  ASSUME now \in Nat, NEW s \in Strategies
  PROVE /\ Expiry(s) \in Nat
        /\ s # "immediate" => Expiry(s) > now + DayLen - HourLen
  <1>1. now % DayLen \in 0..(DayLen - 1)
    BY ApiKeysAssumption
  <1>2. Midnight \in Int /\ Midnight > now - DayLen
    BY <1>1, ApiKeysAssumption DEF Midnight
  <1>3. Midnight \in Nat
    <2>1. now % DayLen <= now
      BY ApiKeysAssumption
    <2>2. QED
      BY <1>1, <2>1, ApiKeysAssumption DEF Midnight
  <1>4. Days["immediate"] = 1 /\ Days["day"] = 2 /\ Days["week"] = 8
    BY DEF Days
  <1>5. CASE s = "immediate"
    BY <1>3, <1>4, <1>5, ApiKeysAssumption DEF Expiry
  <1>6. CASE s = "day"
    BY <1>2, <1>3, <1>4, <1>6, ApiKeysAssumption DEF Expiry
  <1>7. CASE s = "week"
    BY <1>2, <1>3, <1>4, <1>7, ApiKeysAssumption DEF Expiry
  <1>8. QED
    BY <1>5, <1>6, <1>7 DEF Strategies

-------------------------------------------------------------------------------
(* Type correctness.                                                       *)

LEMMA InitTypeOK == Init => TypeOK
  BY DEF Init, TypeOK, Idle, Jobs, Times, Phases

LEMMA NextTypeOK == TypeOK /\ [Next]_vars => TypeOK'
  <1> SUFFICES ASSUME TypeOK, [Next]_vars
               PROVE TypeOK'
    OBVIOUS
  <1> USE DEF TypeOK, Finish, Idle, Jobs, Times, Phases, history, row
  <1>1. ASSUME NEW w \in Workers, NEW k \in Keys,
               \/ Create(w, k) \/ Insert(w, k) \/ Count(w, k)
               \/ Commit(w, k) \/ CreateFails(w, k)
        PROVE TypeOK'
    BY <1>1 DEF Create, Insert, Count, Commit, CreateFails
  <1>2. ASSUME NEW w \in Workers, NEW k \in Keys,
               Authenticate(w, k) \/ Touch(w, k)
        PROVE TypeOK'
    BY <1>2 DEF Authenticate, Touch
  <1>3. ASSUME NEW w \in Workers, NEW k \in Keys, NEW s \in Strategies,
               ApplyRevoke(w, k, s)
        PROVE TypeOK'
    <2>1. Expiry(s) \in Nat
      BY ExpiryIsAhead
    <2>2. CASE Updatable(k)
      BY <1>3, <2>1, <2>2 DEF ApplyRevoke, SetRevoked
    <2>3. CASE ~Updatable(k)
      BY <1>3, <2>3 DEF ApplyRevoke
    <2>4. QED
      BY <2>2, <2>3
  <1>4. ASSUME NEW w \in Workers, NEW k \in Keys, NEW s \in Strategies,
               RevokeFails(w, k, s) \/ \E o \in Orgs : Revoke(w, o, k, s)
        PROVE TypeOK'
    BY <1>4 DEF RevokeFails, Revoke
  <1>5. CASE DeleteKeys
    BY <1>5 DEF DeleteKeys
  <1>6. CASE Tick
    BY <1>6 DEF Tick
  <1>7. CASE UNCHANGED vars
    BY <1>7 DEF vars
  <1>8. QED
    BY <1>1, <1>2, <1>3, <1>4, <1>5, <1>6, <1>7, NextCases

(* Every variable keeps its type.                                          *)
THEOREM TypeCorrect == Spec => []TypeOK
  BY InitTypeOK, NextTypeOK, PTL DEF Spec

-------------------------------------------------------------------------------
(* Which rows the workers' unfinished jobs refer to.                       *)

CreationsOpen == \A w \in Workers, k \in Keys :
                    job[w] = CreateJob(k) => phase[k] \in InCreation

OneCreator == \A v, w \in Workers, k \in Keys :
                 job[v] = CreateJob(k) /\ job[w] = CreateJob(k) => v = w

CreationsOwned == \A k \in Keys :
                     phase[k] \in InCreation =>
                       \E w \in Workers : job[w] = CreateJob(k)

RowsExist == \A w \in Workers, k \in Keys :
                \/ job[w] = UseJob(k)
                \/ \E s \in Strategies : job[w] = RevokeJob(k, s)
                => phase[k] \in {"live", "deleted"}

JobsInv == CreationsOpen /\ OneCreator /\ CreationsOwned /\ RowsExist

(* The jobs of different kinds, and of different keys, are different.      *)
LEMMA JobsDiffer ==
  \A k, l \in Keys :
     /\ Idle # CreateJob(k) /\ Idle # UseJob(k) /\ CreateJob(k) # UseJob(l)
     /\ CreateJob(k) = CreateJob(l) => k = l
     /\ UseJob(k) = UseJob(l) => k = l
     /\ \A s, t \in Strategies :
           /\ Idle # RevokeJob(k, s) /\ CreateJob(k) # RevokeJob(l, s)
           /\ UseJob(k) # RevokeJob(l, s)
           /\ RevokeJob(k, s) = RevokeJob(l, t) => k = l /\ s = t
  <1> SUFFICES ASSUME NEW k \in Keys, NEW l \in Keys
               PROVE /\ Idle # CreateJob(k) /\ Idle # UseJob(k)
                     /\ CreateJob(k) # UseJob(l)
                     /\ CreateJob(k) = CreateJob(l) => k = l
                     /\ UseJob(k) = UseJob(l) => k = l
                     /\ \A s, t \in Strategies :
                           /\ Idle # RevokeJob(k, s)
                           /\ CreateJob(k) # RevokeJob(l, s)
                           /\ UseJob(k) # RevokeJob(l, s)
                           /\ RevokeJob(k, s) = RevokeJob(l, t) => k = l /\ s = t
    OBVIOUS
  <1>1. /\ Idle.kind = "idle"
        /\ CreateJob(k).kind = "create" /\ CreateJob(k).key = k
        /\ CreateJob(l).key = l
        /\ UseJob(k).kind = "use" /\ UseJob(k).key = k
        /\ UseJob(l).kind = "use" /\ UseJob(l).key = l
    BY DEF Idle, CreateJob, UseJob
  <1>2. ASSUME NEW s \in Strategies
        PROVE /\ RevokeJob(k, s).kind = "revoke" /\ RevokeJob(k, s).key = k
              /\ RevokeJob(l, s).kind = "revoke" /\ RevokeJob(l, s).key = l
              /\ RevokeJob(k, s).strategy = s /\ RevokeJob(l, s).strategy = s
    BY DEF RevokeJob
  <1>3. QED
    BY <1>1, <1>2

LEMMA InitJobsInv == Init => JobsInv
  BY JobsDiffer DEF Init, JobsInv, CreationsOpen, OneCreator, CreationsOwned,
     RowsExist, InCreation

LEMMA NextJobsInv == TypeOK /\ JobsInv /\ [Next]_vars => JobsInv'
  <1> SUFFICES ASSUME TypeOK, JobsInv, [Next]_vars
               PROVE JobsInv'
    OBVIOUS
  <1> USE DEF TypeOK, JobsInv, CreationsOpen, OneCreator, CreationsOwned,
              RowsExist, InCreation, Finish
  <1>1. ASSUME NEW w \in Workers, NEW k \in Keys, Create(w, k)
        PROVE JobsInv'
    <2>1. CASE NameTaken(k)
      BY <1>1, <2>1, JobsDiffer DEF Create
    <2>2. CASE ~NameTaken(k)
      <3>1. /\ job' = [job EXCEPT ![w] = CreateJob(k)]
            /\ phase' = [phase EXCEPT ![k] = "named"]
            /\ phase[k] = "unused"
            /\ job[w] = Idle
        BY <1>1, <2>2 DEF Create, CreateJob
      <3>2. CreationsOpen' /\ OneCreator'
        BY <3>1, JobsDiffer
      <3>3. CreationsOwned' /\ RowsExist'
        BY <3>1, JobsDiffer
      <3>4. QED
        BY <3>2, <3>3
    <2>3. QED
      BY <2>1, <2>2
  <1>2. ASSUME NEW w \in Workers, NEW k \in Keys,
               Insert(w, k) \/ Count(w, k) \/ Commit(w, k) \/ CreateFails(w, k)
        PROVE JobsInv'
    <2>1. /\ job[w] = CreateJob(k)
          /\ \/ /\ \E ph \in InCreation : phase' = [phase EXCEPT ![k] = ph]
                /\ job' = job
             \/ /\ \E ph \in {"live", "refused"} :
                       phase' = [phase EXCEPT ![k] = ph]
                /\ job' = [job EXCEPT ![w] = Idle]
      BY <1>2 DEF Insert, Count, Commit, CreateFails, CreateJob
    <2>2. CASE job' = job /\ \E ph \in InCreation : phase' = [phase EXCEPT ![k] = ph]
      BY <2>1, <2>2
    <2>3. CASE /\ job' = [job EXCEPT ![w] = Idle]
               /\ \E ph \in {"live", "refused"} : phase' = [phase EXCEPT ![k] = ph]
      BY <2>1, <2>3, JobsDiffer
    <2>4. QED
      BY <2>1, <2>2, <2>3
  <1>3. ASSUME NEW w \in Workers, NEW k \in Keys, NEW s \in Strategies,
               ApplyRevoke(w, k, s)
        PROVE JobsInv'
    <2>1. /\ job[w] = RevokeJob(k, s)
          /\ job' = [job EXCEPT ![w] = Idle]
          /\ phase' = phase \/ phase' = [phase EXCEPT ![k] = "deleted"]
      BY <1>3 DEF ApplyRevoke, SetRevoked, RevokeJob
    <2>2. QED
      BY <2>1, JobsDiffer
  <1>4. ASSUME NEW w \in Workers, NEW k \in Keys, NEW s \in Strategies,
               NEW o \in Orgs, Revoke(w, o, k, s)
        PROVE JobsInv'
    <2>1. /\ job' = [job EXCEPT ![w] = RevokeJob(k, s)]
          /\ phase' = phase
          /\ phase[k] = "live"
          /\ job[w] = Idle
      BY <1>4 DEF Revoke, RevokeJob, row
    <2>2. QED
      BY <2>1, JobsDiffer
  <1>5. ASSUME NEW w \in Workers, NEW k \in Keys, Authenticate(w, k)
        PROVE JobsInv'
    <2>1. /\ job' = [job EXCEPT ![w] = UseJob(k)]
          /\ phase' = phase
          /\ phase[k] = "live"
          /\ job[w] = Idle
      BY <1>5 DEF Authenticate, UseJob, row
    <2>2. QED
      BY <2>1, JobsDiffer
  <1>6. ASSUME NEW w \in Workers, NEW k \in Keys, NEW s \in Strategies,
               Touch(w, k) \/ RevokeFails(w, k, s)
        PROVE JobsInv'
    <2>1. /\ job' = [job EXCEPT ![w] = Idle]
          /\ phase' = phase
          /\ job[w] = UseJob(k) \/ job[w] = RevokeJob(k, s)
      BY <1>6 DEF Touch, RevokeFails, row, UseJob, RevokeJob
    <2>2. QED
      BY <2>1, JobsDiffer
  <1>7. CASE DeleteKeys
    BY <1>7 DEF DeleteKeys, Due
  <1>8. CASE Tick \/ UNCHANGED vars
    BY <1>8 DEF Tick, vars, row
  <1>9. QED
    <2>1. PICK s \in Strategies : TRUE
      BY DEF Strategies
    <2>2. QED
      BY <1>1, <1>2, <1>3, <1>4, <1>5, <1>6, <1>7, <1>8, <2>1, NextCases

-------------------------------------------------------------------------------
(* An immediate revocation is final.                                       *)

LEMMA NextCutIsFinal ==
  TypeOK /\ JobsInv /\ CutIsFinal /\ [Next]_vars => CutIsFinal'
  <1> SUFFICES ASSUME TypeOK, JobsInv, CutIsFinal, [Next]_vars
               PROVE CutIsFinal'
    OBVIOUS
  <1> USE DEF TypeOK, CutIsFinal, history
  <1>1. ASSUME NEW w \in Workers, NEW k \in Keys,
               \/ Create(w, k) \/ Insert(w, k) \/ Count(w, k)
               \/ Commit(w, k) \/ CreateFails(w, k)
        PROVE CutIsFinal'
    <2>1. phase[k] # "deleted"
      BY <1>1 DEF Create, Insert, Count, Commit, CreateFails, JobsInv,
                  CreationsOpen, CreateJob, InCreation
    <2>2. cut' = cut /\ \E ph \in Phases : phase' = [phase EXCEPT ![k] = ph]
      BY <1>1 DEF Create, Insert, Count, Commit, CreateFails, Phases
    <2>3. QED
      BY <2>1, <2>2
  <1>2. ASSUME NEW w \in Workers, NEW k \in Keys, NEW s \in Strategies,
               ApplyRevoke(w, k, s)
        PROVE CutIsFinal'
    <2>1. phase[k] \in {"live", "deleted"}
      BY <1>2 DEF ApplyRevoke, JobsInv, RowsExist, RevokeJob
    <2>2. s = "immediate" => phase'[k] = "deleted"
      BY <1>2, <2>1 DEF ApplyRevoke, SetRevoked, Updatable
    <2>3. phase' = phase \/ phase' = [phase EXCEPT ![k] = "deleted"]
      BY <1>2 DEF ApplyRevoke, SetRevoked
    <2>4. cut' = IF s = "immediate" THEN cut \union {k} ELSE cut
      BY <1>2 DEF ApplyRevoke
    <2>5. QED
      BY <2>2, <2>3, <2>4
  <1>3. ASSUME NEW w \in Workers, NEW k \in Keys,
               Authenticate(w, k) \/ Touch(w, k)
        PROVE CutIsFinal'
    BY <1>3 DEF Authenticate, Touch, row
  <1>4. ASSUME NEW w \in Workers, NEW k \in Keys, NEW s \in Strategies,
               RevokeFails(w, k, s) \/ \E o \in Orgs : Revoke(w, o, k, s)
        PROVE CutIsFinal'
    BY <1>4 DEF RevokeFails, Revoke, row
  <1>5. CASE DeleteKeys
    BY <1>5 DEF DeleteKeys
  <1>6. CASE Tick \/ UNCHANGED vars
    BY <1>6 DEF Tick, vars, row
  <1>7. QED
    BY <1>1, <1>2, <1>3, <1>4, <1>5, <1>6, NextCases

(* A key revoked at once is deleted and stays so, whatever overlaps.       *)
THEOREM CutFinal == Spec => []CutIsFinal
  <1>1. Init => TypeOK /\ JobsInv /\ CutIsFinal
    BY InitTypeOK, InitJobsInv DEF Init, CutIsFinal
  <1>2. TypeOK /\ JobsInv /\ CutIsFinal /\ [Next]_vars
        => (TypeOK /\ JobsInv /\ CutIsFinal)'
    BY NextTypeOK, NextJobsInv, NextCutIsFinal
  <1>3. QED
    BY <1>1, <1>2, PTL DEF Spec

-------------------------------------------------------------------------------
(* The rows of deleted keys.                                               *)

LEMMA NextDeletedRowsStay ==
  TypeOK /\ JobsInv /\ [Next]_vars => DeletedRowsStay
  <1> SUFFICES ASSUME TypeOK, JobsInv, [Next]_vars
               PROVE DeletedRowsStay
    OBVIOUS
  <1> USE DEF TypeOK, DeletedRowsStay, row
  <1>1. ASSUME NEW w \in Workers, NEW k \in Keys,
               \/ Create(w, k) \/ Insert(w, k) \/ Count(w, k)
               \/ Commit(w, k) \/ CreateFails(w, k)
        PROVE DeletedRowsStay
    <2>1. phase[k] # "deleted"
      BY <1>1 DEF Create, Insert, Count, Commit, CreateFails, JobsInv,
                  CreationsOpen, CreateJob, InCreation
    <2>2. /\ expires' = expires /\ lastUsed' = lastUsed
          /\ \E ph \in Phases : phase' = [phase EXCEPT ![k] = ph]
      BY <1>1 DEF Create, Insert, Count, Commit, CreateFails, Phases
    <2>3. QED
      BY <2>1, <2>2
  <1>2. ASSUME NEW w \in Workers, NEW k \in Keys, NEW s \in Strategies,
               ApplyRevoke(w, k, s)
        PROVE DeletedRowsStay
    BY <1>2 DEF ApplyRevoke, SetRevoked, Updatable
  <1>3. ASSUME NEW w \in Workers, NEW k \in Keys,
               Authenticate(w, k) \/ Touch(w, k)
        PROVE DeletedRowsStay
    BY <1>3 DEF Authenticate, Touch, Updatable
  <1>4. ASSUME NEW w \in Workers, NEW k \in Keys, NEW s \in Strategies,
               RevokeFails(w, k, s) \/ \E o \in Orgs : Revoke(w, o, k, s)
        PROVE DeletedRowsStay
    BY <1>4 DEF RevokeFails, Revoke
  <1>5. CASE DeleteKeys
    BY <1>5 DEF DeleteKeys
  <1>6. CASE Tick \/ UNCHANGED vars
    BY <1>6 DEF Tick, vars
  <1>7. QED
    BY <1>1, <1>2, <1>3, <1>4, <1>5, <1>6, NextCases

(* No step writes the row of a deleted key again.                          *)
THEOREM DeletedFrozen == Spec => DeletedIsFrozen
  <1>1. Init => TypeOK /\ JobsInv
    BY InitTypeOK, InitJobsInv
  <1>2. TypeOK /\ JobsInv /\ [Next]_vars => (TypeOK /\ JobsInv)'
    BY NextTypeOK, NextJobsInv
  <1>3. TypeOK /\ JobsInv /\ [Next]_vars => [DeletedRowsStay]_vars
    BY NextDeletedRowsStay
  <1>4. QED
    BY <1>1, <1>2, <1>3, PTL DEF Spec, DeletedIsFrozen

-------------------------------------------------------------------------------
(* The grace of a revoked key.                                             *)

(* The expiry of a key that was only ever revoked with grace lies more     *)
(* than a day less an hour past its last revocation.                       *)
ExpiryKept == \A k \in Keys :
                expires[k] # None /\ k \notin cut =>
                  /\ revoked[k] # None
                  /\ expires[k] > revoked[k] + DayLen - HourLen

GraceInv == ExpiryKept /\ GraceKept

LEMMA NextGraceInv ==
  TypeOK /\ JobsInv /\ GraceInv /\ [Next]_vars => GraceInv'
  <1> SUFFICES ASSUME TypeOK, JobsInv, GraceInv, [Next]_vars
               PROVE GraceInv'
    OBVIOUS
  <1> USE ApiKeysAssumption DEF TypeOK, Times, GraceInv, ExpiryKept, GraceKept,
                                row, history
  <1>1. ASSUME NEW w \in Workers, NEW k \in Keys,
               \/ Create(w, k) \/ Insert(w, k) \/ Count(w, k)
               \/ Commit(w, k) \/ CreateFails(w, k)
        PROVE GraceInv'
    <2>1. /\ UNCHANGED <<expires, cut, revoked, deleted>>
          /\ \E ph \in Phases \ {"deleted"} : phase' = [phase EXCEPT ![k] = ph]
      BY <1>1 DEF Create, Insert, Count, Commit, CreateFails, Phases
    <2>2. QED
      BY <2>1
  <1>2. ASSUME NEW w \in Workers, NEW k \in Keys, NEW s \in Strategies,
               ApplyRevoke(w, k, s)
        PROVE GraceInv'
    <2>1. CASE ~Updatable(k)
      BY <1>2, <2>1 DEF ApplyRevoke
    <2>2. CASE Updatable(k) /\ s = "immediate"
      BY <1>2, <2>2 DEF ApplyRevoke, SetRevoked
    <2>3. CASE Updatable(k) /\ s # "immediate"
      <3>1. Expiry(s) \in Nat /\ Expiry(s) > now + DayLen - HourLen
        BY <2>3, ExpiryIsAhead
      <3>2. /\ phase[k] = "live" /\ UNCHANGED <<phase, deleted, cut>>
            /\ expires' = [expires EXCEPT ![k] = Expiry(s)]
            /\ revoked' = [revoked EXCEPT ![k] = now]
        BY <1>2, <2>3 DEF ApplyRevoke, SetRevoked, Updatable
      <3>3. QED
        BY <3>1, <3>2
    <2>4. QED
      BY <2>1, <2>2, <2>3
  <1>3. ASSUME NEW w \in Workers, NEW k \in Keys,
               Authenticate(w, k) \/ Touch(w, k)
        PROVE GraceInv'
    BY <1>3 DEF Authenticate, Touch
  <1>4. ASSUME NEW w \in Workers, NEW k \in Keys, NEW s \in Strategies,
               RevokeFails(w, k, s) \/ \E o \in Orgs : Revoke(w, o, k, s)
        PROVE GraceInv'
    BY <1>4 DEF RevokeFails, Revoke
  <1>5. CASE DeleteKeys
    <2>1. \A k \in Keys :
            \/ /\ Due(k) /\ phase'[k] = "deleted" /\ deleted'[k] = now
            \/ phase'[k] = phase[k] /\ deleted'[k] = deleted[k]
      BY <1>5 DEF DeleteKeys
    <2>2. UNCHANGED <<expires, cut, revoked>>
      BY <1>5 DEF DeleteKeys
    <2>3. QED
      BY <2>1, <2>2 DEF Due
  <1>6. CASE Tick \/ UNCHANGED vars
    BY <1>6 DEF Tick, vars
  <1>7. QED
    BY <1>1, <1>2, <1>3, <1>4, <1>5, <1>6, NextCases

(* Whatever the time of day, the resolution of the clock and the order of  *)
(* revocations and cron runs, a key revoked with grace keeps working for   *)
(* more than a day less an hour.                                           *)
THEOREM GraceIsKept == Spec => []GraceKept
  <1>1. Init => TypeOK /\ JobsInv /\ GraceInv
    BY InitTypeOK, InitJobsInv DEF Init, GraceInv, ExpiryKept, GraceKept
  <1>2. TypeOK /\ JobsInv /\ GraceInv /\ [Next]_vars
        => (TypeOK /\ JobsInv /\ GraceInv)'
    BY NextTypeOK, NextJobsInv, NextGraceInv
  <1>3. GraceInv => GraceKept
    BY DEF GraceInv
  <1>4. QED
    BY <1>1, <1>2, <1>3, PTL DEF Spec

-------------------------------------------------------------------------------
(* How far the limit is exceeded.                                          *)

(* A key that passed the count needs a worker of its own to commit it.     *)
Reserved(o) == Cardinality(Live(o)) + Cardinality(Counted(o))

RoomInv == \A o \in Orgs : Reserved(o) <= Limit - 1 + Cardinality(Workers)

LEMMA KeySetsFinite ==
  ASSUME NEW o
  PROVE /\ IsFiniteSet(Live(o)) /\ Cardinality(Live(o)) \in Nat
        /\ IsFiniteSet(Counted(o)) /\ Cardinality(Counted(o)) \in Nat
  <1>1. Live(o) \in SUBSET Keys /\ Counted(o) \in SUBSET Keys
    BY DEF Live, Counted
  <1>2. IsFiniteSet(Live(o)) /\ IsFiniteSet(Counted(o))
    BY <1>1, FS_Subset, ApiKeysAssumption
  <1>3. QED
    BY <1>2, FS_CardinalityType

(* The keys of the creations that are under way.                           *)
Pending == {k \in Keys : phase[k] \in InCreation}

(* There are no more of them than workers: each has one of its own.        *)
LEMMA PendingHaveWorkers ==
  ASSUME JobsInv
  PROVE IsFiniteSet(Pending) /\ Cardinality(Pending) <= Cardinality(Workers)
  <1> DEFINE f == [k \in Pending |->
                     CHOOSE w \in Workers : job[w] = CreateJob(k)]
  <1>1. ASSUME NEW k \in Pending
        PROVE k \in Keys /\ f[k] \in Workers /\ job[f[k]] = CreateJob(k)
    <2>1. k \in Keys /\ \E w \in Workers : job[w] = CreateJob(k)
      BY DEF JobsInv, CreationsOwned, Pending
    <2>2. QED
      BY <2>1
  <1>2. ASSUME NEW k \in Pending, NEW l \in Pending, f[k] = f[l]
        PROVE k = l
    <2>1. job[f[k]] = CreateJob(k) /\ job[f[l]] = CreateJob(l)
      BY <1>1
    <2>2. k \in Keys /\ l \in Keys
      BY <1>1
    <2> HIDE DEF f
    <2>3. CreateJob(k) = CreateJob(l)
      BY <1>2, <2>1
    <2>4. QED
      BY <2>2, <2>3, JobsDiffer
  <1>3. f \in [Pending -> Workers]
    BY <1>1
  <1> HIDE DEF f
  <1>4. f \in Injection(Pending, Workers)
    BY <1>2, <1>3 DEF Injection, IsInjective
  <1>5. QED
    BY <1>4, FS_Injection, ApiKeysAssumption

(* So it is after a step.                                                  *)
LEMMA PendingHaveWorkersNext ==
  ASSUME TypeOK, JobsInv, [Next]_vars
  PROVE /\ IsFiniteSet(Pending')
        /\ Cardinality(Pending') <= Cardinality(Workers)
  <1>1. JobsInv'
    BY NextJobsInv
  <1>2. (JobsInv => /\ IsFiniteSet(Pending)
                    /\ Cardinality(Pending) <= Cardinality(Workers))'
    BY PendingHaveWorkers, PTL
  <1>3. QED
    BY <1>1, <1>2

LEMMA NextRoomInv ==
  TypeOK /\ JobsInv /\ RoomInv /\ [Next]_vars => RoomInv'
  <1> SUFFICES ASSUME TypeOK, JobsInv, RoomInv, [Next]_vars, NEW o \in Orgs
               PROVE Reserved(o)' <= Limit - 1 + Cardinality(Workers)
    BY DEF RoomInv
  <1> DEFINE Bound == Limit - 1 + Cardinality(Workers)
  <1>0. /\ Reserved(o) <= Bound
        /\ Cardinality(Live(o)) \in Nat /\ Cardinality(Live(o))' \in Nat
        /\ Cardinality(Counted(o)) \in Nat /\ Cardinality(Counted(o))' \in Nat
        /\ Limit \in Nat /\ Cardinality(Workers) \in Nat
    <2>1. /\ Cardinality(Live(o)) \in Nat /\ Cardinality(Counted(o)) \in Nat
      BY KeySetsFinite
    <2>2. /\ IsFiniteSet(Live(o))' /\ IsFiniteSet(Counted(o))'
      <3>1. Live(o)' \in SUBSET Keys /\ Counted(o)' \in SUBSET Keys
        BY DEF Live, Counted
      <3>2. QED
        BY <3>1, FS_Subset, ApiKeysAssumption
    <2>3. Cardinality(Live(o)') \in Nat /\ Cardinality(Counted(o)') \in Nat
      BY <2>2, FS_CardinalityType
    <2>4. QED
      BY <2>1, <2>3, FS_CardinalityType, ApiKeysAssumption DEF RoomInv
  (* Steps that make no key live or counted.                               *)
  <1>1. ASSUME Live(o)' \in SUBSET Live(o), Counted(o)' \in SUBSET Counted(o)
        PROVE Reserved(o)' <= Bound
    <2>1. /\ Cardinality(Live(o)') <= Cardinality(Live(o))
          /\ Cardinality(Counted(o)') <= Cardinality(Counted(o))
      BY <1>1, KeySetsFinite, FS_Subset
    <2>2. QED
      BY <1>0, <2>1 DEF Reserved
  <1>2. ASSUME NEW w \in Workers, NEW k \in Keys,
               Create(w, k) \/ Insert(w, k) \/ CreateFails(w, k)
        PROVE Reserved(o)' <= Bound
    <2>1. /\ UNCHANGED owner
          /\ \E ph \in {"named", "inserted", "refused"} :
                phase' = [phase EXCEPT ![k] = ph]
      BY <1>2 DEF Create, Insert, CreateFails
    <2>2. QED
      BY <1>1, <2>1 DEF Live, Counted, TypeOK
  <1>3. ASSUME NEW w \in Workers, NEW k \in Keys, Count(w, k)
        PROVE Reserved(o)' <= Bound
    <2>1. CASE OverLimit(k) \/ owner[k] # o
      <3>1. Live(o)' \in SUBSET Live(o) /\ Counted(o)' \in SUBSET Counted(o)
        BY <1>3, <2>1 DEF Count, Live, Counted, TypeOK
      <3>2. QED
        BY <1>1, <3>1
    <2>2. CASE ~OverLimit(k) /\ owner[k] = o
      <3>1. Cardinality(Live(o)) + 1 <= Limit
        BY <1>0, <2>2 DEF OverLimit
      <3>2. Live(o)' = Live(o)
        BY <1>3, <2>2 DEF Count, Live, TypeOK
      <3>3. /\ IsFiniteSet(Pending')
            /\ Cardinality(Pending') <= Cardinality(Workers)
        BY PendingHaveWorkersNext
      <3>4. Cardinality(Counted(o)') <= Cardinality(Workers)
        <4>1. Counted(o)' \subseteq Pending'
          BY DEF Counted, Pending, InCreation
        <4>2. /\ Cardinality(Counted(o)') <= Cardinality(Pending')
              /\ Cardinality(Pending') \in Nat
          BY <3>3, <4>1, FS_Subset, FS_CardinalityType
        <4>3. QED
          BY <1>0, <3>3, <4>2
      <3>5. QED
        BY <1>0, <3>1, <3>2, <3>4 DEF Reserved
    <2>3. QED
      BY <2>1, <2>2
  <1>4. ASSUME NEW w \in Workers, NEW k \in Keys, Commit(w, k)
        PROVE Reserved(o)' <= Bound
    <2>1. CASE owner[k] # o
      BY <1>1, <1>4, <2>1 DEF Commit, Live, Counted, TypeOK
    <2>2. CASE owner[k] = o
      <3>1. k \in Counted(o) /\ k \notin Live(o)
        BY <1>4, <2>2 DEF Commit, Live, Counted
      <3>2. Live(o)' = Live(o) \union {k} /\ Counted(o)' = Counted(o) \ {k}
        BY <1>4, <2>2 DEF Commit, Live, Counted, TypeOK
      <3>3. Cardinality(Live(o) \union {k}) = Cardinality(Live(o)) + 1
        BY <3>1, KeySetsFinite, FS_AddElement
      <3>4. Cardinality(Counted(o) \ {k}) = Cardinality(Counted(o)) - 1
        BY <3>1, KeySetsFinite, FS_RemoveElement
      <3>5. QED
        BY <1>0, <3>2, <3>3, <3>4 DEF Reserved
    <2>3. QED
      BY <2>1, <2>2
  <1>5. ASSUME NEW w \in Workers, NEW k \in Keys, NEW s \in Strategies,
               ApplyRevoke(w, k, s)
        PROVE Reserved(o)' <= Bound
    <2>1. /\ UNCHANGED owner
          /\ phase' = phase \/ phase' = [phase EXCEPT ![k] = "deleted"]
      BY <1>5 DEF ApplyRevoke, SetRevoked
    <2>2. QED
      BY <1>1, <2>1 DEF Live, Counted, TypeOK
  <1>6. ASSUME UNCHANGED <<phase, owner>>
        PROVE Reserved(o)' <= Bound
    BY <1>1, <1>6 DEF Live, Counted
  <1>7. ASSUME NEW w \in Workers, NEW k \in Keys, NEW s \in Strategies,
               \/ Authenticate(w, k) \/ Touch(w, k) \/ RevokeFails(w, k, s)
               \/ \E q \in Orgs : Revoke(w, q, k, s)
        PROVE Reserved(o)' <= Bound
    BY <1>6, <1>7 DEF Authenticate, Touch, RevokeFails, Revoke, row
  <1>8. CASE DeleteKeys
    <2>1. UNCHANGED owner /\ \A k \in Keys : \/ phase'[k] = phase[k]
                                             \/ phase'[k] = "deleted"
      BY <1>8 DEF DeleteKeys
    <2>2. QED
      BY <1>1, <2>1 DEF Live, Counted
  <1>9. CASE Tick \/ UNCHANGED vars
    BY <1>6, <1>9 DEF Tick, vars, row
  <1>10. QED
    <2>1. PICK s \in Strategies : TRUE
      BY DEF Strategies
    <2>2. ASSUME NEW w \in Workers, NEW k \in Keys,
                 \/ Create(w, k) \/ Insert(w, k) \/ Count(w, k)
                 \/ Commit(w, k) \/ CreateFails(w, k)
                 \/ Authenticate(w, k) \/ Touch(w, k)
          PROVE Reserved(o)' <= Bound
      BY <1>2, <1>3, <1>4, <1>7, <2>1, <2>2
    <2>3. ASSUME NEW w \in Workers, NEW k \in Keys, NEW t \in Strategies,
                 \/ ApplyRevoke(w, k, t) \/ RevokeFails(w, k, t)
                 \/ \E q \in Orgs : Revoke(w, q, k, t)
          PROVE Reserved(o)' <= Bound
      BY <1>5, <1>7, <2>3
    <2>4. CASE Next
      BY <1>8, <1>9, <2>2, <2>3, <2>4, NextCases
    <2>5. QED
      BY <1>9, <2>4

(* Racing creations exceed the limit by at most their number less one.     *)
THEOREM KeysAreBounded == Spec => []KeysBounded
  <1>1. Init => TypeOK /\ JobsInv /\ RoomInv
    <2>1. Init => RoomInv
      <3> SUFFICES ASSUME Init, NEW o \in Orgs
                   PROVE Reserved(o) <= Limit - 1 + Cardinality(Workers)
        BY DEF RoomInv
      <3>1. Live(o) = {} /\ Counted(o) = {}
        BY DEF Init, Live, Counted
      <3>2. Cardinality(Workers) \in Nat
        BY FS_CardinalityType, ApiKeysAssumption
      <3>3. QED
        BY <3>1, <3>2, FS_EmptySet, ApiKeysAssumption DEF Reserved
    <2>2. QED
      BY <2>1, InitTypeOK, InitJobsInv
  <1>2. TypeOK /\ JobsInv /\ RoomInv /\ [Next]_vars
        => (TypeOK /\ JobsInv /\ RoomInv)'
    BY NextTypeOK, NextJobsInv, NextRoomInv
  <1>3. RoomInv => KeysBounded
    <2> SUFFICES ASSUME RoomInv, NEW o \in Orgs
                 PROVE Cardinality(Live(o)) <= Limit - 1 + Cardinality(Workers)
      BY DEF KeysBounded
    <2>1. /\ Cardinality(Live(o)) \in Nat /\ Cardinality(Counted(o)) \in Nat
          /\ Cardinality(Workers) \in Nat
      BY KeySetsFinite, FS_CardinalityType, ApiKeysAssumption
    <2>2. Reserved(o) <= Limit - 1 + Cardinality(Workers)
      BY DEF RoomInv
    <2>3. QED
      BY <2>1, <2>2, ApiKeysAssumption DEF Reserved
  <1>4. QED
    BY <1>1, <1>2, <1>3, PTL DEF Spec

-------------------------------------------------------------------------------
(* Names.  A check that finds no live key lets one creation more run, and  *)
(* from then on the keys of the name that live or are being created only   *)
(* get fewer, until none of them lives.                                    *)

NameUsers(o, n) == {k \in Keys : /\ owner[k] = o /\ title[k] = n
                                 /\ phase[k] \in InCreation \union {"live"}}

NameInv == \A o \in Orgs, n \in Names :
             Cardinality(NameUsers(o, n)) <= Cardinality(Workers)

LEMMA NameUsersFinite ==
  ASSUME NEW o, NEW n
  PROVE /\ IsFiniteSet(NameUsers(o, n)) /\ Cardinality(NameUsers(o, n)) \in Nat
        /\ IsFiniteSet(NameUsers(o, n)')
        /\ Cardinality(NameUsers(o, n)') \in Nat
        /\ Cardinality(Workers) \in Nat
  <1>1. NameUsers(o, n) \in SUBSET Keys /\ NameUsers(o, n)' \in SUBSET Keys
    BY DEF NameUsers
  <1>2. IsFiniteSet(NameUsers(o, n)) /\ IsFiniteSet(NameUsers(o, n)')
    BY <1>1, FS_Subset, ApiKeysAssumption
  <1>3. QED
    BY <1>2, FS_CardinalityType, ApiKeysAssumption

(* What a step does to the keys of a name.                                 *)
LEMMA NameUsersStep ==
  ASSUME TypeOK, [Next]_vars, NEW o, NEW n
  PROVE \/ NameUsers(o, n)' \subseteq NameUsers(o, n)
        \/ NameUsers(o, n)' \subseteq Pending'
  <1> USE DEF NameUsers, InCreation
  <1>1. ASSUME NEW w \in Workers, NEW k \in Keys, Create(w, k)
        PROVE \/ NameUsers(o, n)' \subseteq NameUsers(o, n)
              \/ NameUsers(o, n)' \subseteq Pending'
    <2>1. UNCHANGED <<owner, title>> /\ phase[k] = "unused"
      BY <1>1 DEF Create
    <2>2. CASE NameTaken(k) \/ owner[k] # o \/ title[k] # n
      <3>1. \A l \in NameUsers(o, n)' : phase'[l] = phase[l]
        BY <1>1, <2>1, <2>2 DEF Create, TypeOK
      <3>2. QED
        BY <2>1, <3>1
    <2>3. CASE ~NameTaken(k) /\ owner[k] = o /\ title[k] = n
      <3>1. phase' = [phase EXCEPT ![k] = "named"]
        BY <1>1, <2>3 DEF Create
      <3>2. \A l \in NameUsers(o, n)' : phase'[l] # "live"
        BY <2>1, <2>3, <3>1 DEF NameTaken, Live, TypeOK
      <3>3. QED
        BY <3>2 DEF Pending
    <2>4. QED
      BY <2>2, <2>3
  <1>2. ASSUME NEW w \in Workers, NEW k \in Keys,
               Insert(w, k) \/ Count(w, k) \/ Commit(w, k)
        PROVE NameUsers(o, n)' \subseteq NameUsers(o, n)
    <2>1. /\ UNCHANGED <<owner, title>> /\ phase[k] \in InCreation
          /\ \E ph : phase' = [phase EXCEPT ![k] = ph]
      BY <1>2 DEF Insert, Count, Commit
    <2>2. QED
      BY <2>1 DEF TypeOK
  <1>3. ASSUME NEW w \in Workers, NEW k \in Keys,
               \/ CreateFails(w, k)
               \/ \E s \in Strategies : ApplyRevoke(w, k, s)
        PROVE NameUsers(o, n)' \subseteq NameUsers(o, n)
    <2>1. /\ UNCHANGED <<owner, title>>
          /\ \/ phase' = phase
             \/ \E ph \in {"refused", "deleted"} :
                  phase' = [phase EXCEPT ![k] = ph]
      BY <1>3 DEF CreateFails, ApplyRevoke, SetRevoked
    <2>2. QED
      BY <2>1 DEF TypeOK
  <1>4. CASE DeleteKeys
    <2>1. /\ UNCHANGED <<owner, title>>
          /\ \A k \in Keys : phase'[k] = phase[k] \/ phase'[k] = "deleted"
      BY <1>4 DEF DeleteKeys
    <2>2. QED
      BY <2>1
  <1>5. ASSUME UNCHANGED <<owner, title, phase>>
        PROVE NameUsers(o, n)' \subseteq NameUsers(o, n)
    BY <1>5
  <1>6. ASSUME NEW w \in Workers, NEW k \in Keys,
               \/ Authenticate(w, k) \/ Touch(w, k)
               \/ \E s \in Strategies :
                    \/ RevokeFails(w, k, s)
                    \/ \E q \in Orgs : Revoke(w, q, k, s)
        PROVE NameUsers(o, n)' \subseteq NameUsers(o, n)
    BY <1>5, <1>6 DEF Authenticate, Touch, RevokeFails, Revoke, row
  <1>7. CASE Tick \/ UNCHANGED vars
    BY <1>5, <1>7 DEF Tick, vars, row
  <1>8. CASE Next
    BY <1>1, <1>2, <1>3, <1>4, <1>6, <1>7, <1>8, NextCases
  <1>9. QED
    BY <1>7, <1>8

(* Whatever creations race, a name of an organization is used by as many   *)
(* live keys as requests can run at once, at most (server/api_key.go:77).  *)
THEOREM NamesAreBounded == Spec => []NamesBounded
  <1> DEFINE Inv == TypeOK /\ JobsInv /\ NameInv
  <1>1. ASSUME Init PROVE Inv
    <2>1. ASSUME NEW o \in Orgs, NEW n \in Names
          PROVE Cardinality(NameUsers(o, n)) <= Cardinality(Workers)
      <3>1. NameUsers(o, n) = {}
        BY <1>1 DEF Init, NameUsers, InCreation
      <3>2. QED
        BY <3>1, NameUsersFinite, FS_EmptySet
    <2>2. QED
      BY <1>1, <2>1, InitTypeOK, InitJobsInv DEF NameInv
  <1>2. ASSUME Inv, [Next]_vars PROVE Inv'
    <2>1. ASSUME NEW o \in Orgs, NEW n \in Names
          PROVE Cardinality(NameUsers(o, n)') <= Cardinality(Workers)
      <3>1. CASE NameUsers(o, n)' \subseteq NameUsers(o, n)
        <4>1. Cardinality(NameUsers(o, n)') <= Cardinality(NameUsers(o, n))
          BY <3>1, NameUsersFinite, FS_Subset
        <4>2. Cardinality(NameUsers(o, n)) <= Cardinality(Workers)
          BY <1>2 DEF NameInv
        <4>3. QED
          BY <4>1, <4>2, NameUsersFinite
      <3>2. CASE NameUsers(o, n)' \subseteq Pending'
        <4>1. /\ IsFiniteSet(Pending')
              /\ Cardinality(Pending') <= Cardinality(Workers)
          BY <1>2, PendingHaveWorkersNext
        <4>2. /\ Cardinality(NameUsers(o, n)') <= Cardinality(Pending')
              /\ Cardinality(Pending') \in Nat
          BY <3>2, <4>1, FS_Subset, FS_CardinalityType
        <4>3. QED
          BY <4>1, <4>2, NameUsersFinite
      <3>3. QED
        BY <1>2, <3>1, <3>2, NameUsersStep
    <2>2. TypeOK' /\ JobsInv'
      BY <1>2, NextTypeOK, NextJobsInv
    <2>3. QED
      BY <2>1, <2>2 DEF NameInv
  <1>3. ASSUME Inv PROVE NamesBounded
    <2>1. ASSUME NEW o \in Orgs, NEW n \in Names
          PROVE Cardinality({k \in Live(o) : title[k] = n})
                  <= Cardinality(Workers)
      <3>1. {k \in Live(o) : title[k] = n} \in SUBSET NameUsers(o, n)
        BY DEF Live, NameUsers
      <3>2. Cardinality({k \in Live(o) : title[k] = n})
              <= Cardinality(NameUsers(o, n))
        BY <3>1, NameUsersFinite, FS_Subset
      <3>3. Cardinality(NameUsers(o, n)) <= Cardinality(Workers)
        BY <1>3 DEF NameInv
      <3>4. Cardinality({k \in Live(o) : title[k] = n}) \in Nat
        BY <3>1, NameUsersFinite, FS_Subset, FS_CardinalityType
      <3>5. QED
        BY <3>2, <3>3, <3>4, NameUsersFinite
    <2>2. QED
      BY <2>1 DEF NamesBounded
  <1> HIDE DEF Inv
  <1>4. QED
    BY <1>1, <1>2, <1>3, PTL DEF Spec
===============================================================================
