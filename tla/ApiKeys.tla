-------------------------------- MODULE ApiKeys --------------------------------
(***************************************************************************)
(* The life of an API key: created by concurrent requests under a limit    *)
(* per organization (server/api_key.go, internal/datastore/postgres/       *)
(* api_key.go), used by the requireAPIKeyOnly middleware, revoked at once  *)
(* or with a day's or a week's grace, and deleted by the delete-keys cron  *)
(* command once its expiry has passed.                                     *)
(*                                                                         *)
(* Postgres runs at READ COMMITTED: a statement sees what was committed    *)
(* before it began and what its own transaction wrote.  Rows are deleted   *)
(* softly, and every query and update of the bun model skips deleted rows. *)
(* Time is counted in ticks from a midnight.  A tick stands for the        *)
(* resolution of a timestamp (a microsecond in Postgres), so that expiries *)
(* are compared and deleted at clock precision.                            *)
(***************************************************************************)
EXTENDS Integers, FiniteSets

CONSTANTS Workers,    \* requests the server can be handling at once
          Keys,       \* row ids of api_keys
          Orgs,
          Names,
          Limit,      \* keys an organization may have (10 in the code)
          DayLen,     \* ticks of a day (shorter for model checking)
          HourLen,    \* ticks of an hour
          MaxTime,    \* bound: the last tick
          None        \* no key, no time

ASSUME ApiKeysAssumption == /\ IsFiniteSet(Workers)
                            /\ IsFiniteSet(Keys)
                            /\ Limit \in Nat \ {0}
                            /\ DayLen \in Nat \ {0}
                            /\ HourLen \in 1..DayLen
                            /\ MaxTime \in Nat
                            /\ None \notin Nat
                            /\ None \notin Keys

VARIABLES
  now,
  phase,     \* phase[k]: where the row is, see Phases
  owner,     \* owner[k]: its organization
  title,     \* title[k]: its name
  expires,   \* expires[k]: expires_at, or None
  lastUsed,  \* lastUsed[k]: last_used_at, or None
  job,       \* job[w]: what worker w is in the middle of
  \* history
  cut,       \* keys an immediate revocation was applied to
  revoked,   \* revoked[k]: when the last revocation with grace took effect
  deleted    \* deleted[k]: deleted_at, or None

row == <<phase, owner, title, expires, lastUsed>>
history == <<cut, revoked, deleted>>
vars == <<now, row, job, history>>

(* A row is "live" once its INSERT is committed and until deleted_at is    *)
(* set; in the transaction before that it is "inserted", then "counted".   *)
Phases == {"unused", "named", "inserted", "counted", "live", "deleted",
           "refused"}
Strategies == {"immediate", "day", "week"}
Jobs == [kind : {"idle"}]
          \union [kind : {"create", "use"}, key : Keys]
          \union [kind : {"revoke"}, key : Keys, strategy : Strategies]
Times == Nat \union {None}

TypeOK == /\ now \in Nat
          /\ phase \in [Keys -> Phases]
          /\ owner \in [Keys -> Orgs]
          /\ title \in [Keys -> Names]
          /\ expires \in [Keys -> Times]
          /\ lastUsed \in [Keys -> Times]
          /\ job \in [Workers -> Jobs]
          /\ cut \subseteq Keys
          /\ revoked \in [Keys -> Times]
          /\ deleted \in [Keys -> Times]

Idle == [kind |-> "idle"]

Init == /\ now = 0
        /\ phase = [k \in Keys |-> "unused"]
        /\ owner \in [Keys -> Orgs]
        /\ title \in [Keys -> Names]
        /\ expires = [k \in Keys |-> None]
        /\ lastUsed = [k \in Keys |-> None]
        /\ job = [w \in Workers |-> Idle]
        /\ cut = {}
        /\ revoked = [k \in Keys |-> None]
        /\ deleted = [k \in Keys |-> None]

Live(o) == {k \in Keys : phase[k] = "live" /\ owner[k] = o}
Counted(o) == {k \in Keys : phase[k] = "counted" /\ owner[k] = o}

Finish(w) == job' = [job EXCEPT ![w] = Idle]

-------------------------------------------------------------------------------
(* Creating a key.                                                         *)

(* FetchByName: only committed rows that are not deleted are seen.         *)
NameUnchecked(k) == FALSE     \* variant: what FetchByName finds is not used
NameTaken(k) == \E other \in Live(owner[k]) : title[other] = title[k]

Create(w, k) ==
  /\ job[w] = Idle
  /\ phase[k] = "unused"
  /\ \/ /\ NameTaken(k)
        /\ phase' = [phase EXCEPT ![k] = "refused"]
        /\ UNCHANGED job
     \/ /\ ~NameTaken(k)
        /\ phase' = [phase EXCEPT ![k] = "named"]
        /\ job' = [job EXCEPT ![w] = [kind |-> "create", key |-> k]]
  /\ UNCHANGED <<now, owner, title, expires, lastUsed, history>>

(* apiKeyRepo.Create: an INSERT and a count in one transaction.            *)
Insert(w, k) ==
  /\ job[w] = [kind |-> "create", key |-> k]
  /\ phase[k] = "named"
  /\ phase' = [phase EXCEPT ![k] = "inserted"]
  /\ UNCHANGED <<now, owner, title, expires, lastUsed, job, history>>

(* The transaction sees the committed rows and the one it inserted.        *)
OffByOne(k) == Cardinality(Live(owner[k])) > Limit     \* variant
OverLimit(k) == Cardinality(Live(owner[k])) + 1 > Limit

Count(w, k) ==
  /\ job[w] = [kind |-> "create", key |-> k]
  /\ phase[k] = "inserted"
  /\ \/ /\ OverLimit(k)
        /\ phase' = [phase EXCEPT ![k] = "refused"]
        /\ Finish(w)
     \/ /\ ~OverLimit(k)
        /\ phase' = [phase EXCEPT ![k] = "counted"]
        /\ UNCHANGED job
  /\ UNCHANGED <<now, owner, title, expires, lastUsed, history>>

Commit(w, k) ==
  /\ job[w] = [kind |-> "create", key |-> k]
  /\ phase[k] = "counted"
  /\ phase' = [phase EXCEPT ![k] = "live"]
  /\ Finish(w)
  /\ UNCHANGED <<now, owner, title, expires, lastUsed, history>>

(* A failed statement or commit, or a lost connection, rolls back.  (A     *)
(* commit that took effect before its error is a Commit.)                  *)
CreateFails(w, k) ==
  /\ job[w] = [kind |-> "create", key |-> k]
  /\ phase' = [phase EXCEPT ![k] = "refused"]
  /\ Finish(w)
  /\ UNCHANGED <<now, owner, title, expires, lastUsed, history>>

-------------------------------------------------------------------------------
(* Revoking a key.                                                         *)

(* Counted from the last midnight, so from CURRENT_DATE and not from now;  *)
(* every expiry is an hour short of a midnight.                            *)
Midnight == now - (now % DayLen)
DaysEarly == [immediate |-> 0, day |-> 1, week |-> 7]     \* variant
Days == [immediate |-> 1, day |-> 2, week |-> 8]
Expiry(s) == Midnight + Days[s] * DayLen - HourLen

IsRevoked(k) == expires[k] # None /\ expires[k] <= now

(* The handler reads the key, checks that it is the organization's and not *)
(* yet revoked, and updates it in a second query.                          *)
Revoke(w, o, k, s) ==
  /\ job[w] = Idle
  /\ phase[k] = "live"
  /\ owner[k] = o
  /\ ~IsRevoked(k)
  /\ job' = [job EXCEPT ![w] = [kind |-> "revoke", key |-> k, strategy |-> s]]
  /\ UNCHANGED <<now, row, history>>

(* The UPDATE of the query builder: bun adds "deleted_at IS NULL", so that *)
(* a row deleted since it was read is left alone.                          *)
AnyRow(k) == phase[k] \in {"live", "deleted"}     \* variant: no such condition
Updatable(k) == phase[k] = "live"

ExpiryOnly(k, s) ==     \* variant: deleted_at is left to the cron command
  /\ expires' = [expires EXCEPT ![k] = Expiry(s)]
  /\ revoked' = [revoked EXCEPT ![k] = now]
  /\ UNCHANGED <<phase, deleted>>

SetRevoked(k, s) ==
  /\ expires' = [expires EXCEPT ![k] = Expiry(s)]
  /\ IF s = "immediate"
     THEN /\ phase' = [phase EXCEPT ![k] = "deleted"]
          /\ deleted' = [deleted EXCEPT ![k] = now]
          /\ UNCHANGED revoked
     ELSE /\ revoked' = [revoked EXCEPT ![k] = now]
          /\ UNCHANGED <<phase, deleted>>

ApplyRevoke(w, k, s) ==
  /\ job[w] = [kind |-> "revoke", key |-> k, strategy |-> s]
  /\ IF Updatable(k) THEN SetRevoked(k, s)
                     ELSE UNCHANGED <<expires, phase, revoked, deleted>>
  /\ cut' = IF s = "immediate" THEN cut \union {k} ELSE cut
  /\ Finish(w)
  /\ UNCHANGED <<now, owner, title, lastUsed>>

RevokeFails(w, k, s) ==
  /\ job[w] = [kind |-> "revoke", key |-> k, strategy |-> s]
  /\ Finish(w)
  /\ UNCHANGED <<now, row, history>>

-------------------------------------------------------------------------------
(* Using a key.                                                            *)

(* FetchByValue looks at deleted_at only, never at expires_at.             *)
Authenticate(w, k) ==
  /\ job[w] = Idle
  /\ phase[k] = "live"
  /\ job' = [job EXCEPT ![w] = [kind |-> "use", key |-> k]]
  /\ UNCHANGED <<now, row, history>>

(* UpdateLastUsedAt, by id; its failure is only logged.                    *)
Touch(w, k) ==
  /\ job[w] = [kind |-> "use", key |-> k]
  /\ \/ lastUsed' = [lastUsed EXCEPT ![k] = IF Updatable(k) THEN now ELSE @]
     \/ UNCHANGED lastUsed
  /\ Finish(w)
  /\ UNCHANGED <<now, phase, owner, title, expires, history>>

-------------------------------------------------------------------------------
(* The cron command and the clock.                                         *)

EveryRevoked(k) == phase[k] = "live" /\ expires[k] # None     \* variant
NeverDue(k) == FALSE     \* variant: the command is not scheduled
Due(k) == phase[k] = "live" /\ expires[k] # None /\ expires[k] < now

DeleteKeys ==
  /\ \E k \in Keys : Due(k)
  /\ phase' = [k \in Keys |-> IF Due(k) THEN "deleted" ELSE phase[k]]
  /\ deleted' = [k \in Keys |-> IF Due(k) THEN now ELSE deleted[k]]
  /\ UNCHANGED <<now, owner, title, expires, lastUsed, job, cut, revoked>>

Tick == /\ now < MaxTime
        /\ now' = now + 1
        /\ UNCHANGED <<row, job, history>>

-------------------------------------------------------------------------------
CreateStep(w, k) == \/ Create(w, k)
                    \/ Insert(w, k)
                    \/ Count(w, k)
                    \/ Commit(w, k)
                    \/ CreateFails(w, k)

RevokeStep(w, k) ==
  \/ \E o \in Orgs, s \in Strategies : Revoke(w, o, k, s)
  \/ \E s \in Strategies : ApplyRevoke(w, k, s) \/ RevokeFails(w, k, s)

UseStep(w, k) == Authenticate(w, k) \/ Touch(w, k)

Next == \/ \E w \in Workers, k \in Keys : \/ CreateStep(w, k)
                                          \/ RevokeStep(w, k)
                                          \/ UseStep(w, k)
        \/ DeleteKeys
        \/ Tick

Spec == Init /\ [][Next]_vars

(* The operator schedules delete-keys, so that it runs again and again.    *)
FairSpec == Spec /\ WF_vars(DeleteKeys)

-------------------------------------------------------------------------------
(* Properties.                                                             *)

(* Requests that race past the count exceed the limit by at most their     *)
(* number less one, and no other order of creating, revoking and deleting  *)
(* exceeds it further (the count in postgres/api_key.go:76-86 is of a      *)
(* snapshot that misses the others' uncommitted rows).                     *)
KeysBounded == \A o \in Orgs :
                  Cardinality(Live(o)) <= Limit - 1 + Cardinality(Workers)

(* A name is used twice only by creations that looked for it at the same   *)
(* time: however creations, revocations and deletions follow one another,  *)
(* as many keys as requests can run at once have it at most                *)
(* (server/api_key.go:77-91; no unique index backs the check).             *)
NamesBounded ==
  \A o \in Orgs, n \in Names :
    Cardinality({k \in Live(o) : title[k] = n}) <= Cardinality(Workers)

(* A key revoked at once is gone for good, even if a slower revocation     *)
(* with grace, a use or a cron run that read it before overlaps.           *)
CutIsFinal == \A k \in cut : phase[k] = "deleted"

(* Grace is more than a day less an hour: a key that was never revoked at  *)
(* once is not deleted earlier after the last revocation that took effect, *)
(* whatever the time of day and whichever strategies raced.  It may be     *)
(* less than a day: a revocation in the last hour of a day is counted from *)
(* that day's midnight (postgres/api_key.go:104).                          *)
GraceKept == \A k \in Keys :
               phase[k] = "deleted" /\ k \notin cut =>
                 /\ revoked[k] # None
                 /\ deleted[k] > revoked[k] + DayLen - HourLen

(* The row of a deleted key is never written again, by whom it was read    *)
(* before it was deleted included.                                         *)
DeletedRowsStay == \A k \in Keys : phase[k] = "deleted" =>
                                      /\ phase'[k] = "deleted"
                                      /\ expires'[k] = expires[k]
                                      /\ lastUsed'[k] = lastUsed[k]

DeletedIsFrozen == [][DeletedRowsStay]_vars

(* A key past its expiry does not stay in use: the cron command deletes    *)
(* it, unless a late revocation moves its expiry on.                       *)
Overdue(k) == phase[k] = "live" /\ IsRevoked(k) /\ expires[k] # now

ExpiredIsDeleted == \A k \in Keys : Overdue(k) ~> ~Overdue(k)

-------------------------------------------------------------------------------
(* A statement of the repository that the code does not keep.              *)

(* "you can only have a maximum of 10 active api keys" (api_key.go:16).    *)
LimitKept == \A o \in Orgs : Cardinality(Live(o)) <= Limit
===============================================================================
