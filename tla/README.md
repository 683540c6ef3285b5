# Verification of the Logtrace backend

Logtrace collects audit events, audit logs and login sessions of other
programs. This directory models the parts of the backend in which concurrency,
failures and time decide whether it is correct, checks the models with TLC, and
proves the main invariants with TLAPS for every value of the constants.

| file | what it is |
| --- | --- |
| `AuditTrail.tla` | what the ingestion pipeline promises, abstractly |
| `Ingestion.tla` | handlers, Redis stream, router and consumers, logout, process life cycle |
| `IngestionProofs.tla` | type correctness and the safety invariants of `Ingestion`, proved |
| `IngestionRefinement.tla` | `Ingestion` implements `AuditTrail`, proved |
| `ApiKeys.tla` | creation, revocation, use and deletion of API keys, with a clock |
| `ApiKeysProofs.tla` | the invariants and the action property of `ApiKeys`, proved for every limit, clock and length of day |
| `MailRun.tla` | what a run of the verification command promises, abstractly |
| `EmailCron.tla` | the command: batches, tokens, worker pool, retries, counters, killed processes |
| `EmailCronProofs.tla` | its invariants and the refinement of `MailRun`, proved |
| `EmailCronBounds.tla` | what a run may skip, repeat and count as failed, proved |
| `Access.tla` | the route table and the decisions of the middlewares, as operators |
| `Accounts.tla` | organizations, users, memberships, sign-up, logins, invitations, resets, mails |
| `AccountsProofs.tla` | all the invariants of `Accounts` that hold, proved |
| `Console.tla` | the middlewares step by step, lists and pages, metrics, plans, invitations |
| `ConsoleProofs.tla` | all the invariants and the action property of `Console`, proved |
| `FiniteLemmas.tla` | facts about finite sets that the last proofs rest on |
| `MCIngestion.tla`, `MCApiKeys.tla`, `MCEmailCron.tla`, `MCAccounts.tla`, `MCConsole.tla`, `*.cfg` | the instances TLC checks |
| `PROJECT.json` | definitions mapped to source lines, runs, mutants, hazards, findings, theorems |

Definitions introduced by the comment "variant" are plausible bugs (a dropped
return, an off-by-one). No specification uses them; each stands before the
definition it would replace, and replacing it makes a property fail
(`PROJECT.json`, "mutants").

## 1. Inventory

All state that outlives a request is in Postgres tables or Redis streams; the
processes themselves keep only what a running handler, consumer or command has
in its local variables.

| component | state | operations | interacts with |
| --- | --- | --- | --- |
| Ingestion handlers (`server/event.go`, `audit_log.go`, `session.go`) | `organization_users` | `Create` of each kind | call the queue; are entered through `requireAPIKeyOnly` |
| Queue and router (`internal/pkg/queues/watermill`) | one Redis stream per topic, a read position per process and topic, the poison queue | `Add`, the consumers, Retry and PoisonQueue middlewares | write `events`, `audit_logs`, `sessions`; send mails |
| Server process (`cmd/cli/http.go`, `server/http.go`) | running handlers and consumers | start, SIGTERM, drain, exit | owns one HTTP server and one router |
| Session logout (`server/session.go`, `postgres/session.go`) | `sessions.logout_at` | `Logout` | races with `saveSession` |
| API keys (`server/api_key.go`, `postgres/api_key.go`) | `api_keys` | create, list, revoke; `FetchByValue`, `UpdateLastUsedAt` in the middleware; `delete-keys` cron | gate every `/developers` route |
| Sign-up and login (`server/auth.go`) | `organizations`, `users`, `user_passwords`, `email_verifications` | `emailSignUp`, `login`, Google login | queue a verification mail |
| Profile, roles, membership (`server/auth.go`, `organization.go`) | `users` (with the memberships in `metadata`) | `editProfile`, `revokeUserRole`, `createOrganization` | each reads a user row and writes it back whole |
| Invitations (`server/auth.go`, `invitation.go`) | `users`, `invitations` | invite, create, list, delete | publish to a topic without a consumer |
| Password reset | `user_passwords` | request, reset | queue a mail; the token is a JWT and has no row |
| Verification cron (`cmd/cli/cron_scheduled_emails.go`) | `email_verifications`, counters | batches, worker pool, retries, results channel | mail provider |
| Request context (`server/middleware.go`) | none | authenticate, choose the organization, subscription gate | before every handler |
| Organizations, plans | their tables | CRUD under `OmitZero` | |
| Lists, metrics, paging | none | read-only queries | |
| Everything else (tokens, templates, configuration, telemetry, cache, seed, migrations, generated code) | none of interest | | |

What makes each of them correct, and what is hard about it:

* **Ingestion and queue.** A record that was accepted is saved, once per
  process that consumes, under the user that was named. Hard: find-or-create
  without a key, calls that take effect and still fail, several processes
  reading the same stream, restarts, retries around a dead-letter queue.
* **Logout.** A logout that was confirmed is visible in the table. Hard: the
  session may still be on the stream.
* **API keys.** The limit holds, a revocation is final, grace is as long as
  promised, an expired key disappears. Hard: check-then-act across
  transactions, read-then-update, calendar arithmetic, a cron command that
  races with all of them.
* **Accounts** (sign-up, profile, membership, invitations, reset). No
  half-made account blocks a name, no update undoes a concurrent one. Hard:
  sagas without transactions, whole-row updates.
* **Verification cron.** Each pending user of a run is mailed, the counters
  add up, the run ends. Hard: concurrent workers, timeouts, retries, a paged
  query over rows that change.
* **Request context.** A handler sees an organization only if the caller is a
  member of it, and only with a subscription where one is needed.

The hazards, each at its line and with the properties that watch it, are listed
in `PROJECT.json`.

## 2. How the modules fit together

| module | extends | uses as INSTANCE | proofs in |
| --- | --- | --- | --- |
| `Ingestion` | | `AuditTrail` (refinement) | `IngestionProofs`, `IngestionRefinement` |
| `ApiKeys` | | | `ApiKeysProofs` |
| `EmailCron` | | `MailRun` (refinement) | `EmailCronProofs`, `EmailCronBounds` |
| `Accounts` | `Access` | | `AccountsProofs` |
| `Console` | `Access` | | `ConsoleProofs` |

The modules cut the program where its components only meet in the database.
`Ingestion` and `ApiKeys` are on the path of the records; `Accounts` and
`Console` are behind the console's middlewares, whose table of routes and
decisions both take from `Access`, so that a route that is moved changes both.
What one module does appears in another as an environment step: the rows that
`Ingestion` and `ApiKeys` write are `Console!Insert`, the users that `Accounts`
makes are `EmailCron!Appear`, and the mail of a sign-up is queued in `Accounts`
on the router that `Ingestion` models.

## 3. Ingestion

### State and code

| model | code |
| --- | --- |
| `proc`, `serving` | the process and the requests whose handler it runs (`cmd/cli/http.go:103-154`, `server/http.go:59-69`) |
| `pc`, `actor` | local state of `Create`: where it is, and the user fields of the record it builds |
| `orgUsers` | table `organization_users` (no unique key: rows carry the request that wrote them) |
| `stream` | the Redis streams `save_event`, `save_audit_log`, `save_session` |
| `cursor`, `task`, `tries` | per process and topic: the subscriber's position, the step of the message in hand, the retries made |
| `rows` | rows of `events`, `audit_logs` and `sessions`, counted per record and writing process |
| `poisoned` | messages in `poision.queue` |
| `closed` | sessions with a `logout_at` |
| `from`, `acked`, `faults`, `restarts` | history and bounds, not in the code |

| action | code |
| --- | --- |
| `Receive` | bind, `Validate`, and for sessions `login_at` |
| `FindOrgUser`, `CreateOrgUser`, `Publish` | the three calls of `Create`, each with its error answer; between them other requests run |
| `Deliver` | the subscriber hands over the next message once the last one was acked |
| `Save` | `saveEvent`, `saveAuditLog`, `saveSession`: one INSERT |
| `Poison` | PoisonQueue inside Retry: a published error ends there, a failed publish goes to Retry and, after the last retry, to a nack and a redelivery |
| `Logout` | the handler and its one UPDATE, which may fail: the caller is then told 500, whether or not it took effect |
| `Terminate`, `Stop`, `Start` | SIGTERM; a crash or the end of the drain; a new process, subscribed at the end of the streams |

A call to Postgres or Redis succeeds, fails, or takes effect although an error
is reported; the last two count as a fault. The PoisonQueue and Retry
middlewares, the subscriber and Redis are libraries: they are modelled from how
`watermill.go` configures them.

`AuditTrail` leaves out all of that: records are admitted once and answered
once, rows and dead letters only grow and only for admitted records. `Trail`
in `Ingestion` maps the stream to `admitted`, the answers to `accepted` or
`refused`, and keeps the rows and dead letters as they are. A process that
dies refuses, in one step, all calls it was serving.

### What is checked

| property | says |
| --- | --- |
| `PublishedOnce` | on the stream at most once, under its topic; a 202 implies it is there; nothing is saved or dead-lettered that was never published |
| `NothingDropped` | a running process has saved or dead-lettered every message it read, but the one in hand |
| `UserKnown` | the user of a published record is in `organization_users`, whatever raced |
| `RowsPaidByFaults` | a duplicate row from one process needs two failures: an INSERT with a false error and a failed dead letter |
| `ImplementsAuditTrail` | the refinement |
| `EveryCallAnswered`, `EventuallySettled` | liveness of handlers and of the router |

`ingestion` runs two processes, an event and an audit log (one with a user id,
one with a username only), two faults and one restart. Two processes are enough
for the fan-out and for a drain overlapping a live process; two requests for
every race of find-or-create, which is between two; two faults for the two
failures a duplicate needs; one restart for a lost and a re-read position.
`ingestion_live` trades the second process for a session, an invalid call and
four faults, which with one retry reach the nack: INSERT, dead letter, INSERT,
dead letter. The code's three retries lengthen that loop and add no branch.

Fairness: the handlers and consumers of a process are goroutines, so one that
can take a step eventually takes it (weak fairness of `Handle` and `Consume`).
Nothing obliges a process to stop, to start or to fail, nor a client to call.
Calls to Postgres run under the
configured query timeout (`postgres.go:23-25`) and calls to Redis under the
client's own, which is why a pending step ends. `EventuallySettled`
therefore says what a process owes only while it stays up.

### Where the code departs from what it says

Each is a run that ends in a counterexample; `PROJECT.json` quotes the lines.

* `ingestion_actor`: an audit log with a username only is recorded under some
  other user of the organization.
* `ingestion_logout`: a confirmed logout changes no row.
* `ingestion_accepted`: an accepted record is lost when the process restarts.

One thing the model shows is not in that list, as no document says otherwise:
PoisonQueue stands inside Retry, so a failed INSERT is dead-lettered at once
and Retry only sees failures of that publish. `watermill.go:97-98` speaks of
panics, which are not modelled. `Poison` follows the code in this, and
`NothingDropped`, `RowsPaidByFaults` and `EventuallySettled` are checked with
it.

### What is proved

`IngestionProofs` proves `TypeOK`, `PublishedOnce`, `NothingDropped`,
`UserKnown` and `RowsPaidByFaults` for all processes, requests, calls and
bounds, from `IngestionAssumption` alone. `PublishedOnce` is not inductive: a
second `Publish` is impossible only because a request is served by one process
and is served exactly while its handler runs. The invariant is `Safe`:

* `TypeInv`: types, and cursors within the streams;
* `HttpInv`: a served request is running (`ServingRuns`), in one process only
  (`ServedOnce`);
* `StreamInv`: topics, no repetition, and what the answers and rows imply;
* `ReadInv`: what each process read since it subscribed is settled or in hand.

`Budget` adds to `RowsPaidByFaults` that a message whose dead letter is pending
has already paid (`TaskBudget`), and `UserInv` carries `UserKnown` through the
steps before the publish. `IngestionRefinement` proves the refinement from the
same invariants, one step lemma per action.

## 4. API keys

### State and code

`phase` follows a row from the name check (`named`), through the INSERT and the
count inside the transaction (`inserted`, `counted`), to the commit (`live`) and
the soft deletion (`deleted`). Only live rows are visible to other statements,
which is READ COMMITTED; every bun query and update skips deleted rows.
`expires`, `lastUsed`, `owner`, `title` are columns; `job` is what each worker
is in the middle of; `cut`, `revoked` and `deleted` are history.

| action | code |
| --- | --- |
| `Create`, `Insert`, `Count`, `Commit`, `CreateFails` | `apiKeyHandler.create` and `apiKeyRepo.Create` (`server/api_key.go:61-113`, `postgres/api_key.go:69-90`) |
| `Revoke`, `ApplyRevoke`, `RevokeFails` | `apiKeyHandler.revoke`: read and decide, then one UPDATE (`server/api_key.go:188-266`, `postgres/api_key.go:92-113`) |
| `Authenticate`, `Touch` | `requireAPIKeyOnly` (`server/middleware.go:363-418`) |
| `DeleteKeys` | `cron delete-keys` |
| `Tick` | the clock advances by its resolution |

Time is in ticks from a midnight of the database. A tick is the resolution of a
timestamp and not an hour: an hour has `HourLen` ticks and a day `DayLen`, so
that a key can be revoked in the middle of an hour and is due at the tick after
its expiry, as `expires_at < NOW()` has it. `Expiry` is the UPDATE's
`CURRENT_DATE + INTERVAL 'n days' - INTERVAL '1 hour'`, whatever the time of
day. A revocation at 23:30 with a day's grace therefore expires at 23:00 of the
next day: the least grace is more than 23 hours and not a day.

### What is checked

`api_keys` freezes the clock and lets two workers race four keys of two names
under a limit of two; four keys leave room for the limit, one key over it and a
refused one. `api_keys_clock` takes one key over nine days of three
ticks each, the last two of which are an hour: a week's grace, one more revocation
inside it, and revocations before, at the beginning and in the middle of the
last hour. `KeysBounded` says how far races can exceed the limit: by the
number of workers less one. `NamesBounded` says the same of the check for a
name in use, which no unique index backs: a name has no more live keys than
requests run at once, however many follow one another. `GraceKept`,
`CutIsFinal` and `DeletedIsFrozen` relate revocations that overlap; the first
says that a key not revoked at once lives more than a day less an hour after
its last revocation, which is all that the code's arithmetic gives.
`ExpiredIsDeleted` needs the operator to schedule `delete-keys`, which is its
fairness: the command runs again and again.
`api_keys_limit` shows that the limit itself is not kept.

### What is proved

`ApiKeysProofs` proves `TypeOK`, `KeysBounded`, `NamesBounded`, `CutIsFinal`,
`GraceKept` and `DeletedIsFrozen` for every number of workers, keys and
organizations, every limit, and every length of a day and of an hour in it,
from `ApiKeysAssumption`.

* `JobsInv`: a row between name check and commit belongs to one worker; a job's
  row exists. It makes the creations in flight no more than the workers.
* `RoomInv`: live and counted rows of an organization together are at most the
  limit less one plus the workers; the counted ones inject into the workers.
  `KeysBounded` alone is not inductive: `Commit` adds a live row without a test.
* `NameInv`: the keys of a name that live or are in creation are no more than
  the workers. `NamesBounded` alone is not inductive: `Commit` looks at no
  name. What bounds the creations is the check before them: where it finds no
  live key, all keys of the name are in creation, and each has its own worker.
* `GraceInv`: a live row that was revoked has an expiry at least a day less an
  hour, and a tick, after the revocation, from which `Due` gives `GraceKept`.
  Its arithmetic is that of `now % DayLen` (`ExpiryIsAhead`), proved for every
  `DayLen` and `HourLen`: with the code's microseconds as with the run's ticks.

## 5. The verification command

### State and code

`cron users` (`cmd/cli/cron_scheduled_emails.go`) walks the pending users in
batches cut by OFFSET and LIMIT, stores a token for every user of the batch,
mails them with a pool of workers, and decides its exit status by its counters.

| model | code |
| --- | --- |
| `visible`, `verified` | rows of `users` the query can see, and those with `email_verified_at`, which no code of the repository sets |
| `tokens`, `mails` | rows of `email_verifications`, and what reached the user |
| `phase`, `offset`, `batch` | where `ProcessPendingUsers` is (lines 91-135) |
| `stage`, `attempts`, `results` | the job of each user, its failed attempts, the results channel |
| `total`, `sent`, `failed` | `ProcessingMetrics` |
| `flags` | `--batch-size`, `--workers`, `--max-retries` |
| `takes`, `lies`, `took`, `before`, `base`, `gone`, `late` | history |

| action | code |
| --- | --- |
| `Start`, `End`, `Kill` | a run of the command; its process dies at any point |
| `Fetch`, `FetchFails` | `fetchPendingUsers` |
| `Store`, `StoreFails` | `createEmailJob`: one INSERT per user, all before the first mail |
| `Dispatch` | a slot of the worker pool |
| `SendSucceeds`, `SendFails` | an attempt of `processEmailWithRetry`; a failed one may have gone out |
| `Count`, `Report` | the counters under their mutex, the result and the worker's leave |
| `Collect` | `wg.Wait()` and the loop over the results |
| `Appear`, `Verify` | rows change under the run |

`MailRun` leaves out offsets, workers, retries and the channel: a batch is
taken, every job of it is settled once, then the batch is cleared, and the run
is clean exactly when nothing failed. In `EmailCron` a job is settled for
`MailRun` when it is counted.

### What is checked

| property | says |
| --- | --- |
| `MailsPaid` | more mails than fetches only for sends that went out and reported an error |
| `MailedHaveTokens` | whoever was mailed has a stored token, wherever the process died |
| `CountersAgree` | at the end of a batch and of a run every job taken is counted once, and as many are counted as sent as mails of this run went out and were reported so |
| `RetriesUsed` | a job fails only after all its attempts failed |
| `ResultsFit` | the channel has room for every worker that counted its job |
| `SkipsPaid` | offsets over a result that shrinks skip at most one user per user that was verified meanwhile |
| `RepeatsPaid` | and repeat at most one per row that became visible meanwhile |
| `RunEnds` | pool, channel and wait group never wait for each other |
| `ImplementsMailRun` | the refinement |

`email_cron` has three users, the middle one of which becomes visible late, so
that a row can appear before the offset; batches of two, so that there is a
second batch; one worker without retries or two with one; one fault, which is a
failed query, a failed INSERT or a failed send; and two runs, so that a second
can follow a killed one. Fairness is that of the Go scheduler: the command's
goroutine and each worker take a step they can take. Nothing makes the command
start or die, or a user appear or verify.

### What is proved

`EmailCronProofs` and `EmailCronBounds` prove all but `RunEnds`, for every
number of users, every batch size, pool and number of retries. In
`EmailCronProofs`:

* `PaidInv`: a mail that a fetch still owes is paid for already; `TokenInv`: a
  job has its token. Both give `MailsArePaid` and `MailedUsersHaveTokens`.
* `JobsInv`: which stages a phase allows, and that the channel holds the
  results of exactly the jobs that left; `CountInv`: what was taken is counted,
  but for the jobs of the batch that are not. With it `ResultsFit` is
  inductive: the channel is as long as the batch, and a job that is still in
  the pool is not in it.
* `SentInv`: the mails of this run that were reported as sent (`Delivered`) are
  as many as the jobs counted as sent and those sent and not yet counted (`Won`)
  together. `TriesInv` tells a job that was sent from one whose attempts are
  used up, by its attempts, and `MailsInv` keeps the count of the mails from
  falling. `CountersAgree` speaks of the moments when no job is in hand and is
  not inductive.
* `BatchInv`: a batch is not empty, which the refinement needs for `Take`.

`EmailCronBounds` has the three properties that count sets against each other.
The state says how many rows were gone past (`Reached`), the properties how
many users; the rank of a user in the query's order ties the two together.

* `SkipInv`: the users of the beginning whose rank is behind what was gone past,
  and who were not fetched (`Passed`), are no more than the verified ones. A
  verification moves at most one user there, namely the next one; a fetch
  moves none, because it takes exactly the next ranks.
* `RepeatInv`: the users who were fetched and whose rank is ahead again
  (`Ahead`), together with the repetitions that happened, are no more than
  the rows that became visible. A fetch turns members of `Ahead` into
  repetitions; a row that appears moves at most one user into it.
* `RetryInv`: in the first run the failed sends of the jobs in hand (`Tries`),
  and `retries + 1` for each failed job, are no more than the faults so far.
* `UsersInv`: only pending users are fetched, and users leave the pending ones
  only by being verified.

That ranks fit pages is a statement about every finite set, whose obvious proof
is an induction over sets. The library's induction theorem takes an operator,
so the proofs take a least counterexample instead: `FiniteLemmas!LeastSet`,
which follows from the well-foundedness of the strict subset order.

## 6. Access

`Access` is pure: the routes of `server/http.go:75-299` with the handler and
the middlewares of each, which paths skip the organization and which the
subscription gate (`middleware.go`), which organization a header resolves to,
what a refusal answers, and which strings `util.IsStringEmpty` takes for empty:
the empty one and `Blank`, which stands for all that are nothing but spaces. A
path is the sequence of its segments below `/v1`;
`/organizations` and `/organizations/` are two routes, because the middlewares
compare strings and treat them differently.

## 7. Accounts

### State and code

A user is its address, which is unique, deleted rows included.

| model | code |
| --- | --- |
| `orgs`, `users`, `passwords`, `tokens` | the tables; of a user's row its `metadata` (memberships, role, or nil) |
| `mail` | the message a request queued, until it is sent, dead-lettered or lost |
| `in`, `pc` | the request and the statement it executes next |
| `org`, `copy` | the organization of its context, and the row of a user it holds |
| `answer` | its status; 0 when the handler panics or the process dies |
| `hit`, `ready`, `began`, `facts`, `held`, `wrote` | history |

| action | code |
| --- | --- |
| `Arrive` | a client; a session takes a password, a reset takes a mail |
| `Context`, `Organization` | `requireAuthentication` and `requireOrganizationValidSubscription` |
| `InsertOrganization`, `InsertAccount`, `InsertPassword`, `InsertToken`, `Queue` | `emailSignUp`: five writes without a transaction; `InsertOrganization` and `WriteUser` are also `createOrganization` |
| `UpdateOrganization`, `DeleteOrganization` | PATCH under `OmitZero`, and DELETE |
| `Reread`, `WriteUser` | `editProfile`, `revokeUserRole`: read a row, write it back whole |
| `LookUp`, `InviteUser`, `Queue` | `inviteUserByEmail`, `requestPasswordReset` |
| `LookUp`, `CheckPassword` | `loginWithEmail` and the password of `editProfile` |
| `ReplacePassword` | `resetPassword` and `editProfile` |
| `Exchange`, `GetOrCreateUser` | `loginWithGoogle` |
| `Deliver` | the consumers `sendEmailVerification`, `sendPasswordResetEmail` |
| `StatementFails`, `Crash` | any statement fails; the process dies |

A statement succeeds, fails without effect (`StatementFails`), or takes effect
and still reports an error (`Goes`, `Succeeds`). One server process is assumed;
what several do with one message is in `Ingestion`. The models follow the code
where a reader might expect something else: `loginWithEmail` looks at the error
of the password comparison and not at its result (`auth.go:231`); a Google
login of a user that exists answers 500, because `userRepo.Create` never
returns `ErrUserExists`; a new user of a Google login has no metadata, and
`generateUserToken` panics on it.

### What is checked

| property | says |
| --- | --- |
| `LoginAfterSignUp` | whoever's sign-up was answered as done can log in, whatever failed |
| `ChangesSurvive` | a membership or a revoked role is undone only by a request that had read the row before and wrote it afterwards: requests that do not overlap lose nothing |
| `InvitedJoins` | an answered invitation has made its account, but for two exceptions that the code passes over |
| `MailedTokensStored` | a verification mail follows its token |

`accounts` has two users, three organizations of two names, three requests and
one fault. Three requests are needed for a sign-up, a change to its account and
a stale write over it; two for each race. It begins with nobody, or with one
administrator and an organization, because a third request would otherwise be
spent on the sign-up. `MCNext` lets requests that change nothing come last
only: before others they add interleavings and no outcome. Requests are
bounded, so the run comes to a rest and deadlock is not checked.

The flag `is_subscription_active` of an update is unsaid, no or yes. `OmitZero`
writes a yes and leaves out the other two, so a no is answered "Organization
updated successfully" and the row keeps its subscription. `accounts_update`
looks for that: `WithdrawalHolds` says that an organization has no subscription
once a no was answered so and nobody said yes. TLC finds it violated.

### What is proved

`AccountsProofs` proves `TypeOK` and all four other invariants, for any users,
organizations, requests, inputs and faults, from `AccountsAssumption` alone.

* `TypeInv` adds to the types that a request is only ever at a statement of its
  own handler (`PathInv`), and that it knows its organization where it gives it
  to a user (`OrgInv`): that an invitation has one rests on the route table.
* `RowsInv`: accounts stay, one with a membership has metadata, and whoever
  holds a session, a password or a copy that will be written has an account.
* `SurviveInv`: what a held copy lacks came while it was held, or was excused
  before (`CopyInv`). `ChangesSurvive` is not inductive without it: a write
  may undo exactly what its copy does not know. Requests that wrote are done
  (`WroteInv`), so that an excuse stays one.
* `LoginInv`: a sign-up that is about to be answered has stored password and
  metadata, and a login that began afterwards has read them.
* `InviteInv`: an invitation has found no account, and when it comes to its
  mail the account is there, or a statement failed.
* `TokenInv`: a request that queued is done, and its token was stored before.

## 8. Console

`Console` takes a request through the middlewares and its handler, statement
by statement, over rows that appear meanwhile. Users, organizations and
memberships are constants (`Accounts` changes them); plans and invitations are
state. `PaginatorFromRequest`, the two statements of a list (count, page), the
order of a page and its ties, metrics, top actors and the updates of plans
under `OmitZero` are modelled. A client may walk a list page after page.

| property | says |
| --- | --- |
| `HandlerHasContext` | no route leads to a handler whose context lacks the user or the organization it takes out of it, which would panic (`middleware.go:67`, `85`) |
| `PagesMissNothing` | a client who walks all pages sees every row that matched at the first, whatever is inserted, but for rows of one instant, which have no order |
| `TotalReached` | a page that is not full has reached the total that came with it |
| `ListedAreMine` | the events, sessions and keys of an answer are of an organization of the caller |
| `InvitationsStay` | only a member of its organization deletes an invitation |

The WHERE clauses of the audit logs name no organization (`postgres/audit_log.go`),
and the model follows them; `ListedAreMine` excepts them, and says of audit
logs nothing. The order of the lists of plans and of invitations is left out.

`console` has one client, since a request of `Console` holds nothing that
another one changes between its statements; four users that differ in what the
middlewares tell apart (two organizations, one, none, a deleted one and one
without subscription); every
route; eight rows, four of them events of one organization and two of those of
one instant, with pages of one and of two. `MCNext` lets plans and invitations
change only when all rows are there, because the two never meet in a handler.

A plan's creation refuses a name that is empty once trimmed; its PATCH is not
validated, and `OmitZero` leaves out only the string of length zero. A plan can
therefore be renamed to blanks: `PlanUpdate` does so in the run, and no
property says otherwise.

### What is proved

`ConsoleProofs` proves `TypeOK`, all the invariants and `InvitationsStay`, for
any clients, users, memberships, rows, slots, page sizes and inputs, from
`ConsoleAssumption` alone. What that assumes of rows is that a table holds
finitely many.

* `TypeInv` adds to `TypeOK` that only a list is ever at its second statement
  (`SecondFollows`): without it nothing says that the rows of a page are rows.
* `ContextInv`: at which middlewares a request of a route can be (`PlaceOf`),
  what its context holds there (`ContextOf`), and of which organization the
  rows of its answer are (`AnswerOf`). `HandlerHasContext` and `ListedAreMine`
  follow. The step from one middleware to the next rests on lemmas about
  the route table: which paths skip the organization and which do not
  (`SkippingRoutes`, `GatedPaths`), compared as strings, as the code does it.
* `WalkInv`: a row that matched at the first page still matches, and unless it
  was shown, its place in the order (`Standing`) is on a page to come
  (`WalkOf`). Inserts only move it further back, and a page shows whatever has
  its place on it (`SliceHas`). When a page is not full nothing is behind it
  (`ShortSlice`), so nothing was left out. `TotalOf` says that a count made
  before the page is at most what matches, from which `TotalReached` follows in
  the same way. `PagesMissNothing` alone is not inductive: it says nothing of
  a walk that is not over.

A page is any of the subsets that `Slice` allows, since rows of one instant come
in any order. That each of them is as large as the window and the matching rows
admit (`SliceSize`) is again proved with a least counterexample.

## 9. What is only model-checked

Liveness (`EveryCallAnswered`, `EventuallySettled`, `ExpiredIsDeleted`,
`RunEnds`) is checked by TLC and not proved: it rests on fairness, and so on
ENABLED, which the prover does not handle. All other properties of passing runs
are theorems. The counterexamples of the five runs that expect a violation are
TLC's too, by nature. Nothing is proved about the operators of `Access` by
themselves; `ConsoleProofs` and `AccountsProofs` prove what they need of them.

Deadlock is not checked (`CHECK_DEADLOCK FALSE`): every bounded run ends when
its requests, faults, restarts or ticks are used up, and a server with nothing
to do may rest. That `EmailCron`'s pool does not block is `RunEnds`.

The safety runs of `ApiKeys` use the symmetry of workers, keys and names, none
of which is ordered or named by a property; the run with a liveness property
does not.

Bounds, all named in a constant: `MaxFaults`, `MaxRestarts` (`Ingestion`),
`MaxTime` and the number of `Keys` (`ApiKeys`), `MaxUsers`, `MaxFaults`,
`MaxRuns` (`EmailCron`), `MaxOrgs`, `MaxRequests`, `MaxFaults` (`Accounts`),
`Rows`, `Slots` (`Console`). `MaxRetries`, `Limit`,
`DefaultPerPage` and `TopActors` are the code's 3, 10, 20 and 5, and `DayLen`
and `HourLen` a day and an hour of microseconds; all are smaller in the runs
and, where there are proofs, arbitrary in them.

## 10. Not modelled

* Of `Ingestion`: the GeoIP lookup (it fills a text field and its failure is
  ignored), the text of records, panics, and JSON decoding of messages the
  program encoded itself.
* Of `ApiKeys`: the text of names, hashing, and the organization lookup after
  authentication (`Console` has it).
* Of `EmailCron`: the rate limiter and the backoff, which only delay a send,
  and the `ctx.Done()` branches: the command's context is never cancelled.
* Of `Accounts`: the encoding, signing and expiry of tokens, the hashing and
  comparison of passwords, the checks of a body other than an organization's
  name, and what `me` and `users` answer; all of it is computation on text or
  time. The abstract specification of memberships that was once planned is
  `ChangesSurvive`: as the code may undo a change, a specification that
  promised more would not be implemented.
* Of `Console`: descriptions and prices of plans, a clock that takes rows out
  of the last 24 hours, pages whose product overflows, and the text of filters:
  a filter is a condition that a row meets or not, or one Postgres rejects.
* Consumers of the trial and billing topics (`watermill_email.go:17-132`):
  nothing in the repository publishes to them. No code accepts an invitation or
  sets `email_verified_at`.
* Request ids, throttle, CSRF and CORS of `server/http.go`, telemetry,
  configuration, the Redis cache (no handler reads it), templates, the storage
  service, `migrate` and `seed`: wiring, pure I/O or one-off commands without
  state that two actors share.
* `swagger/docs.go`, `mocks`, seed data: generated or constant text.
