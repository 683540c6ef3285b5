------------------------------- MODULE EmailCron -------------------------------
(***************************************************************************)
(* The "cron users" command (cmd/cli/cron_scheduled_emails.go): it walks   *)
(* the pending users in batches cut by OFFSET and LIMIT, stores a token    *)
(* for every user of the batch, and mails them with a pool of workers      *)
(* that retry, count and report on a channel that is read at the end.      *)
(*                                                                         *)
(* Users are numbered in the order of the query, created_at and then id.   *)
(* A row becomes visible when its INSERT commits, which need not be in     *)
(* that order.  The command's context is never cancelled (main runs cobra  *)
(* without one), so that the ctx.Done() branches are left out; its         *)
(* process can be killed.                                                  *)
(***************************************************************************)
EXTENDS Integers, FiniteSets

CONSTANTS MaxUsers,     \* rows of users that are or become pending
          Flags,        \* --batch-size, --workers, --max-retries of a run
          MaxFaults,    \* bound: failing queries and sends
          MaxRuns       \* bound: runs of the command

(* With no worker the first job would wait for a slot for ever.            *)
ASSUME EmailCronAssumption ==
         /\ MaxUsers \in Nat
         /\ Flags # {}
         /\ Flags \subseteq [batch : Nat \ {0}, workers : Nat \ {0},
                              retries : Nat]
         /\ MaxFaults \in Nat
         /\ MaxRuns \in Nat

Users == 1..MaxUsers

VARIABLES
  visible,    \* committed rows with status pending
  verified,   \* rows whose email_verified_at is set
  tokens,     \* tokens[u]: rows of email_verifications
  mails,      \* mails[u]: mails that reached the user
  phase,      \* where ProcessPendingUsers is
  offset,
  batch,      \* users of the current batch
  stage,      \* stage[u]: where the job of a user of the batch is
  attempts,   \* attempts[u]: failed attempts of its job
  results,    \* jobs whose result is in the results channel
  total,      \* metrics
  sent,
  failed,
  flags,      \* the flags of this run
  runs,
  faults,
  \* history
  takes,      \* takes[u]: how often the user was fetched, over all runs
  lies,       \* lies[u]: sends that went out and reported an error
  took,       \* took[u]: how often this run fetched the user
  base,       \* users pending when this run began
  before,     \* before[u]: honest sends, see Honest, when it began
  gone,       \* users verified since then
  late        \* rows that became visible since then

users == <<visible, verified, gone, late>>
metrics == <<total, sent, failed>>
process == <<runs, flags>>
fetched == <<takes, took, base, before>>
vars == <<visible, verified, tokens, mails, phase, offset, batch, stage,
          attempts, results, metrics, process, faults, takes, lies, took, base,
          before, gone, late>>

Phases == {"idle", "fetch", "tokens", "mail", "clean", "failed"}
Stages == {"none", "fetched", "job", "sending", "settled", "counted", "left"}

TypeOK == /\ visible \subseteq Users
          /\ verified \subseteq Users
          /\ tokens \in [Users -> Nat]
          /\ mails \in [Users -> Nat]
          /\ phase \in Phases
          /\ offset \in Nat
          /\ batch \subseteq Users
          /\ stage \in [Users -> Stages]
          /\ attempts \in [Users -> Nat]
          /\ results \subseteq Users
          /\ total \in Nat /\ sent \in Nat /\ failed \in Nat
          /\ flags \in Flags
          /\ runs \in Nat
          /\ faults \in Nat
          /\ takes \in [Users -> Nat]
          /\ lies \in [Users -> Nat]
          /\ took \in [Users -> Nat]
          /\ base \subseteq Users
          /\ before \in [Users -> Int]
          /\ gone \subseteq Users
          /\ late \subseteq Users

Zero == [u \in Users |-> 0]

(* Mails that went out with the send reporting success.                    *)
Honest(u) == mails[u] - lies[u]

Running == phase \in {"fetch", "tokens", "mail"}

Init == /\ visible \in SUBSET Users
        /\ verified = {}
        /\ tokens = Zero
        /\ mails = Zero
        /\ phase = "idle"
        /\ offset = 0
        /\ batch = {}
        /\ stage = [u \in Users |-> "none"]
        /\ attempts = Zero
        /\ results = {}
        /\ total = 0 /\ sent = 0 /\ failed = 0
        /\ flags \in Flags
        /\ runs = 0
        /\ faults = MaxFaults
        /\ takes = Zero
        /\ lies = Zero
        /\ took = Zero
        /\ base = {}
        /\ before = Zero
        /\ gone = {}
        /\ late = {}

Fault == faults > 0 /\ faults' = faults - 1

-------------------------------------------------------------------------------
(* The users.                                                              *)

Pending == visible \ verified

(* A pending user signs in with Google or is invited.                      *)
Appear(u) ==
  /\ u \notin visible
  /\ visible' = visible \union {u}
  /\ late' = late \union {u}
  /\ UNCHANGED <<verified, gone, tokens, mails, phase, offset, batch, stage,
                 attempts, results, metrics, process, faults, fetched, lies>>

(* Something outside this repository follows the link: no code of it sets  *)
(* email_verified_at.                                                      *)
Verify(u) ==
  /\ u \in Pending
  /\ verified' = verified \union {u}
  /\ gone' = gone \union {u}
  /\ UNCHANGED <<visible, late, tokens, mails, phase, offset, batch, stage,
                 attempts, results, metrics, process, faults, fetched, lies>>

-------------------------------------------------------------------------------
(* The run.                                                                *)

Start ==
  /\ ~Running
  /\ runs < MaxRuns
  /\ runs' = runs + 1
  /\ flags' \in Flags
  /\ phase' = "fetch"
  /\ offset' = 0
  /\ total' = 0 /\ sent' = 0 /\ failed' = 0
  /\ took' = Zero
  /\ base' = Pending
  /\ before' = [u \in Users |-> Honest(u)]
  /\ gone' = {}
  /\ late' = {}
  /\ UNCHANGED <<visible, verified, tokens, mails, batch, stage, attempts,
                 results, faults, takes, lies>>

(* fetchPendingUsers                                                       *)
Rank(u) == Cardinality({v \in Pending : v <= u})
OverlapPage == {u \in Pending : /\ offset <= Rank(u)       \* variant
                                /\ Rank(u) <= offset + flags.batch}
GapPage == {u \in Pending : /\ offset + 1 < Rank(u)        \* variant
                            /\ Rank(u) <= offset + 1 + flags.batch}
Page == {u \in Pending : /\ offset < Rank(u)
                         /\ Rank(u) <= offset + flags.batch}

Fetch ==
  /\ phase = "fetch"
  /\ Page # {}
  /\ phase' = "tokens"
  /\ batch' = Page
  /\ stage' = [u \in Users |-> IF u \in Page THEN "fetched" ELSE "none"]
  /\ attempts' = Zero
  /\ takes' = [u \in Users |-> takes[u] + IF u \in Page THEN 1 ELSE 0]
  /\ took' = [u \in Users |-> took[u] + IF u \in Page THEN 1 ELSE 0]
  /\ UNCHANGED <<users, tokens, mails, offset, results, metrics, process,
                 faults, base, before, lies>>

End ==
  /\ phase = "fetch"
  /\ Page = {}
  /\ phase' = IF failed > 0 THEN "failed" ELSE "clean"
  /\ UNCHANGED <<users, tokens, mails, offset, batch, stage, attempts,
                 results, metrics, process, faults, fetched, lies>>

FetchFails ==
  /\ phase = "fetch"
  /\ Fault
  /\ phase' = "failed"
  /\ UNCHANGED <<users, tokens, mails, offset, batch, stage, attempts,
                 results, metrics, process, fetched, lies>>

(* The jobs are made and handed out in the order of the batch.             *)
First(u, s) == /\ u \in batch
               /\ stage[u] = s
               /\ \A v \in batch : stage[v] = s => u <= v

(* createEmailJob: the tokens of the whole batch come before any mail.     *)
Store(u) ==
  /\ phase = "tokens"
  /\ First(u, "fetched")
  /\ tokens' = [tokens EXCEPT ![u] = @ + 1]
  /\ stage' = [stage EXCEPT ![u] = "job"]
  /\ \/ /\ \E v \in batch \ {u} : stage[v] = "fetched"
        /\ UNCHANGED <<phase, total>>
     \/ /\ \A v \in batch \ {u} : stage[v] # "fetched"
        /\ phase' = "mail"
        /\ total' = total + Cardinality(batch)
  /\ UNCHANGED <<users, mails, offset, batch, attempts, results, sent, failed,
                 process, faults, fetched, lies>>

(* A failed INSERT ends the run; it may have taken effect.                 *)
StoreIgnored(u) ==                                         \* variant
  /\ phase = "tokens"
  /\ First(u, "fetched")
  /\ Fault
  /\ stage' = [stage EXCEPT ![u] = "job"]
  /\ \/ /\ \E v \in batch \ {u} : stage[v] = "fetched"
        /\ UNCHANGED <<phase, total>>
     \/ /\ \A v \in batch \ {u} : stage[v] # "fetched"
        /\ phase' = "mail"
        /\ total' = total + Cardinality(batch)
  /\ UNCHANGED <<users, tokens, mails, offset, batch, attempts, results, sent,
                 failed, process, fetched, lies>>
StoreFails(u) ==
  /\ phase = "tokens"
  /\ First(u, "fetched")
  /\ Fault
  /\ \/ tokens' = [tokens EXCEPT ![u] = @ + 1]
     \/ UNCHANGED tokens
  /\ phase' = "failed"
  /\ UNCHANGED <<users, mails, offset, batch, stage, attempts, results,
                 metrics, process, fetched, lies>>

-------------------------------------------------------------------------------
(* The batch: a pool of workers.                                           *)

InPool == {u \in batch : stage[u] \in {"sending", "settled", "counted"}}

(* workerPool <- struct{}{}                                                *)
Dispatch(u) ==
  /\ phase = "mail"
  /\ First(u, "job")
  /\ Cardinality(InPool) < flags.workers
  /\ stage' = [stage EXCEPT ![u] = "sending"]
  /\ UNCHANGED <<users, tokens, mails, phase, offset, batch, attempts, results,
                 metrics, process, faults, fetched, lies>>

(* processEmailWithRetry.  The job of a user failed when its attempts are  *)
(* used up.                                                                *)
LastIsLost(u) == attempts[u] >= flags.retries              \* variant
Exhausted(u) == attempts[u] > flags.retries

SendAgain(u) ==                                            \* variant
  /\ phase = "mail"
  /\ stage[u] = "sending"
  /\ mails' = [mails EXCEPT ![u] = @ + 1]
  /\ attempts' = [attempts EXCEPT ![u] = @ + 1]
  /\ stage' = [stage EXCEPT ![u] =
                 IF attempts[u] = flags.retries THEN "settled" ELSE "sending"]
  /\ UNCHANGED <<users, tokens, phase, offset, batch, results, metrics,
                 process, faults, fetched, lies>>
SendSucceeds(u) ==
  /\ phase = "mail"
  /\ stage[u] = "sending"
  /\ mails' = [mails EXCEPT ![u] = @ + 1]
  /\ stage' = [stage EXCEPT ![u] = "settled"]
  /\ UNCHANGED <<users, tokens, phase, offset, batch, attempts, results,
                 metrics, process, faults, fetched, lies>>

(* An error of the mail service, or the timeout of the send: the mail may  *)
(* have gone out all the same.                                             *)
SendFails(u) ==
  /\ phase = "mail"
  /\ stage[u] = "sending"
  /\ Fault
  /\ \/ UNCHANGED <<mails, lies>>
     \/ /\ mails' = [mails EXCEPT ![u] = @ + 1]
        /\ lies' = [lies EXCEPT ![u] = @ + 1]
  /\ attempts' = [attempts EXCEPT ![u] = @ + 1]
  /\ stage' = [stage EXCEPT ![u] =
                 IF attempts[u] = flags.retries THEN "settled" ELSE "sending"]
  /\ UNCHANGED <<users, tokens, phase, offset, batch, results, metrics, process,
                 fetched>>

(* IncrementSent and IncrementFailed hold the metrics' mutex.              *)
CountAllSent(u) ==                                         \* variant
  /\ phase = "mail"
  /\ stage[u] = "settled"
  /\ sent' = sent + 1
  /\ stage' = [stage EXCEPT ![u] = "counted"]
  /\ UNCHANGED <<users, tokens, mails, phase, offset, batch, attempts, results,
                 total, failed, process, faults, fetched, lies>>
Count(u) ==
  /\ phase = "mail"
  /\ stage[u] = "settled"
  /\ \/ /\ Exhausted(u)
        /\ failed' = failed + 1
        /\ UNCHANGED sent
     \/ /\ ~Exhausted(u)
        /\ sent' = sent + 1
        /\ UNCHANGED failed
  /\ stage' = [stage EXCEPT ![u] = "counted"]
  /\ UNCHANGED <<users, tokens, mails, phase, offset, batch, attempts, results,
                 total, process, faults, fetched, lies>>

(* results <- err, then the deferred <-workerPool and wg.Done(): nothing    *)
(* can come between that tells them apart, because the channel is read     *)
(* only when all workers have left.                                        *)
CapacityOfPool == flags.workers                            \* variant
Capacity == Cardinality(batch)

Report(u) ==
  /\ phase = "mail"
  /\ stage[u] = "counted"
  /\ Cardinality(results) < Capacity
  /\ results' = results \union {u}
  /\ stage' = [stage EXCEPT ![u] = "left"]
  /\ UNCHANGED <<users, tokens, mails, phase, offset, batch, attempts, metrics,
                 process, faults, fetched, lies>>

(* wg.Wait(), then a result for every job, in whatever order they came.    *)
CollectEarly ==                                            \* variant
  /\ phase = "mail"
  /\ \A u \in batch : stage[u] \notin {"job", "sending"}
  /\ results' = {}
  /\ offset' = offset + Cardinality(batch)
  /\ phase' = "fetch"
  /\ UNCHANGED <<users, tokens, mails, batch, stage, attempts, metrics, process,
                 faults, fetched, lies>>
CollectBack ==                                             \* variant
  /\ phase = "mail"
  /\ \A u \in batch : stage[u] = "left"
  /\ results = batch
  /\ results' = {}
  /\ offset' = offset - Cardinality(batch)
  /\ phase' = "fetch"
  /\ UNCHANGED <<users, tokens, mails, batch, stage, attempts, metrics, process,
                 faults, fetched, lies>>
Collect ==
  /\ phase = "mail"
  /\ \A u \in batch : stage[u] = "left"
  /\ results = batch
  /\ results' = {}
  /\ offset' = offset + Cardinality(batch)
  /\ phase' = "fetch"
  /\ UNCHANGED <<users, tokens, mails, batch, stage, attempts, metrics, process,
                 faults, fetched, lies>>

(* The process is killed; everything it held in memory is lost.            *)
Kill ==
  /\ Running
  /\ phase' = "idle"
  /\ results' = {}
  /\ UNCHANGED <<users, tokens, mails, offset, batch, stage, attempts, metrics,
                 process, faults, fetched, lies>>

-------------------------------------------------------------------------------
Worker(u) == \/ SendSucceeds(u) \/ SendFails(u)
             \/ Count(u) \/ Report(u)

Run == \/ Fetch \/ End \/ FetchFails \/ Collect
       \/ \E u \in Users : Store(u) \/ StoreFails(u) \/ Dispatch(u)

Environment == \/ Start \/ Kill
               \/ \E u \in Users : Appear(u) \/ Verify(u)

Next == \/ Run
        \/ \E u \in Users : Worker(u)
        \/ Environment

Spec == Init /\ [][Next]_vars

(* The Go scheduler runs every goroutine that can run.  Nothing makes the  *)
(* command start, its process die or a user act.                           *)
Fairness == /\ WF_vars(Run)
            /\ \A u \in Users : WF_vars(Worker(u))

FairSpec == Spec /\ Fairness

-------------------------------------------------------------------------------
(* Properties.                                                             *)

(* A user gets a mail more than once per fetch only for a send that went   *)
(* out and reported an error (processEmailWithRetry, lines 249-283): the   *)
(* pool, the retries and a killed process never repeat one by themselves.  *)
MailsPaid == \A u \in Users : mails[u] <= takes[u] + lies[u]

(* Whoever was mailed a link has a stored token for it, also when the run  *)
(* was aborted or killed between the tokens of a batch and its mails       *)
(* (createEmailJobs, lines 183-216).                                       *)
MailedHaveTokens == \A u \in Users : mails[u] > 0 => tokens[u] > 0

(* The metrics that decide the command's exit status agree with what the   *)
(* workers did, whatever their order, the retries and the failures (lines  *)
(* 48-58, 176 and 232-238): between batches and at the end, be it an       *)
(* aborted one, every job taken was counted once, and the jobs counted as  *)
(* sent are as many as the mails of this run that went out with the send   *)
(* reporting success.                                                      *)
Delivered == UNION {{u} \X (before[u] + 1 .. Honest(u)) : u \in Users}

CountersAgree ==
  /\ phase = "clean" => sent = total /\ failed = 0
  /\ phase \in {"fetch", "failed", "clean"} =>
       sent + failed = total /\ sent = Cardinality(Delivered)

(* A job counts as failed only after --max-retries further attempts, each  *)
(* of which failed (line 251).                                             *)
RetriesUsed == runs <= 1 => failed * (flags.retries + 1) <= MaxFaults - faults

(* A worker never waits for room in the results channel, which nobody      *)
(* reads before all workers have left (line 157 makes room for every job). *)
ResultsFit == /\ Cardinality(results) <= Capacity
              /\ phase = "mail" =>
                   \A u \in batch : stage[u] = "counted" =>
                                      Cardinality(results) < Capacity

(* Offsets over a shrinking result skip users (line 137): a run that comes *)
(* to its end misses at most one pending user for each one verified in     *)
(* the meantime, and none when nobody was.                                 *)
Missed == {u \in base : u \notin gone /\ took[u] = 0}
SkipsPaid == phase = "clean" => Cardinality(Missed) <= Cardinality(gone)

(* And rows that become visible in the middle repeat users: a run fetches  *)
(* at most one user once more for each such row.                           *)
Repeats == UNION {{u} \X (2..took[u]) : u \in Users}
RepeatsPaid == Cardinality(Repeats) <= Cardinality(late)

(* A run that was begun ends, or its process dies: the pool, the channel   *)
(* and the wait group never wait for each other.                           *)
RunEnds == []<>~Running

(* A run is a MailRun: batches are mailed one after the other, each job is *)
(* settled and counted once, and none is on its way when the run ends.     *)
Outcome(u) ==
  IF phase # "mail" \/ u \notin batch
     \/ stage[u] \notin {"counted", "left"} THEN "none"
  ELSE IF attempts[u] > flags.retries THEN "failed" ELSE "sent"

MR == INSTANCE MailRun
        WITH run <- IF Running THEN "open" ELSE phase,
             jobs <- IF phase = "mail" THEN batch ELSE {},
             outcome <- [u \in Users |-> Outcome(u)]
ImplementsMailRun == MR!Spec
===============================================================================
