------------------------------- MODULE Ingestion -------------------------------
(***************************************************************************)
(* Ingestion of events, audit logs and sessions: the three Create handlers *)
(* (server/event.go, server/audit_log.go, server/session.go), the Redis    *)
(* stream between them and the consumers, and the watermill router whose   *)
(* consumers write the rows (internal/pkg/queues/watermill).               *)
(*                                                                         *)
(* Every server process runs both the HTTP handlers and a router.  The     *)
(* subscriber has no consumer group (watermill.go:65-70): each process     *)
(* reads the whole stream from the position it had when it subscribed, one *)
(* message at a time per topic, and writes its own row.                    *)
(*                                                                         *)
(* A call to Postgres or Redis succeeds, fails, or takes effect although   *)
(* its caller sees an error (a timeout).  Faults and restarts are counted  *)
(* against bounds.                                                         *)
(***************************************************************************)
EXTENDS Naturals, Sequences, FiniteSets

CONSTANTS Instances,    \* server processes
          Requests,     \* ingestion calls, one HTTP request each
          Call,         \* Call[r]: the request's route and body
          MaxRetries,   \* of the router's Retry middleware (3 in the code)
          MaxFaults,    \* bound: failed calls to Postgres and Redis
          MaxRestarts   \* bound: process starts after the first

Topics == {"save_event", "save_audit_log", "save_session"}

(* uid and name are "" where the body leaves the field out; wellFormed is  *)
(* whether the body decodes and passes the checks that do not concern the  *)
(* user (a name, a valid status, a parseable login_at).                    *)
CallType == [topic : Topics, org : STRING, uid : STRING, name : STRING,
             token : STRING, wellFormed : BOOLEAN]

ASSUME IngestionAssumption == /\ Call \in [Requests -> CallType]
                              /\ MaxRetries \in Nat
                              /\ MaxFaults \in Nat
                              /\ MaxRestarts \in Nat

VARIABLES
  proc,      \* proc[i]: "up", "draining" (SIGTERM received) or "down"
  serving,   \* serving[i]: the requests whose handler runs in process i
  pc,        \* pc[r]: the next step of r's handler, or r's answer
  actor,     \* actor[r]: the user r's record names
  orgUsers,  \* rows of organization_users; "by" is the request that wrote it
  stream,    \* stream[t]: the topic's Redis stream
  cursor,    \* cursor[i][t]: last position process i read
  task,      \* task[i][t]: "idle", or the step of the message at the cursor
  tries,     \* tries[i][t]: retries the Retry middleware has made of it
  rows,      \* rows[r][i]: rows process i wrote for r
  poisoned,  \* <<i, r>>: process i published r to "poision.queue"
  closed,    \* session requests whose rows have a logout_at
  \* history and bounds
  from,      \* from[i][t]: the position at which i subscribed
  acked,     \* stored sessions a 200 answer to a logout was about
  faults,
  restarts

procVars == <<proc, serving>>
httpVars == <<pc, actor, orgUsers>>
workVars == <<cursor, task, tries, from>>
rowVars  == <<rows, poisoned>>
outVars  == <<closed, acked>>
vars == <<procVars, httpVars, stream, workVars, rowVars, outVars, faults,
          restarts>>

Running  == {"find", "create", "publish"}
Answered == {"accepted", "rejected", "failed"}
Users    == [uid : STRING, name : STRING]
OrgUsers == [org : STRING, uid : STRING, name : STRING, by : Requests]

ServerTypeOK == /\ proc \in [Instances -> {"up", "draining", "down"}]
                /\ serving \in [Instances -> SUBSET Requests]
                /\ pc \in [Requests -> {"new"} \union Running \union Answered]
                /\ actor \in [Requests -> Users]
                /\ orgUsers \subseteq OrgUsers

WorkTypeOK == /\ stream \in [Topics -> Seq(Requests)]
              /\ cursor \in [Instances -> [Topics -> Nat]]
              /\ from \in [Instances -> [Topics -> Nat]]
              /\ task \in [Instances -> [Topics -> {"idle", "save", "poison"}]]
              /\ tries \in [Instances -> [Topics -> Nat]]

RowTypeOK == /\ rows \in [Requests -> [Instances -> Nat]]
             /\ poisoned \subseteq Instances \X Requests
             /\ closed \subseteq Requests
             /\ acked \subseteq Requests
             /\ faults \in Nat
             /\ restarts \in Nat

TypeOK == ServerTypeOK /\ WorkTypeOK /\ RowTypeOK

Init ==
  /\ proc = [i \in Instances |-> "up"]
  /\ serving = [i \in Instances |-> {}]
  /\ pc = [r \in Requests |-> "new"]
  /\ actor = [r \in Requests |-> [uid |-> Call[r].uid, name |-> Call[r].name]]
  /\ orgUsers = {}
  /\ stream = [t \in Topics |-> << >>]
  /\ cursor = [i \in Instances |-> [t \in Topics |-> 0]]
  /\ from = [i \in Instances |-> [t \in Topics |-> 0]]
  /\ task = [i \in Instances |-> [t \in Topics |-> "idle"]]
  /\ tries = [i \in Instances |-> [t \in Topics |-> 0]]
  /\ rows = [r \in Requests |-> [i \in Instances |-> 0]]
  /\ poisoned = {}
  /\ closed = {}
  /\ acked = {}
  /\ faults = 0
  /\ restarts = 0

Fault == faults < MaxFaults /\ faults' = faults + 1

-------------------------------------------------------------------------------
(* The handlers.                                                           *)

(* Events and audit logs must name a user; sessions need not.              *)
Valid(r) == /\ Call[r].wellFormed
            /\ \/ Call[r].topic = "save_session"
               \/ Call[r].uid # ""
               \/ Call[r].name # ""

(* Of the three handlers only the event handler also looks up by username. *)
FindName(r) == IF Call[r].topic = "save_event" THEN Call[r].name ELSE ""

(* The rows organizationUserRepo.Find can return: a blank field of the     *)
(* options puts no condition on the query.                                 *)
Selected(r) ==
  {u \in orgUsers : /\ u.org = Call[r].org
                    /\ Call[r].uid # "" => u.uid = Call[r].uid
                    /\ FindName(r) # "" => u.name = FindName(r)}

(* The user the record names: event.go and session.go put the request's    *)
(* own values back after the lookup, audit_log.go keeps the row's.         *)
ActorIsRow(r, u) == u     \* variant: the whole row is copied

ActorOf(r, u) == IF Call[r].topic = "save_audit_log"
                 THEN [uid |-> u.uid, name |-> u.name]
                 ELSE [uid |-> Call[r].uid, name |-> Call[r].name]

(* The answer ends the handler: the process no longer serves the request.  *)
AnswerWithoutReturn(i, r, a) == UNCHANGED <<pc, serving>>     \* variant
AnswerSuccessOnly(i, r, a) ==     \* variant: a failure is not rendered
  /\ pc' = [pc EXCEPT ![r] = IF a = "failed" THEN @ ELSE a]
  /\ serving' = [serving EXCEPT ![i] = @ \ {r}]

Answer(i, r, a) == /\ pc' = [pc EXCEPT ![r] = a]
                   /\ serving' = [serving EXCEPT ![i] = @ \ {r}]

(* A process that has not been told to stop takes a new call.              *)
Receive(i, r) ==
  /\ proc[i] = "up"
  /\ pc[r] = "new"
  /\ \/ /\ Valid(r)
        /\ pc' = [pc EXCEPT ![r] = "find"]
        /\ serving' = [serving EXCEPT ![i] = @ \union {r}]
     \/ /\ ~Valid(r)
        /\ Answer(i, r, "rejected")
  /\ UNCHANGED <<proc, actor, orgUsers, stream, workVars, rowVars, outVars,
                 faults, restarts>>

(* No row is not an error: the handler goes on to write one.               *)
MissingSkipped(r) == /\ Selected(r) = {}     \* variant: no row is written
                     /\ pc' = [pc EXCEPT ![r] = "publish"]

Missing(r) == /\ Selected(r) = {}
              /\ pc' = [pc EXCEPT ![r] = "create"]

FindOrgUser(i, r) ==
  /\ r \in serving[i]
  /\ pc[r] = "find"
  /\ \/ /\ \E u \in Selected(r) : actor' = [actor EXCEPT ![r] = ActorOf(r, u)]
        /\ pc' = [pc EXCEPT ![r] = "publish"]
        /\ UNCHANGED <<serving, faults>>
     \/ /\ Missing(r)
        /\ UNCHANGED <<serving, actor, faults>>
     \/ /\ Fault
        /\ Answer(i, r, "failed")
        /\ UNCHANGED actor
  /\ UNCHANGED <<proc, orgUsers, stream, workVars, rowVars, outVars, restarts>>

CreateOrgUser(i, r) ==
  LET row == [org |-> Call[r].org, uid |-> Call[r].uid, name |-> Call[r].name,
              by |-> r]
  IN /\ r \in serving[i]
     /\ pc[r] = "create"
     /\ \/ /\ orgUsers' = orgUsers \union {row}
           /\ pc' = [pc EXCEPT ![r] = "publish"]
           /\ UNCHANGED <<serving, faults>>
        \/ /\ Fault
           /\ Answer(i, r, "failed")
           /\ orgUsers' \in {orgUsers, orgUsers \union {row}}
     /\ UNCHANGED <<proc, actor, stream, workVars, rowVars, outVars, restarts>>

(* queue.Add: one XADD to the topic, then the answer.                      *)
Publish(i, r) ==
  LET added == [stream EXCEPT ![Call[r].topic] = Append(@, r)]
  IN /\ r \in serving[i]
     /\ pc[r] = "publish"
     /\ \/ /\ stream' = added
           /\ Answer(i, r, "accepted")
           /\ UNCHANGED faults
        \/ /\ Fault
           /\ Answer(i, r, "failed")
           /\ stream' \in {stream, added}
     /\ UNCHANGED <<proc, actor, orgUsers, workVars, rowVars, outVars, restarts>>

-------------------------------------------------------------------------------
(* The router's consumers.                                                 *)

Current(i, t) == stream[t][cursor[i][t]]

(* The subscriber hands over the next message once the last is acked.      *)
Deliver(i, t) ==
  /\ proc[i] = "up"
  /\ task[i][t] = "idle"
  /\ cursor[i][t] < Len(stream[t])
  /\ cursor' = [cursor EXCEPT ![i][t] = @ + 1]
  /\ task' = [task EXCEPT ![i][t] = "save"]
  /\ tries' = [tries EXCEPT ![i][t] = 0]
  /\ UNCHANGED <<procVars, httpVars, stream, from, rowVars, outVars, faults,
                 restarts>>

(* saveEvent, saveAuditLog, saveSession: one INSERT, whose row gets a new  *)
(* id.  An error goes to the PoisonQueue middleware.                       *)
OverwriteRows(i, r) ==     \* variant: one row per record, whoever writes it
  rows' = [rows EXCEPT ![r] = [j \in Instances |-> IF j = i THEN 1 ELSE 0]]

AddRow(i, r) == rows' = [rows EXCEPT ![r][i] = @ + 1]

Save(i, t) ==
  /\ task[i][t] = "save"
  /\ \/ /\ AddRow(i, Current(i, t))
        /\ task' = [task EXCEPT ![i][t] = "idle"]
        /\ UNCHANGED faults
     \/ /\ Fault
        /\ task' = [task EXCEPT ![i][t] = "poison"]
        /\ AddRow(i, Current(i, t)) \/ UNCHANGED rows
  /\ UNCHANGED <<procVars, httpVars, stream, cursor, tries, from, poisoned,
                 outVars, restarts>>

(* PoisonQueue sits inside Retry: when its own publish works the error     *)
(* ends there and the message is acked.                                    *)
PoisonSwallowed(i, t) ==     \* variant: the error is logged and dropped
  /\ task' = [task EXCEPT ![i][t] = "idle"]
  /\ UNCHANGED <<poisoned, tries, faults>>

PoisonPublished(i, t) ==
  /\ poisoned' = poisoned \union {<<i, Current(i, t)>>}
  /\ task' = [task EXCEPT ![i][t] = "idle"]
  /\ UNCHANGED <<tries, faults>>

(* Only a failed poison publish reaches Retry, which runs the handler      *)
(* again; when its retries are used up the message is nacked and the       *)
(* subscriber, unless it is closing, sends it again.                       *)
PoisonFailed(i, t) ==
  /\ Fault
  /\ poisoned' \in {poisoned, poisoned \union {<<i, Current(i, t)>>}}
  /\ \/ /\ tries[i][t] < MaxRetries
        /\ tries' = [tries EXCEPT ![i][t] = @ + 1]
        /\ task' = [task EXCEPT ![i][t] = "save"]
     \/ /\ tries[i][t] >= MaxRetries
        /\ tries' = [tries EXCEPT ![i][t] = 0]
        /\ task' = [task EXCEPT ![i][t] =
                      IF proc[i] = "up" THEN "save" ELSE "idle"]

Poison(i, t) ==
  /\ task[i][t] = "poison"
  /\ PoisonPublished(i, t) \/ PoisonFailed(i, t)
  /\ UNCHANGED <<procVars, httpVars, stream, cursor, from, rows, outVars,
                 restarts>>

-------------------------------------------------------------------------------
(* Logging a session out, directly in the table.                           *)

(* The options carry the organization and the token and leave the id at    *)
(* uuid.Nil, whose text is not empty: the id condition is always added.    *)
NilId == "nil"
IdText(id) == IF id = NilId THEN "00000000-0000-0000-0000-000000000000"
              ELSE id
LogoutSelects(r, org, token, id) ==
  /\ Call[r].org = org
  /\ token # "" => Call[r].token = token
  /\ IdText(id) # "" => "generated" = id     \* every row's id is generated

StoredSessions == {r \in Requests : /\ Call[r].topic = "save_session"
                                    /\ \E i \in Instances : rows[r][i] > 0}

Logout(i, org, token) ==
  LET selected == {r \in StoredSessions : LogoutSelects(r, org, token, NilId)}
      meant == {r \in StoredSessions : Call[r].org = org /\ Call[r].token = token}
  IN /\ proc[i] = "up"
     /\ token # ""
     /\ \/ /\ closed' = closed \union selected
           /\ acked' = acked \union meant
           /\ UNCHANGED faults
        \/ /\ Fault          \* 500, whether or not the UPDATE took effect
           /\ closed' \in {closed, closed \union selected}
           /\ UNCHANGED acked
     /\ UNCHANGED <<procVars, httpVars, stream, workVars, rowVars, restarts>>

-------------------------------------------------------------------------------
(* Processes.                                                              *)

(* SIGTERM: the router stops reading and the server stops accepting, while *)
(* the running handlers and consumers go on.                               *)
Terminate(i) ==
  /\ proc[i] = "up"
  /\ proc' = [proc EXCEPT ![i] = "draining"]
  /\ UNCHANGED <<serving, httpVars, stream, workVars, rowVars, outVars, faults,
                 restarts>>

(* The process ends: it crashes, or the drain is over (Shutdown returned   *)
(* or its five seconds passed; nothing waits for the router).              *)
Stop(i) ==
  /\ proc[i] # "down"
  /\ proc' = [proc EXCEPT ![i] = "down"]
  /\ pc' = [r \in Requests |-> IF r \in serving[i] THEN "failed" ELSE pc[r]]
  /\ serving' = [serving EXCEPT ![i] = {}]
  /\ task' = [task EXCEPT ![i] = [t \in Topics |-> "idle"]]
  /\ tries' = [tries EXCEPT ![i] = [t \in Topics |-> 0]]
  /\ UNCHANGED <<actor, orgUsers, stream, cursor, from, rowVars, outVars,
                 faults, restarts>>

(* A new process subscribes at the end of every stream.                    *)
FromTheBeginning(t) == 0     \* variant: the subscriber replays the stream

StartPosition(t) == Len(stream[t])

Start(i) ==
  /\ proc[i] = "down"
  /\ restarts < MaxRestarts
  /\ restarts' = restarts + 1
  /\ proc' = [proc EXCEPT ![i] = "up"]
  /\ cursor' = [cursor EXCEPT ![i] = [t \in Topics |-> StartPosition(t)]]
  /\ from' = [from EXCEPT ![i] = [t \in Topics |-> StartPosition(t)]]
  /\ UNCHANGED <<serving, httpVars, stream, task, tries, rowVars, outVars,
                 faults>>

-------------------------------------------------------------------------------
Handle(i, r) == FindOrgUser(i, r) \/ CreateOrgUser(i, r) \/ Publish(i, r)

Consume(i, t) == Deliver(i, t) \/ Save(i, t) \/ Poison(i, t)

Next ==
  \/ \E i \in Instances, r \in Requests : Receive(i, r) \/ Handle(i, r)
  \/ \E i \in Instances, t \in Topics : Consume(i, t)
  \/ \E i \in Instances, r \in Requests :
        /\ Call[r].topic = "save_session"
        /\ Logout(i, Call[r].org, Call[r].token)
  \/ \E i \in Instances : Terminate(i) \/ Stop(i) \/ Start(i)

Spec == Init /\ [][Next]_vars

(* Goroutines of a running process are scheduled: a handler and a consumer *)
(* that can take a step eventually do.  Nothing makes a process stop,      *)
(* start, fail or receive a call.                                          *)
Fairness == /\ \A i \in Instances, r \in Requests : WF_vars(Handle(i, r))
            /\ \A i \in Instances, t \in Topics : WF_vars(Consume(i, t))

FairSpec == Spec /\ Fairness

-------------------------------------------------------------------------------
(* Properties.                                                             *)

Published == {r \in Requests : \E t \in Topics :
                                   \E p \in DOMAIN stream[t] : stream[t][p] = r}

(* Process i has written the record or dead-lettered it.                   *)
Settled(i, r) == rows[r][i] > 0 \/ <<i, r>> \in poisoned

(* The messages process i read since it subscribed.                        *)
Read(i, t) == (from[i][t] + 1)..cursor[i][t]

(* A record is on the stream at most once, under its own topic, and only   *)
(* after its handler tried to publish it; every 202 answer is about a      *)
(* record that is there, and every row and dead letter comes from one.     *)
(* (queue.Add and the answers around it: a handler that answered before it *)
(* published, or published again, would break it.)                         *)
PublishedOnce ==
  /\ \A t \in Topics : \A p, q \in DOMAIN stream[t] :
        /\ Call[stream[t][p]].topic = t
        /\ stream[t][p] = stream[t][q] => p = q
  /\ \A r \in Published : pc[r] \in {"accepted", "failed"}
  /\ \A r \in Requests : pc[r] = "accepted" => r \in Published
  /\ \A r \in Requests, i \in Instances : Settled(i, r) => r \in Published

(* A running process drops nothing it has read: whatever Postgres and      *)
(* Redis failed at, each message it took off the stream since it           *)
(* subscribed is in the table, in the poison queue, or still in hand.      *)
NothingDropped ==
  \A i \in Instances, t \in Topics :
     proc[i] = "up" =>
       \A p \in Read(i, t) : \/ Settled(i, stream[t][p])
                             \/ p = cursor[i][t] /\ task[i][t] # "idle"

(* Every record on the stream belongs to a user its organization knows:    *)
(* the row the handler found or created agrees with the request wherever   *)
(* the request filled the lookup in, and an audit log names that row's     *)
(* user.  It holds however calls, faults and stops interleave.             *)
UserKnown ==
  \A r \in Published :
     \E u \in Selected(r) :
        Call[r].topic = "save_audit_log" => actor[r] = ActorOf(r, u)

(* A second row of the same record from one process costs two failures: an *)
(* INSERT that took effect but was reported failed, and a failed publish   *)
(* to the poison queue.  One failure alone never duplicates a row.         *)
RowsPaidByFaults ==
  \A i \in Instances, r \in Requests : 2 * rows[r][i] <= faults + 2

(* What a process that stays up owes: each record published since it       *)
(* subscribed.                                                             *)
Owed(i, r) == /\ proc[i] = "up"
              /\ LET t == Call[r].topic
                 IN \E p \in DOMAIN stream[t] : /\ p > from[i][t]
                                                /\ stream[t][p] = r

(* Every call that reaches a handler is answered.                          *)
EveryCallAnswered ==
  \A r \in Requests : pc[r] \in Running ~> pc[r] \in Answered

(* A process that stays up settles every record published since it         *)
(* subscribed, whatever Postgres and Redis fail at on the way.             *)
EventuallySettled ==
  \A i \in Instances, r \in Requests :
     Owed(i, r) ~> (Settled(i, r) \/ proc[i] # "up")

(* The pipeline implements the audit trail's promise: rows and dead        *)
(* letters only grow and only for admitted records, whichever process      *)
(* crashes, drains or restarts on the way.                                 *)
Trail == INSTANCE AuditTrail WITH
           Records <- Requests, Sites <- Instances,
           admitted <- Published,
           answer <- [r \in Requests |->
                        IF pc[r] = "accepted" THEN "accepted"
                        ELSE IF pc[r] \in Answered THEN "refused" ELSE "none"],
           trail <- rows, dead <- poisoned

ImplementsAuditTrail == Trail!ASpec

-------------------------------------------------------------------------------
(* Statements of the repository that the code does not keep.               *)

(* An audit log needs a user id or a username (audit_log.go:49-51); the    *)
(* one that was given is the one the record names.                         *)
ActorKept ==
  \A r \in Published :
     IF Call[r].uid # "" THEN actor[r].uid = Call[r].uid
                         ELSE actor[r].name = Call[r].name

(* "Session logout registered successfully" (session.go:352): a stored     *)
(* session whose logout was answered so has its logout_at.                 *)
LogoutRegistered == acked \subseteq closed

===============================================================================
