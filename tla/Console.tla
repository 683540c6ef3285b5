--------------------------------- MODULE Console -------------------------------
(***************************************************************************)
(* What a request meets on its way to its handler, and the handlers that   *)
(* answer the console: lists by pages, single rows, metrics, API keys,     *)
(* plans and invitations (server/middleware.go, event.go, audit_log.go,    *)
(* session.go, api_key.go, plan.go, invitation.go, and their repositories, *)
(* a statement at a time).                                                 *)
(*                                                                         *)
(* Events, audit logs, sessions and keys are rows that only appear, which  *)
(* other modules do (Ingestion, ApiKeys); so are users and organizations   *)
(* (Accounts).  They are constants here.                                   *)
(***************************************************************************)
EXTENDS Access, Integers

CONSTANTS Clients,
          Users,
          Mine,         \* Mine[u]: the organizations of a user's metadata
          Orgs,         \* organizations, numbered from 1
          Gone,         \* the deleted ones
          Subscribed,   \* the ones with an active subscription
          Rows,
          Data,         \* Data[r]: what a row is
          Names,        \* of plans, not empty; Blank may be one
          Slots,        \* bound: plans, and invitations, ever made
          DefaultPerPage, \* 20
          TopActors,    \* 5
          Inputs        \* the requests that are made

Nobody == "nobody"      \* no valid session token
Kinds == {"event", "audit", "session", "key"}

(* actor: the username or user_id; at: the column a list is ordered by;    *)
(* hit: a filter selects it; fresh: written in the last 24 hours, and of a *)
(* key, not expired.                                                       *)
Datum == [kind : Kinds, org : Orgs, at : Nat, actor : Users \union {"other"},
          hit : BOOLEAN, fresh : BOOLEAN]

(* page, perPage: 0 if the query does not have it, -1 if it is no positive *)
(* number.  filter: "bad" makes Postgres reject the statement, as a date   *)
(* that is none does, or a column that the table does not have.            *)
Input == [route : Routes, user : Users \union {Nobody},
          selected : Orgs \union {None}, ref : Nat,
          page : Int, perPage : Int, filter : {"none", "hit", "bad"},
          name : Names \union {""}, features : BOOLEAN]

ASSUME ConsoleAssumption ==
         /\ Orgs \subseteq Nat \ {0} /\ IsFiniteSet(Orgs)
         /\ Gone \subseteq Orgs /\ Subscribed \subseteq Orgs
         /\ Mine \in [Users -> SUBSET Orgs]
         /\ Rows \subseteq Nat /\ IsFiniteSet(Rows)
         /\ Data \in [Rows -> Datum]
         /\ Slots \subseteq Nat /\ IsFiniteSet(Slots)
         /\ DefaultPerPage \in Nat \ {0} /\ TopActors \in Nat
         /\ Inputs # {}
         /\ Inputs \subseteq Input

VARIABLES
  visible,      \* committed rows
  plans,        \* plans[p]: a row of plans
  invitations,  \* invitations[v]: a row of invitations
  in,           \* in[c]: the request
  pc,           \* pc[c]: what comes next
  user,         \* user[c]: the user of its context, or Nobody
  org,          \* org[c]: the organization of its context, or None
  total,        \* total[c]: the count of the answer
  shown,        \* shown[c]: the rows of the answer
  answer,       \* answer[c]: its status
  \* history
  base,         \* base[c]: the rows that matched when the first page was read
  seen          \* seen[c]: the rows of all pages since then

context == <<user, org>>
result == <<total, shown>>
walk == <<base, seen>>
rows == <<visible, plans, invitations>>
vars == <<visible, plans, invitations, in, pc, user, org, total, shown, answer,
          base, seen>>

States == {"absent", "live", "deleted"}
Steps == {"idle", "user", "key", "organization", "gate", "handler", "second",
          "done"}
Codes == {0, 200, 201, 400, 401, 402, 403, 404, 428, 500}

TypeOK ==
  /\ visible \subseteq Rows
  /\ plans \in [Slots -> [state : States, name : Names \union {""},
                          features : BOOLEAN]]
  /\ invitations \in [Slots -> [state : States, org : Orgs \union {None}]]
  /\ in \in [Clients -> Input]
  /\ pc \in [Clients -> Steps]
  /\ user \in [Clients -> Users \union {Nobody}]
  /\ org \in [Clients -> Orgs \union {None}]
  /\ total \in [Clients -> Nat]
  /\ shown \in [Clients -> SUBSET (Rows \union Slots)]
  /\ answer \in [Clients -> Codes]
  /\ base \in [Clients -> SUBSET Rows]
  /\ seen \in [Clients -> SUBSET Rows]

Init ==
  /\ visible \in SUBSET Rows
  /\ plans = [p \in Slots |->
                [state |-> "absent", name |-> "", features |-> FALSE]]
  /\ invitations = [v \in Slots |-> [state |-> "absent", org |-> None]]
  /\ in = [c \in Clients |-> CHOOSE i \in Inputs : TRUE]
  /\ pc = [c \in Clients |-> "idle"]
  /\ user = [c \in Clients |-> Nobody]
  /\ org = [c \in Clients |-> None]
  /\ total = [c \in Clients |-> 0]
  /\ shown = [c \in Clients |-> {}]
  /\ answer = [c \in Clients |-> 0]
  /\ base = [c \in Clients |-> {}]
  /\ seen = [c \in Clients |-> {}]

(* A consumer inserts a row, or a key is created.  created_at and login_at *)
(* are the server's clock or the sender's: rows need not appear in order.  *)
Insert(r) ==
  /\ r \notin visible
  /\ visible' = visible \union {r}
  /\ UNCHANGED <<plans, invitations, in, pc, context, result, answer, walk>>

-------------------------------------------------------------------------------
(* The request and its context.                                            *)

At(c, step) == pc[c] = step
Goto(c, step) == pc' = [pc EXCEPT ![c] = step] /\ UNCHANGED answer
Answer(c, code) == /\ pc' = [pc EXCEPT ![c] = "done"]
                   /\ answer' = [answer EXCEPT ![c] = code]
Handles(c, handler) == At(c, "handler") /\ in[c].route.handler = handler

Send(c, i) ==
  /\ in' = [in EXCEPT ![c] = i]
  /\ user' = [user EXCEPT ![c] = Nobody]
  /\ org' = [org EXCEPT ![c] = None]
  /\ total' = [total EXCEPT ![c] = 0]
  /\ shown' = [shown EXCEPT ![c] = {}]
  /\ answer' = [answer EXCEPT ![c] = 0]
  /\ pc' = [pc EXCEPT ![c] = IF i.route \in Public THEN "handler"
                             ELSE IF i.route \in ByKey THEN "key" ELSE "user"]
  /\ UNCHANGED rows

Arrive(c, i) ==
  /\ pc[c] \in {"idle", "done"}
  /\ Send(c, i)
  /\ base' = [base EXCEPT ![c] = {}]
  /\ seen' = [seen EXCEPT ![c] = {}]

(* requireAuthentication: the user and the organization to look up.        *)
RequireAuthentication(c) ==
  LET i == in[c]
      found == Resolved(Mine[i.user], i.selected)
  IN /\ At(c, "user")
     /\ \/ /\ i.user = Nobody
           /\ Answer(c, 401)
           /\ UNCHANGED context
        \/ /\ i.user # Nobody
           /\ user' = [user EXCEPT ![c] = i.user]
           /\ \/ /\ SkipsOrganization(i.route)
                 /\ Goto(c, IF i.route \in Gated THEN "gate" ELSE "handler")
                 /\ UNCHANGED org
              \/ /\ ~SkipsOrganization(i.route)
                 /\ \E o \in found : org' = [org EXCEPT ![c] = o]
                 /\ Goto(c, "organization")
              \/ /\ ~SkipsOrganization(i.route)
                 /\ found = {}
                 /\ Answer(c, Refusal(Mine[i.user], i.selected))
                 /\ UNCHANGED org
     /\ UNCHANGED <<rows, in, result, walk>>

(* requireAPIKeyOnly: FetchByValue does not look at the expiry.            *)
FetchByValue(ref) == {r \in visible : r = ref /\ Data[r].kind = "key"}

RequireAPIKeyOnly(c) ==
  /\ At(c, "key")
  /\ \/ /\ \E r \in FetchByValue(in[c].ref) :
             org' = [org EXCEPT ![c] = Data[r].org]
        /\ Goto(c, "organization")
     \/ /\ FetchByValue(in[c].ref) = {}
        /\ Answer(c, 401)
        /\ UNCHANGED org
  /\ UNCHANGED <<rows, in, user, result, walk>>

(* orgRepo.List finds no deleted organization.                             *)
LoadOrganization(c) ==
  /\ At(c, "organization")
  /\ \/ org[c] \in Gone /\ Answer(c, 500)
     \/ /\ org[c] \notin Gone
        /\ Goto(c, IF in[c].route \in Ungated THEN "handler" ELSE "gate")
  /\ UNCHANGED <<rows, in, context, result, walk>>

RequireSubscription(c) ==
  /\ At(c, "gate")
  /\ LET passes == Passes(in[c].route, org[c], org[c] \in Subscribed)
     IN \/ passes /\ Goto(c, "handler")
        \/ ~passes /\ Answer(c, GateRefusal(org[c]))
  /\ UNCHANGED <<rows, in, context, result, walk>>

(* The statement of a handler or of a middleware fails.  The error of the  *)
(* session metrics' second one is dropped (postgres/session.go:146).       *)
StatementFails(c) ==
  /\ pc[c] \in {"user", "key", "organization", "handler", "second"}
  /\ ~(At(c, "second") /\ in[c].route.handler = "session.Metrics")
  /\ Answer(c, 500)
  /\ shown' = [shown EXCEPT ![c] = {}]
  /\ UNCHANGED <<rows, in, context, total, walk>>

(* The handlers that other modules model.                                  *)
Here == {"event.ListAll", "auditLog.ListAll", "session.ListAll", "event.List",
         "auditLog.List", "session.List", "event.Metrics",
         "event.TopActorMetrics", "auditLog.Metrics", "session.Metrics",
         "apiKey.list", "plan.Create", "plan.List", "plan.ListAll",
         "plan.Update", "plan.Delete", "invitation.Create", "invitation.List",
         "invitation.Delete"}

Elsewhere(c) ==
  /\ At(c, "handler")
  /\ in[c].route.handler \notin Here
  /\ Answer(c, 200)
  /\ UNCHANGED <<rows, in, context, result, walk>>

-------------------------------------------------------------------------------
(* Lists by pages (event.go, audit_log.go, session.go).                    *)

(* PaginatorFromRequest gives up at a page that is no positive number.     *)
Paginator(i) ==
  [page |-> IF i.page > 0 THEN i.page ELSE 1,
   perPage |-> IF i.page >= 0 /\ i.perPage > 0 THEN i.perPage
               ELSE DefaultPerPage]
OffsetOfNext(p) == p.page * p.perPage                      \* variant
Offset(p) == (p.page - 1) * p.perPage

(* The WHERE clauses.  Those of the audit logs name no organization.       *)
Selected(i) == {r \in visible : i.filter = "hit" => Data[r].hit}
EventQuery(i, o) ==
  {r \in Selected(i) : Data[r].kind = "event" /\ Data[r].org = o}
AuditQuery(i) == {r \in Selected(i) : Data[r].kind = "audit"}
SessionQuery(i, o) ==
  {r \in Selected(i) : Data[r].kind = "session" /\ Data[r].org = o}

Query(i, o) == CASE i.route.handler = "event.ListAll" -> EventQuery(i, o)
                 [] i.route.handler = "auditLog.ListAll" -> AuditQuery(i)
                 [] i.route.handler = "session.ListAll" -> SessionQuery(i, o)

(* What OFFSET skip LIMIT size may return of a set that is ordered by at,  *)
(* newest first, and not at all among rows of one instant.                 *)
Slice(S, skip, size) ==
  LET Instant(t) == {r \in S : Data[r].at = t}
      before(t) == Cardinality({r \in S : Data[r].at > t})
      places(t) == before(t) + 1 .. before(t) + Cardinality(Instant(t))
  IN {T \in SUBSET S :
        \A t \in {Data[r].at : r \in S} :
          Cardinality(T \intersect Instant(t))
            = Cardinality(places(t) \intersect (skip + 1 .. skip + size))}

(* The two statements of ListAll: the count, ...                           *)
CountAll(c) ==                                             \* variant
  /\ total' = [total EXCEPT ![c] =
       Cardinality(Query([in[c] EXCEPT !.filter = "none"], org[c]))]
  /\ Goto(c, "second")
  /\ UNCHANGED <<rows, in, context, shown, walk>>
CountLeft(c) ==                                            \* variant
  /\ total' = [total EXCEPT ![c] = Cardinality(Query(in[c], org[c]))
                                     - Offset(Paginator(in[c]))]
  /\ Goto(c, "second")
  /\ UNCHANGED <<rows, in, context, shown, walk>>
Count(c) ==
  /\ \/ /\ in[c].filter # "bad"
        /\ total' = [total EXCEPT ![c] = Cardinality(Query(in[c], org[c]))]
        /\ Goto(c, "second")
     \/ /\ in[c].filter = "bad"
        /\ Answer(c, 500)
        /\ UNCHANGED total
  /\ UNCHANGED <<rows, in, context, shown, walk>>

EventListAll(c) == Handles(c, "event.ListAll") /\ Count(c)
AuditLogListAll(c) == Handles(c, "auditLog.ListAll") /\ Count(c)
SessionListAll(c) == Handles(c, "session.ListAll") /\ Count(c)

(* ... and the page.                                                       *)
Page(c) ==
  LET p == Paginator(in[c])
      S == Query(in[c], org[c])
  IN /\ At(c, "second")
     /\ in[c].route.handler # "session.Metrics"
     /\ \E T \in Slice(S, Offset(p), p.perPage) :
          /\ shown' = [shown EXCEPT ![c] = T]
          /\ seen' = [seen EXCEPT ![c] = IF p.page = 1 THEN T ELSE @ \union T]
     /\ base' = [base EXCEPT ![c] = IF p.page = 1 THEN S ELSE @]
     /\ Answer(c, 200)
     /\ UNCHANGED <<rows, in, context, total>>

(* A client asks for the next page while the pages are full.               *)
Full(c) == Cardinality(shown[c]) = Paginator(in[c]).perPage
IsList(i) ==
  i.route.handler \in {"event.ListAll", "auditLog.ListAll", "session.ListAll"}
Walks(c) == /\ At(c, "done")
            /\ answer[c] = 200
            /\ IsList(in[c])

NextPage(c) ==
  /\ Walks(c)
  /\ Full(c)
  /\ in[c].page >= 0
  /\ Send(c, [in[c] EXCEPT !.page = Paginator(in[c]).page + 1])
  /\ UNCHANGED walk

-------------------------------------------------------------------------------
(* Single rows, metrics, keys.                                             *)

(* A statement that selects at most a row, and answers 500 for none.       *)
Show(c, S) ==
  /\ shown' = [shown EXCEPT ![c] = S]
  /\ Answer(c, IF S = {} THEN 500 ELSE 200)
  /\ UNCHANGED <<rows, in, context, total, walk>>

RowOf(kind, c) == {r \in visible : r = in[c].ref /\ Data[r].kind = kind}

EventList(c) ==
  /\ Handles(c, "event.List")
  /\ Show(c, {r \in RowOf("event", c) : Data[r].org = org[c]})
AuditLogList(c) ==
  /\ Handles(c, "auditLog.List")
  /\ Show(c, RowOf("audit", c))

(* The session must be of the console's own user.                          *)
OwnSession(c) == {r \in RowOf("session", c) : /\ Data[r].org = org[c]
                                              /\ Data[r].actor = user[c]}
SessionList(c) == Handles(c, "session.List") /\ Show(c, OwnSession(c))

Fresh(kind, o) == {r \in visible : /\ Data[r].kind = kind
                                   /\ Data[r].org = o
                                   /\ Data[r].fresh}

(* A statement whose answer is rows or their number.                       *)
Fetch(c, S) ==
  /\ total' = [total EXCEPT ![c] = Cardinality(S)]
  /\ Answer(c, 200)
  /\ UNCHANGED <<rows, in, context, walk>>

EventMetrics(c) == /\ Handles(c, "event.Metrics")
                   /\ Fetch(c, Fresh("event", org[c]))
                   /\ UNCHANGED shown
AuditLogMetrics(c) == /\ Handles(c, "auditLog.Metrics")
                      /\ Fetch(c, Fresh("audit", org[c]))
                      /\ UNCHANGED shown

(* The rows of the actors with the most rows, TopActors of them at most.   *)
Top(S) ==
  LET actors == {Data[r].actor : r \in S}
      Of(a) == {r \in S : Data[r].actor = a}
  IN {T \in SUBSET S :
        LET listed == {Data[r].actor : r \in T}
        IN /\ T = UNION {Of(a) : a \in listed}
           /\ Cardinality(listed) <= TopActors
           /\ \A a \in actors \ listed :
                /\ Cardinality(listed) = TopActors
                /\ \A b \in listed : Cardinality(Of(a)) <= Cardinality(Of(b))}

EventTopActorMetrics(c) ==
  /\ Handles(c, "event.TopActorMetrics")
  /\ \E T \in Top(Fresh("event", org[c])) :
       /\ Fetch(c, {Data[r].actor : r \in T})
       /\ shown' = [shown EXCEPT ![c] = T]

(* Two counts: of all the rows, and of those whose user, name and token    *)
(* are all NULL.  No code writes such a row: an empty string is none.      *)
SessionMetrics(c) ==
  /\ Handles(c, "session.Metrics")
  /\ total' = [total EXCEPT ![c] = Cardinality(Fresh("session", org[c]))]
  /\ Goto(c, "second")
  /\ UNCHANGED <<rows, in, context, shown, walk>>
SuspiciousCount(c) ==
  /\ At(c, "second")
  /\ in[c].route.handler = "session.Metrics"
  /\ Answer(c, 200)
  /\ UNCHANGED <<rows, in, context, result, walk>>

APIKeyList(c) ==
  LET S == Fresh("key", org[c])
  IN /\ Handles(c, "apiKey.list")
     /\ Fetch(c, S)
     /\ shown' = [shown EXCEPT ![c] = S]

-------------------------------------------------------------------------------
(* Plans (server/plan.go): a name is unique, deleted plans included.       *)

Named(n) == \E p \in Slots : plans[p].name = n
Live(table) == {x \in Slots : table[x].state = "live"}
Unused(table) == {x \in Slots : table[x].state = "absent"}

PlanCreate(c) ==
  LET i == in[c]
  IN /\ Handles(c, "plan.Create")
     /\ \/ IsStringEmpty(i.name) /\ Answer(c, 400) /\ UNCHANGED plans
        \/ /\ ~IsStringEmpty(i.name) /\ Named(i.name)
           /\ Answer(c, 500)
           /\ UNCHANGED plans
        \/ /\ ~IsStringEmpty(i.name) /\ ~Named(i.name)
           /\ \E p \in Unused(plans) :
                plans' = [plans EXCEPT ![p] =
                  [state |-> "live", name |-> i.name, features |-> i.features]]
           /\ Answer(c, 201)
     /\ UNCHANGED <<visible, invitations, in, context, result, walk>>

PlanOf(c) == {p \in Live(plans) : p = in[c].ref}
PlanList(c) == Handles(c, "plan.List") /\ Show(c, PlanOf(c))

PlanListAll(c) ==
  /\ Handles(c, "plan.ListAll")
  /\ Fetch(c, Live(plans))
  /\ shown' = [shown EXCEPT ![c] = Live(plans)]

(* UPDATE with OmitZero: a name of no characters is left out, and a blank  *)
(* one is written like any other, for nothing validates the request.  The  *)
(* features are never left out: the handler makes a slice of them, which   *)
(* is not nil.                                                             *)
Patched(plan, i) ==
  [plan EXCEPT !.name = IF i.name = "" THEN @ ELSE i.name,
               !.features = i.features]

(* A plan that is not there is answered like one that is.                  *)
PlanUpdate(c) ==
  LET i == in[c]
      found == PlanOf(c)
      taken == i.name # "" /\ \E p \in Slots \ {i.ref} : plans[p].name = i.name
  IN /\ Handles(c, "plan.Update")
     /\ \/ /\ ~(found # {} /\ taken)
           /\ plans' = [p \in Slots |-> IF p \in found THEN Patched(plans[p], i)
                                        ELSE plans[p]]
           /\ Answer(c, 200)
        \/ found # {} /\ taken /\ Answer(c, 500) /\ UNCHANGED plans
     /\ UNCHANGED <<visible, invitations, in, context, result, walk>>

PlanDelete(c) ==
  /\ Handles(c, "plan.Delete")
  /\ plans' = [p \in Slots |-> IF p \in PlanOf(c)
                               THEN [plans[p] EXCEPT !.state = "deleted"]
                               ELSE plans[p]]
  /\ Answer(c, 200)
  /\ UNCHANGED <<visible, invitations, in, context, result, walk>>

-------------------------------------------------------------------------------
(* Invitations (server/invitation.go): no code takes them up.              *)

InvitationCreate(c) ==
  /\ Handles(c, "invitation.Create")
  /\ \/ /\ IsStringEmpty(in[c].name)    \* of the invited person
        /\ Answer(c, 400)
        /\ UNCHANGED invitations
     \/ /\ ~IsStringEmpty(in[c].name)
        /\ \E v \in Unused(invitations) :
             invitations' = [invitations EXCEPT ![v] =
                               [state |-> "live", org |-> org[c]]]
        /\ Answer(c, 201)
  /\ UNCHANGED <<visible, plans, in, context, result, walk>>

OfOrganization(o) == {v \in Live(invitations) : invitations[v].org = o}

InvitationList(c) ==
  /\ Handles(c, "invitation.List")
  /\ Fetch(c, OfOrganization(org[c]))
  /\ shown' = [shown EXCEPT ![c] = OfOrganization(org[c])]

ById(c) == {v \in Live(invitations) : v = in[c].ref}       \* variant
Deletable(c) == {v \in OfOrganization(org[c]) : v = in[c].ref}
InvitationDelete(c) ==
  /\ Handles(c, "invitation.Delete")
  /\ invitations' = [v \in Slots |->
                       IF v \in Deletable(c)
                         THEN [invitations[v] EXCEPT !.state = "deleted"]
                         ELSE invitations[v]]
  /\ Answer(c, 200)
  /\ UNCHANGED <<visible, plans, in, context, result, walk>>

-------------------------------------------------------------------------------
Middleware(c) == \/ RequireAuthentication(c) \/ RequireAPIKeyOnly(c)
                 \/ LoadOrganization(c) \/ RequireSubscription(c)
                 \/ StatementFails(c)

Handler(c) ==
  \/ EventListAll(c) \/ AuditLogListAll(c) \/ SessionListAll(c) \/ Page(c)
  \/ EventList(c) \/ AuditLogList(c) \/ SessionList(c)
  \/ EventMetrics(c) \/ EventTopActorMetrics(c) \/ AuditLogMetrics(c)
  \/ SessionMetrics(c) \/ SuspiciousCount(c) \/ APIKeyList(c)
  \/ PlanCreate(c) \/ PlanList(c) \/ PlanListAll(c) \/ PlanUpdate(c)
  \/ PlanDelete(c)
  \/ InvitationCreate(c) \/ InvitationList(c) \/ InvitationDelete(c)
  \/ Elsewhere(c)

Next == \/ \E r \in Rows : Insert(r)
        \/ \E c \in Clients : \/ \E i \in Inputs : Arrive(c, i)
                              \/ NextPage(c) \/ Middleware(c) \/ Handler(c)

Spec == Init /\ [][Next]_vars

-------------------------------------------------------------------------------
(* Properties.                                                             *)

(* A handler never meets a context without the value it asserts to be      *)
(* there (middleware.go:67 and 85 panic): what the routes of http.go, the  *)
(* paths that skip the organization and the paths that skip the gate let   *)
(* through is enough for every handler behind them.                        *)
NeedsUser == {"apiKey.create", "apiKey.revoke", "createOrg", "edit", "me",
              "session.List"}
NeedsNoOrganization ==
  {"createOrg", "edit", "me", "plan.Create", "plan.List", "plan.Update",
   "plan.Delete"} \union {rt.handler : rt \in Public}
HandlerHasContext ==
  \A c \in Clients :
    At(c, "handler") =>
      /\ in[c].route.handler \in NeedsUser => user[c] # Nobody
      /\ in[c].route.handler \notin NeedsNoOrganization => org[c] # None

(* A client that asks for page after page until one is not full has been   *)
(* shown every row that matched at the first (event.go:150): rows that are *)
(* inserted meanwhile repeat rows, and hide none.  Rows that share their   *)
(* instant have no order, and are excepted.                                *)
Alone(r) == \A q \in visible \ {r} : Data[q].at # Data[r].at
PagesMissNothing ==
  \A c \in Clients :
    Walks(c) /\ ~Full(c) /\ base[c] # {} =>
      \A r \in base[c] : Alone(r) => r \in seen[c]

(* The total that comes with a page, from a statement of its own, promises *)
(* no row after the last page (event.go:138-157).                          *)
TotalReached ==
  \A c \in Clients :
    Walks(c) /\ ~Full(c) =>
      Offset(Paginator(in[c])) + Cardinality(shown[c]) >= total[c]

(* The events, sessions and keys of an answer are of an organization of    *)
(* the user who asks, whichever organization the header selects            *)
(* (middleware.go:125-149).                                                *)
ListedAreMine ==
  \A c \in Clients :
    /\ At(c, "done")
    /\ in[c].route.handler \notin {"plan.List", "plan.ListAll",
                                   "invitation.List"}
    => \A r \in shown[c] :
         Data[r].kind = "audit" \/ Data[r].org \in Mine[in[c].user]

(* Only a member of its organization deletes an invitation                 *)
(* (postgres/invitation.go:47-69).                                         *)
InvitationsStay ==
  [][\A v \in Slots :
       invitations[v].state = "live" /\ invitations'[v].state = "deleted" =>
         \E c \in Clients : /\ Handles(c, "invitation.Delete")
                            /\ invitations[v].org \in Mine[in[c].user]]_vars
===============================================================================
