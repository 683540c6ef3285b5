----------------------------- MODULE ConsoleProofs -----------------------------
(***************************************************************************)
(* Proofs about Console for every set of clients, users, organizations,    *)
(* rows and requests: type correctness, that a handler finds what it needs *)
(* in its context, that lists show rows of the user's own organizations,   *)
(* that only its organization deletes an invitation, and that a walk over  *)
(* pages hides no row and its total promises none.                         *)
(***************************************************************************)
EXTENDS Console, FiniteLemmas

LEMMA SetsFinite ==
  /\ \A S \in SUBSET Rows : IsFiniteSet(S) /\ Cardinality(S) \in Nat
  /\ \A S \in SUBSET Slots : IsFiniteSet(S) /\ Cardinality(S) \in Nat
  BY ConsoleAssumption, FS_Subset, FS_CardinalityType

LEMMA DataTypes ==
  ASSUME NEW r \in Rows
  PROVE /\ Data[r].kind \in Kinds /\ Data[r].org \in Orgs
        /\ Data[r].org # None /\ Data[r].at \in Nat
  BY ConsoleAssumption DEF Datum, None

LEMMA InputTypes ==
  ASSUME NEW i \in Input
  PROVE /\ i.route \in Routes /\ i.user \in Users \union {Nobody}
        /\ i.selected \in Orgs \union {None} /\ i.page \in Int
        /\ i.perPage \in Int /\ i.name \in Names \union {""}
        /\ i.features \in BOOLEAN
  BY DEF Input

(* The organization of a context is one of the user's.                     *)
LEMMA ResolvedIsMine ==
  ASSUME NEW u \in Users, NEW s
  PROVE /\ Resolved(Mine[u], s) \subseteq Mine[u]
        /\ Resolved(Mine[u], s) \subseteq Orgs
        /\ None \notin Resolved(Mine[u], s)
  BY ConsoleAssumption DEF Resolved, None

(* And there is one at most.                                               *)
LEMMA ResolvedIsOne ==
  ASSUME NEW u \in Users, NEW s, NEW o \in Resolved(Mine[u], s),
         NEW q \in Resolved(Mine[u], s)
  PROVE o = q
  <1>1. IsFiniteSet(Mine[u])
    BY ConsoleAssumption, FS_Subset
  <1>2. CASE s \in Mine[u]
    BY <1>2 DEF Resolved
  <1>3. CASE s \notin Mine[u]
    <2>1. Cardinality(Mine[u]) = 1 /\ o \in Mine[u] /\ q \in Mine[u]
      BY <1>3 DEF Resolved
    <2>2. QED
      BY <1>1, <2>1, FS_Singleton
  <1>4. QED
    BY <1>2, <1>3

LEMMA PaginatorType ==
  ASSUME NEW i \in Input
  PROVE /\ Paginator(i).page \in Nat \ {0}
        /\ Paginator(i).perPage \in Nat \ {0}
        /\ Offset(Paginator(i)) \in Nat
  <1>0. /\ i.page \in Int /\ i.perPage \in Int
        /\ DefaultPerPage \in Nat \ {0}
    BY InputTypes, ConsoleAssumption
  <1>1. Paginator(i).page \in Nat \ {0} /\ Paginator(i).perPage \in Nat \ {0}
    BY <1>0 DEF Paginator
  <1>2. ASSUME NEW a \in Nat \ {0}, NEW b \in Nat PROVE (a - 1) * b \in Nat
    OBVIOUS
  <1>3. QED
    BY <1>1, <1>2 DEF Offset

-------------------------------------------------------------------------------
(* The route table.                                                        *)

(* A path that is skipped by no middleware, whatever its method.           *)
Plain(p) ==
  \/ \E a : p = <<a>> /\ a # "organizations"
  \/ \E a, b : p = <<a, b>> /\ b # "connect"
  \/ \E a, b, c : p = <<a, b, c>> /\ b # "connect" /\ c # "me"
  \/ \E a, b, c, d : p = <<a, b, c, d>> /\ b # "connect"

LEMMA PlainPaths ==
  /\ \A a : a # "organizations" => Plain(<<a>>)
  /\ \A a, b : b # "connect" => Plain(<<a, b>>)
  /\ \A a, b, c : b # "connect" /\ c # "me" => Plain(<<a, b, c>>)
  /\ \A a, b, c, d : b # "connect" => Plain(<<a, b, c, d>>)
  BY DEF Plain

LEMMA PlainNeedsOrganization ==
  ASSUME NEW rt, Plain(rt.path) PROVE ~SkipsOrganization(rt)
  <1> DEFINE p == rt.path
  <1>1. ASSUME NEW a, NEW b, p = <<a, b>> PROVE SubSeq(p, 1, 2)[2] = b
    BY <1>1
  <1>2. ASSUME NEW a, NEW b, NEW c, p = <<a, b, c>>
        PROVE SubSeq(p, 1, 2)[2] = b
    BY <1>2
  <1>3. ASSUME NEW a, NEW b, NEW c, NEW d, p = <<a, b, c, d>>
        PROVE SubSeq(p, 1, 2)[2] = b
    BY <1>3
  <1>4. ASSUME NEW a, p = <<a>> PROVE ~(Len(p) > 1)
    BY <1>4
  <1>5. <<"auth", "connect">>[2] = "connect"
    OBVIOUS
  <1>6. ~(Len(p) > 1 /\ SubSeq(p, 1, 2) = <<"auth", "connect">>)
    BY <1>1, <1>2, <1>3, <1>4, <1>5 DEF Plain
  <1>7. p # <<"organizations">> /\ p # <<"auth", "account", "me">>
    BY DEF Plain
  <1>8. QED
    BY <1>6, <1>7 DEF SkipsOrganization

LEMMA RouteFields ==
  \A m, p, h : /\ R(m, p, h).method = m /\ R(m, p, h).path = p
               /\ R(m, p, h).handler = h
  BY DEF R

LEMMA GatedPaths ==
  ASSUME NEW rt \in Gated
  PROVE \/ rt.handler \in {"createOrg", "me"}
        \/ rt.path = <<"organizations">> /\ rt.method # "POST"
        \/ Plain(rt.path)
  <1>1. \A m, p, h : Plain(p) => Plain(R(m, p, h).path)
    BY RouteFields
  <1>2. \A m, p : /\ R(m, p, "me").handler = "me"
                  /\ R(m, p, "createOrg").handler = "createOrg"
    BY RouteFields
  <1>3. /\ Plain(<<"auth", "account", "invite">>)
        /\ Plain(<<"auth", "account", "users">>)
        /\ Plain(<<"auth", "account", "revoke", "ref">>)
        /\ Plain(<<"auth", "account", "edit">>)
        /\ Plain(<<"audit-logs">>) /\ Plain(<<"audit-logs", "ref">>)
        /\ Plain(<<"events">>) /\ Plain(<<"events", "ref">>)
        /\ Plain(<<"sessions">>) /\ Plain(<<"sessions", "ref">>)
        /\ Plain(<<"invitations">>) /\ Plain(<<"invitations", "ref">>)
        /\ Plain(<<"developers", "keys">>)
        /\ Plain(<<"developers", "keys", "ref">>)
    BY PlainPaths
  <1>4. Plain(<<"organizations", "">>)
    BY PlainPaths, Zenon
  <1>5. \A m, h : m # "POST" => /\ R(m, <<"organizations">>, h).method # "POST"
                               /\ R(m, <<"organizations">>, h).path
                                    = <<"organizations">>
    BY RouteFields
  <1>6. "PATCH" # "POST" /\ "DELETE" # "POST"
    OBVIOUS
  <1>7. QED
    BY <1>1, <1>2, <1>3, <1>4, <1>5, <1>6, ZenonT(60) DEF Gated

LEMMA OtherPaths ==
  ASSUME NEW rt \in Ungated \union ByKey PROVE Plain(rt.path)
  BY RouteFields, PlainPaths, SMTT(60) DEF Ungated, ByKey

(* What is let through without an organization can do without one.         *)
LEMMA SkippingRoutes ==
  ASSUME NEW rt \in Gated \union Ungated \union ByKey, SkipsOrganization(rt)
  PROVE rt.handler \in {"createOrg", "me"}
  <1>1. ~Plain(rt.path)
    BY PlainNeedsOrganization
  <1>2. rt \in Gated
    BY <1>1, OtherPaths
  <1>3. SUFFICES ASSUME rt.path = <<"organizations">>, rt.method # "POST"
                 PROVE FALSE
    BY <1>1, <1>2, GatedPaths
  <1>4. Len(rt.path) = 1
    BY <1>3
  <1>5. rt.path # <<"auth", "account", "me">>
    BY <1>3
  <1>6. QED
    BY <1>3, <1>4, <1>5 DEF SkipsOrganization

LEMMA OpenRoutes ==
  /\ \A rt \in Public : rt.handler \in {"login", "signup", "reset", "forgot",
                                        "plan.ListAll"}
  /\ \A rt \in ByKey : rt.handler \notin Here
  /\ \A rt \in Public \union ByKey : rt.handler \notin NeedsUser
  <1>1. ASSUME NEW rt \in Public
        PROVE rt.handler \in {"login", "signup", "reset", "forgot",
                              "plan.ListAll"}
    BY SMTT(60) DEF Public, R
  <1>2. ASSUME NEW rt \in ByKey PROVE rt.handler \notin Here
    BY SMTT(60) DEF ByKey, Here, R
  <1>3. ASSUME NEW rt \in Public \union ByKey PROVE rt.handler \notin NeedsUser
    BY SMTT(60) DEF Public, ByKey, NeedsUser, R
  <1>4. QED
    BY <1>1, <1>2, <1>3

LEMMA RoutesApart ==
  /\ (Public \union ByKey) \intersect (Gated \union Ungated) = {}
  /\ Public \intersect ByKey = {}
  <1>1. (Public \union ByKey) \intersect (Gated \union Ungated) = {}
    BY SMTT(60) DEF Public, Gated, Ungated, ByKey, R
  <1>2. Public \intersect ByKey = {}
    BY SMTT(60) DEF Public, ByKey, R
  <1>3. QED
    BY <1>1, <1>2

-------------------------------------------------------------------------------
(* Type correctness.                                                       *)

Plan == [state : States, name : Names \union {""}, features : BOOLEAN]
Invitation == [state : States, org : Orgs \union {None}]

(* The parts of the state that a step of a request may write.              *)
ContextType == /\ user \in [Clients -> Users \union {Nobody}]
               /\ org \in [Clients -> Orgs \union {None}]
ResultType == /\ total \in [Clients -> Nat]
              /\ shown \in [Clients -> SUBSET (Rows \union Slots)]
PlaceType == /\ pc \in [Clients -> Steps]
             /\ answer \in [Clients -> Codes]
TablesType == /\ plans \in [Slots -> Plan]
              /\ invitations \in [Slots -> Invitation]
WalkType == /\ base \in [Clients -> SUBSET Rows]
            /\ seen \in [Clients -> SUBSET Rows]

LEMMA TypeParts ==
  TypeOK <=> /\ visible \subseteq Rows /\ in \in [Clients -> Input]
             /\ ContextType /\ ResultType /\ PlaceType /\ TablesType /\ WalkType
  BY DEF TypeOK, ContextType, ResultType, PlaceType, TablesType, WalkType, Plan,
         Invitation

LEMMA TypePartsPrimed ==
  TypeOK' <=> /\ visible' \subseteq Rows /\ in' \in [Clients -> Input]
              /\ ContextType' /\ ResultType' /\ PlaceType' /\ TablesType'
              /\ WalkType'
  BY DEF TypeOK, ContextType, ResultType, PlaceType, TablesType, WalkType, Plan,
         Invitation

(* A request goes on or is answered.                                       *)
LEMMA MovesOn ==
  ASSUME PlaceType, NEW c \in Clients,
         \/ \E step \in Steps : Goto(c, step)
         \/ \E code \in Codes : Answer(c, code)
  PROVE PlaceType'
  BY DEF PlaceType, Goto, Answer, Steps

LEMMA InitTypeOK == Init => TypeOK
  <1> SUFFICES ASSUME Init PROVE TypeOK
    OBVIOUS
  <1>1. (CHOOSE i \in Inputs : TRUE) \in Input
    BY ConsoleAssumption
  <1>2. in \in [Clients -> Input] /\ visible \subseteq Rows
    BY <1>1 DEF Init
  <1>3. ContextType /\ ResultType /\ PlaceType /\ WalkType
    BY DEF Init, ContextType, ResultType, PlaceType, WalkType, Steps, Codes
  <1>4. TablesType
    BY DEF Init, TablesType, Plan, Invitation, States
  <1>5. QED
    BY <1>2, <1>3, <1>4, TypeParts

LEMMA SendType ==
  ASSUME TypeOK, NEW c \in Clients, NEW i \in Input, Send(c, i), WalkType'
  PROVE TypeOK'
  <1>1. /\ visible \subseteq Rows /\ in \in [Clients -> Input]
        /\ ContextType /\ ResultType /\ PlaceType /\ TablesType
    BY TypeParts
  <1>2. visible' \subseteq Rows /\ TablesType'
    BY <1>1 DEF Send, rows, TablesType
  <1>3. in' \in [Clients -> Input]
    BY <1>1 DEF Send
  <1>4. ContextType'
    BY <1>1 DEF Send, ContextType
  <1>5. ResultType'
    BY <1>1 DEF Send, ResultType
  <1>6. PlaceType'
    <2>1. PICK step \in Steps : pc' = [pc EXCEPT ![c] = step]
      BY DEF Send, Steps
    <2>2. answer' = [answer EXCEPT ![c] = 0] /\ 0 \in Codes
      BY DEF Send, Codes
    <2>3. QED
      BY <1>1, <2>1, <2>2 DEF PlaceType
  <1>7. QED
    BY <1>2, <1>3, <1>4, <1>5, <1>6, TypePartsPrimed

(* Where a request may go from the middlewares.                            *)
LEMMA MiddlewareMoves ==
  ASSUME NEW c \in Clients, Middleware(c)
  PROVE \/ \E step \in Steps : Goto(c, step)
        \/ \E code \in Codes \ {200} : Answer(c, code)
  <1>1. /\ {"gate", "handler", "organization"} \subseteq Steps
        /\ {401, 500} \subseteq Codes \ {200}
        /\ GateRefusal(org[c]) \in Codes \ {200}
        /\ Refusal(Mine[in[c].user], in[c].selected) \in Codes \ {200}
    BY DEF Steps, Codes, GateRefusal, Refusal
  <1>2. CASE RequireAuthentication(c)
    <2>1. \/ Answer(c, 401) \/ Goto(c, "gate") \/ Goto(c, "handler")
          \/ Goto(c, "organization")
          \/ Answer(c, Refusal(Mine[in[c].user], in[c].selected))
      BY <1>2 DEF RequireAuthentication
    <2>2. QED
      BY <1>1, <2>1
  <1>3. CASE RequireAPIKeyOnly(c)
    BY <1>1, <1>3 DEF RequireAPIKeyOnly
  <1>4. CASE LoadOrganization(c)
    <2>1. Answer(c, 500) \/ Goto(c, "gate") \/ Goto(c, "handler")
      BY <1>4 DEF LoadOrganization
    <2>2. QED
      BY <1>1, <2>1
  <1>5. CASE RequireSubscription(c)
    <2>1. Goto(c, "handler") \/ Answer(c, GateRefusal(org[c]))
      BY <1>5 DEF RequireSubscription
    <2>2. QED
      BY <1>1, <2>1
  <1>6. CASE StatementFails(c)
    BY <1>1, <1>6 DEF StatementFails
  <1>7. QED
    BY <1>2, <1>3, <1>4, <1>5, <1>6 DEF Middleware

(* What a middleware leaves alone, and what it puts into the context.      *)
LEMMA MiddlewareFrame ==
  ASSUME NEW c \in Clients, Middleware(c)
  PROVE /\ UNCHANGED <<visible, plans, invitations, in, total, base, seen>>
        /\ shown' = shown \/ shown' = [shown EXCEPT ![c] = {}]
        /\ \/ user' = user
           \/ in[c].user # Nobody /\ user' = [user EXCEPT ![c] = in[c].user]
        /\ \/ org' = org
           \/ \E o \in Resolved(Mine[in[c].user], in[c].selected) :
                in[c].user # Nobody /\ org' = [org EXCEPT ![c] = o]
           \/ \E r \in FetchByValue(in[c].ref) :
                org' = [org EXCEPT ![c] = Data[r].org]
  <1> USE DEF rows, result, walk, context
  <1>1. CASE RequireAuthentication(c)
    BY <1>1 DEF RequireAuthentication
  <1>2. CASE RequireAPIKeyOnly(c)
    BY <1>2 DEF RequireAPIKeyOnly
  <1>3. CASE LoadOrganization(c) \/ RequireSubscription(c)
    BY <1>3 DEF LoadOrganization, RequireSubscription
  <1>4. CASE StatementFails(c)
    BY <1>4 DEF StatementFails
  <1>5. QED
    BY <1>1, <1>2, <1>3, <1>4 DEF Middleware

LEMMA MiddlewareType ==
  ASSUME TypeOK, NEW c \in Clients, Middleware(c) PROVE TypeOK'
  <1>1. /\ visible \subseteq Rows /\ in \in [Clients -> Input]
        /\ ContextType /\ ResultType /\ PlaceType /\ TablesType /\ WalkType
        /\ in[c].user \in Users \union {Nobody}
    BY TypeParts, InputTypes
  <1>2. /\ visible' \subseteq Rows /\ in' \in [Clients -> Input]
        /\ TablesType' /\ WalkType'
    BY <1>1, MiddlewareFrame DEF TablesType, WalkType
  <1>3. ResultType'
    BY <1>1, MiddlewareFrame DEF ResultType
  <1>4. PlaceType'
    BY <1>1, MiddlewareMoves, MovesOn
  <1>5. ContextType'
    <2>1. user' \in [Clients -> Users \union {Nobody}]
      BY <1>1, MiddlewareFrame DEF ContextType
    <2>2. ASSUME NEW o \in Resolved(Mine[in[c].user], in[c].selected),
                 in[c].user # Nobody
          PROVE o \in Orgs
      BY <1>1, <2>2, ResolvedIsMine
    <2>3. \A r \in FetchByValue(in[c].ref) : Data[r].org \in Orgs
      BY <1>1, DataTypes DEF FetchByValue
    <2>4. org' \in [Clients -> Orgs \union {None}]
      BY <1>1, <2>2, <2>3, MiddlewareFrame DEF ContextType
    <2>5. QED
      BY <2>1, <2>4 DEF ContextType
  <1>6. QED
    BY <1>2, <1>3, <1>4, <1>5, TypePartsPrimed

(* The statement of a page follows the count of a list.                    *)
SecondFollows ==
  \A c \in Clients :
    At(c, "second") =>
      IsList(in[c]) \/ in[c].route.handler = "session.Metrics"

(* The handlers of lists, and what their statements select.                *)
LEMMA QueryRows ==
  ASSUME NEW i, NEW o, IsList(i)
  PROVE Query(i, o) \subseteq visible
  BY DEF IsList, Query, EventQuery, AuditQuery, SessionQuery, Selected

(* What the handlers of a request leave alone, and where it goes.          *)
LEMMA HandlerFrame ==
  ASSUME NEW c \in Clients, Handler(c)
  PROVE /\ UNCHANGED <<visible, in, user, org>>
        /\ At(c, "handler") \/ At(c, "second")
        /\ \/ /\ At(c, "handler") /\ Goto(c, "second") /\ UNCHANGED shown
              /\ IsList(in[c]) \/ in[c].route.handler = "session.Metrics"
           \/ \E code \in Codes : Answer(c, code)
        /\ Page(c) \/ UNCHANGED walk
  <1> USE DEF rows, context, result, walk
  <1>0. {200, 201, 400, 500} \subseteq Codes
    BY DEF Codes
  <1>1. CASE EventListAll(c) \/ AuditLogListAll(c) \/ SessionListAll(c)
    <2>1. IsList(in[c])
      BY <1>1 DEF EventListAll, AuditLogListAll, SessionListAll, Handles, IsList
    <2>2. At(c, "handler") /\ Count(c)
      BY <1>1 DEF EventListAll, AuditLogListAll, SessionListAll, Handles
    <2>3. QED
      BY <1>0, <2>1, <2>2 DEF Count
  <1>2. CASE Page(c)
    BY <1>0, <1>2 DEF Page
  <1>3. CASE EventList(c) \/ AuditLogList(c) \/ SessionList(c) \/ PlanList(c)
    <2>1. At(c, "handler") /\ \E S : Show(c, S)
      BY <1>3 DEF EventList, AuditLogList, SessionList, PlanList, Handles
    <2>2. QED
      BY <1>0, <2>1 DEF Show
  <1>4. CASE \/ EventMetrics(c) \/ EventTopActorMetrics(c) \/ AuditLogMetrics(c)
             \/ APIKeyList(c) \/ PlanListAll(c) \/ InvitationList(c)
    <2>1. At(c, "handler") /\ \E S : Fetch(c, S)
      BY <1>4 DEF EventMetrics, EventTopActorMetrics, AuditLogMetrics,
                  APIKeyList, PlanListAll, InvitationList, Handles
    <2>2. QED
      BY <1>0, <2>1 DEF Fetch
  <1>5. CASE SessionMetrics(c)
    BY <1>5 DEF SessionMetrics, Handles
  <1>6. CASE SuspiciousCount(c) \/ Elsewhere(c)
    BY <1>0, <1>6 DEF SuspiciousCount, Elsewhere
  <1>7. CASE PlanCreate(c) \/ PlanUpdate(c) \/ PlanDelete(c)
    <2>1. /\ At(c, "handler")
          /\ Answer(c, 200) \/ Answer(c, 201) \/ Answer(c, 400)
               \/ Answer(c, 500)
      BY <1>7 DEF PlanCreate, PlanUpdate, PlanDelete, Handles
    <2>2. UNCHANGED <<visible, in, user, org, walk>>
      BY <1>7 DEF PlanCreate, PlanUpdate, PlanDelete
    <2>3. QED
      BY <1>0, <2>1, <2>2
  <1>8. CASE InvitationCreate(c) \/ InvitationDelete(c)
    BY <1>0, <1>8 DEF InvitationCreate, InvitationDelete, Handles
  <1>9. QED
    BY <1>1, <1>2, <1>3, <1>4, <1>5, <1>6, <1>7, <1>8 DEF Handler

(* Which tables the handlers write.                                        *)
LEMMA HandlerWrites ==
  ASSUME NEW c \in Clients, Handler(c)
  PROVE /\ PlanCreate(c) \/ PlanUpdate(c) \/ PlanDelete(c) \/ UNCHANGED plans
        /\ InvitationCreate(c) \/ InvitationDelete(c) \/ UNCHANGED invitations
  <1> USE DEF rows
  <1>1. CASE EventListAll(c) \/ AuditLogListAll(c) \/ SessionListAll(c)
    BY <1>1 DEF EventListAll, AuditLogListAll, SessionListAll, Count
  <1>2. CASE \/ EventList(c) \/ AuditLogList(c) \/ SessionList(c) \/ PlanList(c)
             \/ Page(c)
    BY <1>2 DEF EventList, AuditLogList, SessionList, PlanList, Show, Page
  <1>3. CASE \/ EventMetrics(c) \/ EventTopActorMetrics(c) \/ AuditLogMetrics(c)
             \/ APIKeyList(c) \/ PlanListAll(c) \/ InvitationList(c)
    BY <1>3 DEF EventMetrics, EventTopActorMetrics, AuditLogMetrics, APIKeyList,
                PlanListAll, InvitationList, Fetch
  <1>4. CASE SessionMetrics(c) \/ SuspiciousCount(c) \/ Elsewhere(c)
    BY <1>4 DEF SessionMetrics, SuspiciousCount, Elsewhere
  <1>5. CASE PlanCreate(c) \/ PlanUpdate(c) \/ PlanDelete(c)
    BY <1>5 DEF PlanCreate, PlanUpdate, PlanDelete
  <1>6. CASE InvitationCreate(c) \/ InvitationDelete(c)
    BY <1>6 DEF InvitationCreate, InvitationDelete
  <1>7. QED
    BY <1>1, <1>2, <1>3, <1>4, <1>5, <1>6 DEF Handler

(* The lists of other tables than the rows'.                               *)
Tables == {"plan.List", "plan.ListAll", "invitation.List"}

(* A handler shows rows of the organization of its context, audit logs     *)
(* apart, whose statement names none.                                      *)
LEMMA HandlerShows ==
  ASSUME TypeOK, SecondFollows, NEW c \in Clients, Handler(c)
  PROVE \/ UNCHANGED shown
        \/ \E S \in SUBSET (Rows \union Slots) :
             /\ shown' = [shown EXCEPT ![c] = S]
             /\ in[c].route.handler \in Here
             /\ \/ in[c].route.handler \in Tables
                \/ \A r \in S : /\ r \in Rows
                                /\ \/ Data[r].kind = "audit"
                                   \/ Data[r].org = org[c]
  <1> DEFINE Mines(S) ==
        \A r \in S : r \in Rows /\ (Data[r].kind = "audit"
                                    \/ Data[r].org = org[c])
  <1>0. visible \subseteq Rows
    BY DEF TypeOK
  <1>1. CASE EventListAll(c) \/ AuditLogListAll(c) \/ SessionListAll(c)
    BY <1>1 DEF EventListAll, AuditLogListAll, SessionListAll, Count
  <1>2. CASE Page(c)
    <2>1. IsList(in[c]) /\ in[c].route.handler \in Here
      BY <1>2 DEF Page, SecondFollows, At, IsList, Here
    <2>2. Query(in[c], org[c]) \subseteq Rows
      BY <1>0, <2>1, QueryRows
    <2>3. Mines(Query(in[c], org[c]))
      BY <2>1, <2>2
         DEF IsList, Query, EventQuery, AuditQuery, SessionQuery
    <2>4. PICK S \in Slice(Query(in[c], org[c]), Offset(Paginator(in[c])),
                           Paginator(in[c]).perPage) :
            shown' = [shown EXCEPT ![c] = S]
      BY <1>2 DEF Page
    <2>5. S \subseteq Query(in[c], org[c])
      BY DEF Slice
    <2>6. QED
      BY <2>1, <2>2, <2>3, <2>4, <2>5
  <1>3. CASE EventList(c) \/ AuditLogList(c) \/ SessionList(c)
    <2>1. PICK S : /\ S \subseteq visible /\ shown' = [shown EXCEPT ![c] = S]
                   /\ Mines(S)
      BY <1>0, <1>3 DEF EventList, AuditLogList, SessionList, Show, RowOf,
                        OwnSession
    <2>2. in[c].route.handler \in Here
      BY <1>3 DEF EventList, AuditLogList, SessionList, Handles, Here
    <2>3. QED
      BY <1>0, <2>1, <2>2
  <1>4. CASE EventMetrics(c) \/ AuditLogMetrics(c)
    BY <1>4 DEF EventMetrics, AuditLogMetrics
  <1>5. CASE EventTopActorMetrics(c)
    <2>1. PICK S \in Top(Fresh("event", org[c])) :
            shown' = [shown EXCEPT ![c] = S]
      BY <1>5 DEF EventTopActorMetrics
    <2>2. S \subseteq Fresh("event", org[c])
      BY DEF Top
    <2>3. S \subseteq Rows /\ Mines(S)
      BY <1>0, <2>2 DEF Fresh
    <2>4. in[c].route.handler \in Here
      BY <1>5 DEF EventTopActorMetrics, Handles, Here
    <2>5. QED
      BY <2>1, <2>3, <2>4
  <1>6. CASE APIKeyList(c)
    <2>1. shown' = [shown EXCEPT ![c] = Fresh("key", org[c])]
      BY <1>6 DEF APIKeyList
    <2>2. Fresh("key", org[c]) \subseteq Rows /\ Mines(Fresh("key", org[c]))
      BY <1>0 DEF Fresh
    <2>3. in[c].route.handler \in Here
      BY <1>6 DEF APIKeyList, Handles, Here
    <2>4. QED
      BY <2>1, <2>2, <2>3
  <1>7. CASE PlanList(c) \/ PlanListAll(c) \/ InvitationList(c)
    <2>1. \E S \in SUBSET Slots : shown' = [shown EXCEPT ![c] = S]
      BY <1>7 DEF PlanList, PlanListAll, InvitationList, Show, PlanOf, Live,
                  OfOrganization
    <2>2. in[c].route.handler \in Here \intersect Tables
      BY <1>7 DEF PlanList, PlanListAll, InvitationList, Handles, Here, Tables
    <2>3. QED
      BY <2>1, <2>2
  <1>8. CASE SessionMetrics(c) \/ SuspiciousCount(c) \/ Elsewhere(c)
    BY <1>8 DEF SessionMetrics, SuspiciousCount, Elsewhere, result
  <1>9. CASE PlanCreate(c) \/ PlanUpdate(c) \/ PlanDelete(c)
    BY <1>9 DEF PlanCreate, PlanUpdate, PlanDelete, result
  <1>10. CASE InvitationCreate(c) \/ InvitationDelete(c)
    BY <1>10 DEF InvitationCreate, InvitationDelete, result
  <1>11. QED
    BY <1>1, <1>2, <1>3, <1>4, <1>5, <1>6, <1>7, <1>8, <1>9, <1>10 DEF Handler

LEMMA HandlerCounts ==
  ASSUME TypeOK, NEW c \in Clients, Handler(c)
  PROVE \/ UNCHANGED total
        \/ \E n \in Nat : total' = [total EXCEPT ![c] = n]
  <1>0. visible \subseteq Rows
    BY DEF TypeOK
  <1>1. ASSUME NEW S \in SUBSET Rows, Fetch(c, S)
        PROVE \E n \in Nat : total' = [total EXCEPT ![c] = n]
    BY <1>1, SetsFinite DEF Fetch
  <1>2. ASSUME NEW S \in SUBSET Slots, Fetch(c, S)
        PROVE \E n \in Nat : total' = [total EXCEPT ![c] = n]
    BY <1>2, SetsFinite DEF Fetch
  <1>3. \A kind, o : Fresh(kind, o) \in SUBSET Rows
    BY <1>0 DEF Fresh
  <1>4. CASE EventListAll(c) \/ AuditLogListAll(c) \/ SessionListAll(c)
    <2>1. IsList(in[c])
      BY <1>4 DEF EventListAll, AuditLogListAll, SessionListAll, Handles, IsList
    <2>2. Query(in[c], org[c]) \in SUBSET Rows
      BY <1>0, <2>1, QueryRows
    <2>3. Cardinality(Query(in[c], org[c])) \in Nat
      BY <2>2, SetsFinite
    <2>4. Count(c)
      BY <1>4 DEF EventListAll, AuditLogListAll, SessionListAll
    <2>5. QED
      BY <2>3, <2>4 DEF Count
  <1>5. CASE Page(c) \/ EventList(c) \/ AuditLogList(c) \/ SessionList(c)
             \/ PlanList(c)
    BY <1>5 DEF Page, EventList, AuditLogList, SessionList, PlanList, Show
  <1>6. CASE EventMetrics(c) \/ AuditLogMetrics(c) \/ APIKeyList(c)
    BY <1>1, <1>3, <1>6 DEF EventMetrics, AuditLogMetrics, APIKeyList
  <1>7. CASE EventTopActorMetrics(c)
    <2>1. PICK T \in Top(Fresh("event", org[c])) :
            Fetch(c, {Data[r].actor : r \in T})
      BY <1>7 DEF EventTopActorMetrics
    <2>2. IsFiniteSet(T)
      BY <1>3, SetsFinite DEF Top
    <2>3. Cardinality({Data[r].actor : r \in T}) \in Nat
      <3> DEFINE actor == [r \in T |-> Data[r].actor]
      <3>1. {Data[r].actor : r \in T} = {actor[r] : r \in T}
        OBVIOUS
      <3>2. IsFiniteSet({actor[r] : r \in T})
        <4> HIDE DEF actor
        <4>1. QED
          BY <2>2, ImageOfFinite
      <3>3. QED
        BY <3>1, <3>2, FS_CardinalityType
    <2>4. QED
      BY <2>1, <2>3 DEF Fetch
  <1>8. CASE PlanListAll(c) \/ InvitationList(c)
    BY <1>2, <1>8 DEF PlanListAll, InvitationList, Live, OfOrganization
  <1>9. CASE SessionMetrics(c)
    <2>1. Cardinality(Fresh("session", org[c])) \in Nat
      BY <1>3, SetsFinite
    <2>2. QED
      BY <1>9, <2>1 DEF SessionMetrics
  <1>10. CASE SuspiciousCount(c) \/ Elsewhere(c)
    BY <1>10 DEF SuspiciousCount, Elsewhere, result
  <1>11. CASE PlanCreate(c) \/ PlanUpdate(c) \/ PlanDelete(c)
    BY <1>11 DEF PlanCreate, PlanUpdate, PlanDelete, result
  <1>12. CASE InvitationCreate(c) \/ InvitationDelete(c)
    BY <1>12 DEF InvitationCreate, InvitationDelete, result
  <1>13. QED
    BY <1>4, <1>5, <1>6, <1>7, <1>8, <1>9, <1>10, <1>11, <1>12 DEF Handler

LEMMA HandlerTables ==
  ASSUME NEW c \in Clients, Handler(c), TablesType, in[c] \in Input,
         org[c] \in Orgs \union {None}
  PROVE TablesType'
  <1>0. /\ in[c].name \in Names \union {""} /\ in[c].features \in BOOLEAN
        /\ {"live", "deleted"} \subseteq States
        /\ plans \in [Slots -> Plan] /\ invitations \in [Slots -> Invitation]
    BY InputTypes DEF States, TablesType
  <1>1. plans' \in [Slots -> Plan]
    <2>1. CASE PlanCreate(c)
      <3>1. [state |-> "live", name |-> in[c].name,
             features |-> in[c].features] \in Plan
        BY <1>0 DEF Plan
      <3>2. QED
        BY <1>0, <2>1, <3>1 DEF PlanCreate, Unused
    <2>2. CASE PlanUpdate(c)
      <3>1. \A p \in Slots : Patched(plans[p], in[c]) \in Plan
        BY <1>0 DEF Plan, Patched
      <3>2. QED
        BY <1>0, <2>2, <3>1 DEF PlanUpdate
    <2>3. CASE PlanDelete(c)
      <3>1. \A p \in Slots : [plans[p] EXCEPT !.state = "deleted"] \in Plan
        BY <1>0 DEF Plan
      <3>2. QED
        BY <1>0, <2>3, <3>1 DEF PlanDelete
    <2>4. QED
      BY <1>0, <2>1, <2>2, <2>3, HandlerWrites
  <1>2. invitations' \in [Slots -> Invitation]
    <2>1. CASE InvitationCreate(c)
      <3>1. [state |-> "live", org |-> org[c]] \in Invitation
        BY <1>0 DEF Invitation
      <3>2. QED
        BY <1>0, <2>1, <3>1 DEF InvitationCreate, Unused
    <2>2. CASE InvitationDelete(c)
      <3>1. \A v \in Slots :
              [invitations[v] EXCEPT !.state = "deleted"] \in Invitation
        BY <1>0 DEF Invitation
      <3>2. QED
        BY <1>0, <2>2, <3>1 DEF InvitationDelete
    <2>3. QED
      BY <1>0, <2>1, <2>2, HandlerWrites
  <1>3. QED
    BY <1>1, <1>2 DEF TablesType

LEMMA HandlerType ==
  ASSUME TypeOK, SecondFollows, NEW c \in Clients, Handler(c)
  PROVE TypeOK'
  <1>1. /\ visible \subseteq Rows /\ in \in [Clients -> Input]
        /\ ContextType /\ ResultType /\ PlaceType /\ TablesType /\ WalkType
        /\ in[c] \in Input /\ org[c] \in Orgs \union {None}
    BY TypeParts DEF ContextType
  <1>2. /\ visible' \subseteq Rows /\ in' \in [Clients -> Input]
        /\ ContextType'
    BY <1>1, HandlerFrame DEF ContextType
  <1>3. ResultType'
    BY <1>1, HandlerShows, HandlerCounts DEF ResultType
  <1>4. PlaceType'
    BY <1>1, HandlerFrame, MovesOn DEF Steps
  <1>5. TablesType'
    BY <1>1, HandlerTables
  <1>6. WalkType'
    <2>1. CASE Page(c)
      <3>1. IsList(in[c])
        BY <2>1 DEF Page, SecondFollows, At
      <3>2. Query(in[c], org[c]) \in SUBSET Rows
        BY <1>1, <3>1, QueryRows
      <3>3. \A T \in Slice(Query(in[c], org[c]), Offset(Paginator(in[c])),
                           Paginator(in[c]).perPage) : T \in SUBSET Rows
        BY <3>2 DEF Slice
      <3>4. QED
        BY <1>1, <2>1, <3>2, <3>3 DEF Page, WalkType
    <2>2. CASE UNCHANGED walk
      BY <1>1, <2>2 DEF walk, WalkType
    <2>3. QED
      BY <2>1, <2>2, HandlerFrame
  <1>7. QED
    BY <1>2, <1>3, <1>4, <1>5, <1>6, TypePartsPrimed

(* The request for a next page, and the places a request starts at.        *)
LEMMA NextPageInput ==
  ASSUME NEW i \in Input
  PROVE [i EXCEPT !.page = Paginator(i).page + 1] \in Input
  <1>1. Paginator(i).page + 1 \in Int
    BY PaginatorType
  <1>2. QED
    BY <1>1 DEF Input

LEMMA SendPlace ==
  ASSUME PlaceType, NEW c \in Clients, NEW i, Send(c, i)
  PROVE /\ pc'[c] \in {"handler", "key", "user"}
        /\ \A d \in Clients \ {c} : pc'[d] = pc[d]
  BY DEF Send, PlaceType

(* The steps of the system, for a proof about each.                        *)
LEMMA StepCases ==
  ASSUME [Next]_vars
  PROVE \/ \E r \in Rows : Insert(r)
        \/ \E c \in Clients, i \in Inputs : Arrive(c, i)
        \/ \E c \in Clients : NextPage(c)
        \/ \E c \in Clients : Middleware(c)
        \/ \E c \in Clients : Handler(c)
        \/ UNCHANGED vars
  BY DEF Next

TypeInv == TypeOK /\ SecondFollows

LEMMA TypeStep ==
  ASSUME TypeInv, [Next]_vars PROVE TypeInv'
  <1>1. /\ TypeOK /\ SecondFollows /\ WalkType
        /\ visible \subseteq Rows /\ in \in [Clients -> Input]
        /\ pc \in [Clients -> Steps] /\ PlaceType
    BY TypeParts DEF TypeInv, PlaceType
  <1>2. ASSUME NEW r \in Rows, Insert(r) PROVE TypeInv'
    <2>1. visible' \subseteq Rows
      BY <1>1, <1>2 DEF Insert
    <2>2. UNCHANGED <<plans, invitations, in, pc, user, org, total, shown,
                      answer, base, seen>>
      BY <1>2 DEF Insert, context, result, walk
    <2>3. TypeOK'
      BY <1>1, <2>1, <2>2 DEF TypeOK
    <2>4. SecondFollows'
      BY <1>1, <2>2 DEF SecondFollows, At
    <2>5. QED
      BY <2>3, <2>4 DEF TypeInv
  <1>3. ASSUME NEW c \in Clients, NEW i \in Input, Send(c, i), WalkType'
        PROVE TypeInv'
    <2>1. TypeOK'
      BY <1>1, <1>3, SendType
    <2>2. /\ pc'[c] # "second" /\ \A d \in Clients \ {c} : pc'[d] = pc[d]
          /\ \A d \in Clients \ {c} : in'[d] = in[d]
      BY <1>1, <1>3, SendPlace DEF Send
    <2>3. SecondFollows'
      BY <1>1, <2>2 DEF SecondFollows, At, IsList
    <2>4. QED
      BY <2>1, <2>3 DEF TypeInv
  <1>4. ASSUME NEW c \in Clients, NEW i \in Inputs, Arrive(c, i) PROVE TypeInv'
    <2>1. i \in Input /\ Send(c, i)
      BY <1>4, ConsoleAssumption DEF Arrive
    <2>2. WalkType'
      BY <1>1, <1>4 DEF Arrive, WalkType
    <2>3. QED
      BY <1>3, <2>1, <2>2
  <1>5. ASSUME NEW c \in Clients, NextPage(c) PROVE TypeInv'
    <2>1. in[c] \in Input
      BY <1>1
    <2>2. [in[c] EXCEPT !.page = Paginator(in[c]).page + 1] \in Input
      BY <2>1, NextPageInput
    <2>3. WalkType'
      BY <1>1, <1>5 DEF NextPage, walk, WalkType
    <2>4. Send(c, [in[c] EXCEPT !.page = Paginator(in[c]).page + 1])
      BY <1>5 DEF NextPage
    <2>5. QED
      BY <1>3, <2>2, <2>3, <2>4
  <1>6. ASSUME NEW c \in Clients, Middleware(c) PROVE TypeInv'
    <2>1. TypeOK'
      BY <1>1, <1>6, MiddlewareType
    <2>2. in' = in
      BY <1>6, MiddlewareFrame
    <2>3. pc'[c] # "second" /\ \A d \in Clients \ {c} : pc'[d] = pc[d]
      BY <1>1, <1>6
         DEF Middleware, RequireAuthentication, RequireAPIKeyOnly,
             LoadOrganization, RequireSubscription, StatementFails, Goto, Answer
    <2>4. SecondFollows'
      BY <1>1, <2>2, <2>3 DEF SecondFollows, At
    <2>5. QED
      BY <2>1, <2>4 DEF TypeInv
  <1>7. ASSUME NEW c \in Clients, Handler(c) PROVE TypeInv'
    <2>1. TypeOK'
      BY <1>1, <1>7, HandlerType
    <2>2. in' = in /\ \A d \in Clients \ {c} : pc'[d] = pc[d]
      BY <1>1, <1>7, HandlerFrame DEF Goto, Answer
    <2>3. pc'[c] = "second" =>
            IsList(in[c]) \/ in[c].route.handler = "session.Metrics"
      BY <1>1, <1>7, HandlerFrame DEF Answer
    <2>4. SecondFollows'
      BY <1>1, <2>2, <2>3 DEF SecondFollows, At
    <2>5. QED
      BY <2>1, <2>4 DEF TypeInv
  <1>8. CASE UNCHANGED vars
    BY <1>1, <1>8 DEF vars, TypeInv, TypeOK, SecondFollows, At
  <1>9. QED
    BY <1>2, <1>4, <1>5, <1>6, <1>7, <1>8, StepCases

LEMMA TypeInvAlways == Spec => []TypeInv
  <1>1. Init => TypeInv
    BY InitTypeOK DEF Init, TypeInv, SecondFollows, At
  <1>2. TypeInv /\ [Next]_vars => TypeInv'
    BY TypeStep
  <1>3. QED
    BY <1>1, <1>2, PTL DEF Spec

(* Every variable of the console keeps its type, whatever requests arrive, *)
(* in whatever order their statements interleave with new rows             *)
(* (server/middleware.go and the handlers of the lists).                   *)
THEOREM TypeCorrect == Spec => []TypeOK
  <1>1. TypeInv => TypeOK
    BY DEF TypeInv
  <1>2. QED
    BY <1>1, TypeInvAlways, PTL

-------------------------------------------------------------------------------
(* The context of a request.                                               *)

(* A step of a client leaves the others alone.                             *)
LEMMA OthersStay ==
  ASSUME TypeInv, NEW c \in Clients, NEW d \in Clients, d # c,
         \/ \E i \in Inputs : Arrive(c, i)
         \/ NextPage(c)
         \/ Middleware(c)
         \/ Handler(c)
  PROVE /\ in'[d] = in[d] /\ pc'[d] = pc[d] /\ user'[d] = user[d]
        /\ org'[d] = org[d] /\ total'[d] = total[d] /\ shown'[d] = shown[d]
        /\ answer'[d] = answer[d] /\ base'[d] = base[d] /\ seen'[d] = seen[d]
  <1>1. /\ TypeOK /\ SecondFollows
        /\ in \in [Clients -> Input]
        /\ pc \in [Clients -> Steps] /\ answer \in [Clients -> Codes]
        /\ user \in [Clients -> Users \union {Nobody}]
        /\ org \in [Clients -> Orgs \union {None}]
        /\ total \in [Clients -> Nat]
        /\ shown \in [Clients -> SUBSET (Rows \union Slots)]
        /\ base \in [Clients -> SUBSET Rows]
        /\ seen \in [Clients -> SUBSET Rows]
    BY DEF TypeInv, TypeOK
  <1>2. ASSUME NEW i, Send(c, i)
        PROVE /\ in'[d] = in[d] /\ pc'[d] = pc[d] /\ user'[d] = user[d]
              /\ org'[d] = org[d] /\ total'[d] = total[d]
              /\ shown'[d] = shown[d] /\ answer'[d] = answer[d]
    BY <1>1, <1>2 DEF Send
  <1>3. CASE \E i \in Inputs : Arrive(c, i)
    BY <1>1, <1>2, <1>3 DEF Arrive
  <1>4. CASE NextPage(c)
    BY <1>1, <1>2, <1>4 DEF NextPage, walk
  <1>5. CASE Middleware(c)
    <2>1. pc'[d] = pc[d] /\ answer'[d] = answer[d]
      BY <1>1, <1>5, MiddlewareMoves DEF Goto, Answer
    <2>2. QED
      BY <1>1, <1>5, <2>1, MiddlewareFrame
  <1>6. CASE Handler(c)
    <2>1. pc'[d] = pc[d] /\ answer'[d] = answer[d]
      BY <1>1, <1>6, HandlerFrame DEF Goto, Answer
    <2>2. total'[d] = total[d]
      BY <1>1, <1>6, HandlerCounts
    <2>3. shown'[d] = shown[d]
      BY <1>1, <1>6, HandlerShows
    <2>4. base'[d] = base[d] /\ seen'[d] = seen[d]
      BY <1>1, <1>6, HandlerFrame DEF Page, walk
    <2>5. QED
      BY <1>6, <2>1, <2>2, <2>3, <2>4, HandlerFrame
  <1>7. QED
    BY <1>3, <1>4, <1>5, <1>6

(* The routes behind requireAuthentication.                                *)
Inside == Gated \union Ungated

(* Where a request can be that came by its route ...                       *)
PlaceOf(c) ==
  /\ in[c].route \in Public =>
       org[c] = None /\ pc[c] \in {"idle", "handler", "second", "done"}
  /\ pc[c] = "user" => in[c].route \in Inside /\ org[c] = None
  /\ pc[c] = "key" => in[c].route \in ByKey

(* ... and what its context holds there.                                   *)
ContextOf(c) ==
  /\ pc[c] = "organization" => org[c] # None
  /\ pc[c] \in {"gate", "handler", "second"} /\ org[c] = None =>
       in[c].route \in Public \/ SkipsOrganization(in[c].route)
  /\ /\ pc[c] \in {"organization", "gate", "handler", "second"}
     /\ in[c].route \in Inside
     => user[c] # Nobody
  /\ org[c] # None /\ in[c].route \in Inside =>
       /\ in[c].user \in Users
       /\ org[c] \in Resolved(Mine[in[c].user], in[c].selected)

(* The rows of an answer, of the organization in the context.              *)
AnswerOf(c) ==
  /\ pc[c] # "done" => shown[c] = {}
  /\ \A r \in shown[c] :
       /\ in[c].route.handler \in Here
       /\ \/ in[c].route.handler \in Tables
          \/ r \in Rows /\ (Data[r].kind = "audit" \/ Data[r].org = org[c])

ContextInv ==
  TypeInv /\ \A c \in Clients : PlaceOf(c) /\ ContextOf(c) /\ AnswerOf(c)

LEMMA SendContext ==
  ASSUME TypeInv, NEW c \in Clients, NEW i \in Input, Send(c, i)
  PROVE PlaceOf(c)' /\ ContextOf(c)' /\ AnswerOf(c)'
  <1>1. /\ in \in [Clients -> Input] /\ pc \in [Clients -> Steps]
        /\ user \in [Clients -> Users \union {Nobody}]
        /\ org \in [Clients -> Orgs \union {None}]
        /\ shown \in [Clients -> SUBSET (Rows \union Slots)]
    BY DEF TypeInv, TypeOK
  <1>2. /\ in'[c] = i /\ org'[c] = None /\ user'[c] = Nobody /\ shown'[c] = {}
        /\ pc'[c] = IF i.route \in Public THEN "handler"
                    ELSE IF i.route \in ByKey THEN "key" ELSE "user"
    BY <1>1 DEF Send
  <1>3. i.route \in Public \union ByKey \union Inside
    BY InputTypes DEF Routes, Inside
  <1>4. i.route \in Public => i.route \notin Inside
    BY RoutesApart DEF Inside
  <1>5. PlaceOf(c)'
    BY <1>2, <1>3, RoutesApart DEF PlaceOf
  <1>6. ContextOf(c)'
    BY <1>2, <1>4 DEF ContextOf
  <1>7. AnswerOf(c)'
    BY <1>2 DEF AnswerOf
  <1>8. QED
    BY <1>5, <1>6, <1>7

LEMMA MiddlewareContext ==
  ASSUME ContextInv, NEW c \in Clients, Middleware(c)
  PROVE PlaceOf(c)' /\ ContextOf(c)' /\ AnswerOf(c)'
  <1>1. /\ in \in [Clients -> Input] /\ pc \in [Clients -> Steps]
        /\ user \in [Clients -> Users \union {Nobody}]
        /\ org \in [Clients -> Orgs \union {None}]
        /\ shown \in [Clients -> SUBSET (Rows \union Slots)]
        /\ visible \subseteq Rows
    BY DEF ContextInv, TypeInv, TypeOK
  <1>2. /\ PlaceOf(c) /\ ContextOf(c) /\ AnswerOf(c)
        /\ in[c].user \in Users \union {Nobody}
    BY <1>1, InputTypes DEF ContextInv
  <1>3. in' = in
    BY MiddlewareFrame
  <1>4. AnswerOf(c)'
    <2>1. pc[c] # "done"
      BY DEF Middleware, RequireAuthentication, RequireAPIKeyOnly,
             LoadOrganization, RequireSubscription, StatementFails, At
    <2>2. shown'[c] = {}
      BY <1>1, <1>2, <2>1, MiddlewareFrame DEF AnswerOf
    <2>3. QED
      BY <2>2 DEF AnswerOf
  <1>5. CASE RequireAuthentication(c)
    <2>1. /\ in[c].route \in Inside /\ in[c].route \notin Public
          /\ in[c].route \notin ByKey /\ org[c] = None
      BY <1>2, <1>5, RoutesApart DEF RequireAuthentication, At, PlaceOf, Inside
    <2>2. CASE in[c].user = Nobody
      <3>1. pc'[c] = "done" /\ org'[c] = None
        BY <1>1, <1>5, <2>1, <2>2
           DEF RequireAuthentication, Answer, context
      <3>2. QED
        BY <1>3, <1>4, <2>1, <3>1 DEF PlaceOf, ContextOf
    <2>3. CASE in[c].user # Nobody
      <3>1. in[c].user \in Users /\ user'[c] # Nobody
        BY <1>1, <1>2, <1>5, <2>3 DEF RequireAuthentication, context
      <3>2. \/ /\ SkipsOrganization(in[c].route) /\ org' = org
               /\ Goto(c, "gate") \/ Goto(c, "handler")
            \/ /\ Goto(c, "organization")
               /\ \E o \in Resolved(Mine[in[c].user], in[c].selected) :
                    org' = [org EXCEPT ![c] = o]
            \/ /\ org' = org
               /\ \E code : Answer(c, code)
        BY <1>5, <2>3 DEF RequireAuthentication
      <3>3. CASE SkipsOrganization(in[c].route) /\ org' = org
                 /\ (Goto(c, "gate") \/ Goto(c, "handler"))
        <4>1. pc'[c] \in {"gate", "handler"} /\ org'[c] = None
          BY <1>1, <2>1, <3>3 DEF Goto
        <4>2. QED
          BY <1>3, <1>4, <2>1, <3>1, <3>3, <4>1 DEF PlaceOf, ContextOf
      <3>4. CASE /\ Goto(c, "organization")
                 /\ \E o \in Resolved(Mine[in[c].user], in[c].selected) :
                      org' = [org EXCEPT ![c] = o]
        <4>1. PICK o \in Resolved(Mine[in[c].user], in[c].selected) :
                org' = [org EXCEPT ![c] = o]
          BY <3>4
        <4>2. o # None
          BY <3>1, ResolvedIsMine
        <4>3. pc'[c] = "organization" /\ org'[c] = o
          BY <1>1, <3>4, <4>1 DEF Goto
        <4>4. QED
          BY <1>3, <1>4, <2>1, <3>1, <4>1, <4>2, <4>3 DEF PlaceOf, ContextOf
      <3>5. CASE org' = org /\ \E code : Answer(c, code)
        <4>1. pc'[c] = "done" /\ org'[c] = None
          BY <1>1, <2>1, <3>5 DEF Answer
        <4>2. QED
          BY <1>3, <1>4, <2>1, <4>1 DEF PlaceOf, ContextOf
      <3>6. QED
        BY <3>2, <3>3, <3>4, <3>5
    <2>4. QED
      BY <2>2, <2>3
  <1>6. CASE RequireAPIKeyOnly(c)
    <2>1. /\ in[c].route \in ByKey /\ in[c].route \notin Public
          /\ in[c].route \notin Inside
      BY <1>2, <1>6, RoutesApart DEF RequireAPIKeyOnly, At, PlaceOf, Inside
    <2>2. \/ pc'[c] = "organization" /\ org'[c] # None
          \/ pc'[c] = "done"
      <3>1. CASE \E r \in FetchByValue(in[c].ref) :
                   org' = [org EXCEPT ![c] = Data[r].org]
                   /\ Goto(c, "organization")
        BY <1>1, <3>1, DataTypes DEF FetchByValue, Goto
      <3>2. CASE Answer(c, 401)
        BY <1>1, <3>2 DEF Answer
      <3>3. QED
        BY <1>6, <3>1, <3>2 DEF RequireAPIKeyOnly
    <2>3. QED
      BY <1>3, <1>4, <2>1, <2>2 DEF PlaceOf, ContextOf
  <1>7. CASE LoadOrganization(c)
    <2>1. org' = org /\ user' = user /\ pc[c] = "organization"
      BY <1>7 DEF LoadOrganization, context, At
    <2>2. pc'[c] \in {"gate", "handler", "done"}
      BY <1>1, <1>7 DEF LoadOrganization, Goto, Answer
    <2>3. QED
      BY <1>2, <1>3, <1>4, <2>1, <2>2 DEF PlaceOf, ContextOf
  <1>8. CASE RequireSubscription(c)
    <2>1. org' = org /\ user' = user /\ pc[c] = "gate"
      BY <1>8 DEF RequireSubscription, context, At
    <2>2. pc'[c] \in {"handler", "done"}
      BY <1>1, <1>8 DEF RequireSubscription, Goto, Answer
    <2>3. QED
      BY <1>2, <1>3, <1>4, <2>1, <2>2 DEF PlaceOf, ContextOf
  <1>9. CASE StatementFails(c)
    <2>1. org' = org /\ user' = user /\ pc'[c] = "done"
      BY <1>1, <1>9 DEF StatementFails, context, Answer
    <2>2. QED
      BY <1>2, <1>3, <1>4, <2>1 DEF PlaceOf, ContextOf
  <1>10. QED
    BY <1>5, <1>6, <1>7, <1>8, <1>9 DEF Middleware

LEMMA HandlerContext ==
  ASSUME ContextInv, NEW c \in Clients, Handler(c)
  PROVE PlaceOf(c)' /\ ContextOf(c)' /\ AnswerOf(c)'
  <1>1. /\ pc \in [Clients -> Steps] /\ TypeOK /\ SecondFollows
        /\ shown \in [Clients -> SUBSET (Rows \union Slots)]
        /\ PlaceOf(c) /\ ContextOf(c) /\ AnswerOf(c)
    BY DEF ContextInv, TypeInv, TypeOK
  <1>2. /\ in' = in /\ org' = org /\ user' = user
        /\ pc[c] \in {"handler", "second"}
    BY HandlerFrame DEF At
  <1>3. pc'[c] = "second" \/ pc'[c] = "done"
    BY <1>1, HandlerFrame DEF Goto, Answer
  <1>4. PlaceOf(c)' /\ ContextOf(c)'
    BY <1>1, <1>2, <1>3 DEF PlaceOf, ContextOf
  <1>5. shown[c] = {}
    BY <1>1, <1>2 DEF AnswerOf
  <1>6. pc'[c] # "done" => shown'[c] = {}
    BY <1>1, <1>5, HandlerFrame DEF Answer
  <1>7. AnswerOf(c)'
    BY <1>1, <1>2, <1>5, <1>6, HandlerShows DEF AnswerOf
  <1>8. QED
    BY <1>4, <1>7

LEMMA ContextStep ==
  ASSUME ContextInv, [Next]_vars PROVE ContextInv'
  <1>1. /\ TypeInv /\ TypeInv'
        /\ \A c \in Clients : PlaceOf(c) /\ ContextOf(c) /\ AnswerOf(c)
    BY TypeStep DEF ContextInv
  <1>2. ASSUME NEW c \in Clients, PlaceOf(c)', ContextOf(c)', AnswerOf(c)',
               \/ \E i \in Inputs : Arrive(c, i)
               \/ NextPage(c)
               \/ Middleware(c)
               \/ Handler(c)
        PROVE ContextInv'
    <2>1. ASSUME NEW d \in Clients, d # c
          PROVE PlaceOf(d)' /\ ContextOf(d)' /\ AnswerOf(d)'
      <3>1. /\ in'[d] = in[d] /\ pc'[d] = pc[d] /\ user'[d] = user[d]
            /\ org'[d] = org[d] /\ shown'[d] = shown[d]
        BY <1>1, <1>2, <2>1, OthersStay
      <3>2. QED
        BY <1>1, <3>1 DEF PlaceOf, ContextOf, AnswerOf
    <2>2. QED
      BY <1>1, <1>2, <2>1 DEF ContextInv
  <1>3. ASSUME UNCHANGED <<in, pc, user, org, shown>> PROVE ContextInv'
    BY <1>1, <1>3 DEF ContextInv, PlaceOf, ContextOf, AnswerOf
  <1>4. CASE \E r \in Rows : Insert(r)
    BY <1>3, <1>4 DEF Insert, context, result
  <1>5. ASSUME NEW c \in Clients, NEW i \in Inputs, Arrive(c, i)
        PROVE ContextInv'
    <2>1. Send(c, i) /\ i \in Input
      BY <1>5, ConsoleAssumption DEF Arrive
    <2>2. PlaceOf(c)' /\ ContextOf(c)' /\ AnswerOf(c)'
      BY <1>1, <2>1, SendContext
    <2>3. QED
      BY <1>2, <1>5, <2>2
  <1>6. ASSUME NEW c \in Clients, NextPage(c) PROVE ContextInv'
    <2>1. in[c] \in Input
      BY <1>1 DEF TypeInv, TypeOK
    <2>2. [in[c] EXCEPT !.page = Paginator(in[c]).page + 1] \in Input
      BY <2>1, NextPageInput
    <2>3. Send(c, [in[c] EXCEPT !.page = Paginator(in[c]).page + 1])
      BY <1>6 DEF NextPage
    <2>4. PlaceOf(c)' /\ ContextOf(c)' /\ AnswerOf(c)'
      BY <1>1, <2>2, <2>3, SendContext
    <2>5. QED
      BY <1>2, <1>6, <2>4
  <1>7. ASSUME NEW c \in Clients, Middleware(c) PROVE ContextInv'
    BY <1>2, <1>7, MiddlewareContext
  <1>8. ASSUME NEW c \in Clients, Handler(c) PROVE ContextInv'
    BY <1>2, <1>8, HandlerContext
  <1>9. CASE UNCHANGED vars
    BY <1>3, <1>9 DEF vars
  <1>10. QED
    BY <1>4, <1>5, <1>6, <1>7, <1>8, <1>9, StepCases

LEMMA ContextAlways == Spec => []ContextInv
  <1>1. ASSUME Init PROVE ContextInv
    <2>1. TypeInv
      BY <1>1, InitTypeOK DEF Init, TypeInv, SecondFollows, At
    <2>2. \A c \in Clients : /\ pc[c] = "idle" /\ org[c] = None
                             /\ shown[c] = {}
      BY <1>1 DEF Init
    <2>3. QED
      BY <2>1, <2>2 DEF ContextInv, PlaceOf, ContextOf, AnswerOf
  <1>2. ContextInv /\ [Next]_vars => ContextInv'
    BY ContextStep
  <1>3. QED
    BY <1>1, <1>2, PTL DEF Spec

-------------------------------------------------------------------------------
(* What follows of a context.                                              *)

(* No order of requests and answers lets a handler run without the user or *)
(* the organization it asserts to be there (middleware.go:67 and 85        *)
(* panic), whatever route was asked for and whatever header came with it.  *)
THEOREM NoHandlerPanics == Spec => []HandlerHasContext
  <1>1. ASSUME ContextInv, NEW c \in Clients, At(c, "handler")
        PROVE /\ in[c].route.handler \in NeedsUser => user[c] # Nobody
              /\ in[c].route.handler \notin NeedsNoOrganization =>
                   org[c] # None
    <2>1. ContextOf(c) /\ pc[c] = "handler"
      BY <1>1 DEF ContextInv, At
    <2>2. in[c].route \in Public \union ByKey \union Inside
      BY <1>1, InputTypes DEF ContextInv, TypeInv, TypeOK, Routes, Inside
    <2>3. in[c].route.handler \in NeedsUser => user[c] # Nobody
      BY <2>1, <2>2, OpenRoutes DEF ContextOf
    <2>4. ASSUME org[c] = None
          PROVE in[c].route.handler \in NeedsNoOrganization
      <3>1. in[c].route \in Public \/ SkipsOrganization(in[c].route)
        BY <2>1, <2>4 DEF ContextOf
      <3>2. CASE in[c].route \in Public
        BY <3>2 DEF NeedsNoOrganization
      <3>3. CASE in[c].route \notin Public
        <4>1. in[c].route.handler \in {"createOrg", "me"}
          BY <2>2, <3>1, <3>3, SkippingRoutes DEF Inside
        <4>2. QED
          BY <4>1 DEF NeedsNoOrganization
      <3>4. QED
        BY <3>2, <3>3
    <2>5. QED
      BY <2>3, <2>4
  <1>2. ContextInv => HandlerHasContext
    BY <1>1 DEF HandlerHasContext
  <1>3. QED
    BY <1>2, ContextAlways, PTL

(* Whichever organization a header names, the events, sessions and keys of *)
(* an answer belong to an organization of the user who asks                *)
(* (middleware.go:125-149 with the WHERE clauses of the repositories).     *)
THEOREM OnlyMineListed == Spec => []ListedAreMine
  <1>1. ASSUME ContextInv, NEW c \in Clients, NEW r \in shown[c],
               in[c].route.handler \notin Tables
        PROVE Data[r].kind = "audit" \/ Data[r].org \in Mine[in[c].user]
    <2>1. PlaceOf(c) /\ ContextOf(c) /\ AnswerOf(c)
      BY <1>1 DEF ContextInv
    <2>2. /\ in[c].route.handler \in Here /\ r \in Rows
          /\ Data[r].kind = "audit" \/ Data[r].org = org[c]
      BY <1>1, <2>1 DEF AnswerOf
    <2>3. SUFFICES ASSUME Data[r].org = org[c]
                   PROVE Data[r].org \in Mine[in[c].user]
      BY <2>2
    <2>4. org[c] # None
      BY <2>2, <2>3, DataTypes
    <2>5. in[c].route \in Public \union ByKey \union Inside
      BY <1>1, InputTypes DEF ContextInv, TypeInv, TypeOK, Routes, Inside
    <2>6. in[c].route \in Inside
      BY <2>1, <2>2, <2>4, <2>5, OpenRoutes DEF PlaceOf
    <2>7. /\ in[c].user \in Users
          /\ org[c] \in Resolved(Mine[in[c].user], in[c].selected)
      BY <2>1, <2>4, <2>6 DEF ContextOf
    <2>8. QED
      BY <2>3, <2>7, ResolvedIsMine
  <1>2. ContextInv => ListedAreMine
    BY <1>1 DEF ListedAreMine, Tables
  <1>3. QED
    BY <1>2, ContextAlways, PTL

(* An invitation is deleted by a member of its organization alone          *)
(* (postgres/invitation.go:47-69).                                         *)
THEOREM InvitationsKept == Spec => InvitationsStay
  <1>1. ASSUME ContextInv, [Next]_vars, NEW v \in Slots,
               invitations[v].state = "live", invitations'[v].state = "deleted"
        PROVE \E c \in Clients : /\ Handles(c, "invitation.Delete")
                                 /\ invitations[v].org \in Mine[in[c].user]
    <2>1. invitations' # invitations
      BY <1>1
    <2>2. PICK c \in Clients : Handler(c)
      <3>1. \A r \in Rows : ~Insert(r)
        BY <2>1 DEF Insert
      <3>2. \A c \in Clients : ~Middleware(c)
        BY <2>1, MiddlewareFrame
      <3>3. \A c \in Clients : ~NextPage(c) /\ \A i \in Inputs : ~Arrive(c, i)
        BY <2>1 DEF NextPage, Arrive, Send, rows
      <3>4. QED
        BY <1>1, <2>1, <3>1, <3>2, <3>3, StepCases DEF vars
    <2>3. InvitationCreate(c) \/ InvitationDelete(c)
      BY <2>1, <2>2, HandlerWrites
    <2>4. invitations \in [Slots -> Invitation] /\ in[c] \in Input
      BY <1>1, TypeParts DEF ContextInv, TypeInv, TablesType
    <2>5. InvitationDelete(c)
      <3>1. ASSUME InvitationCreate(c) PROVE FALSE
        <4>1. PICK w \in Unused(invitations) :
                invitations' = [invitations EXCEPT ![w] =
                                  [state |-> "live", org |-> org[c]]]
          BY <2>1, <3>1 DEF InvitationCreate
        <4>2. QED
          BY <1>1, <2>4, <4>1
      <3>2. QED
        BY <2>3, <3>1
    <2>6. v \in Deletable(c) /\ Handles(c, "invitation.Delete")
      BY <1>1, <2>5 DEF InvitationDelete
    <2>7. invitations[v].org = org[c]
      BY <2>6 DEF Deletable, OfOrganization
    <2>8. PlaceOf(c) /\ ContextOf(c) /\ pc[c] = "handler"
      BY <1>1, <2>6 DEF ContextInv, Handles, At
    <2>9. in[c].route.handler = "invitation.Delete"
      BY <2>6 DEF Handles
    <2>10. in[c].route \in Inside
      <3>1. in[c].route \in Public \union ByKey \union Inside
        BY <2>4, InputTypes DEF Routes, Inside
      <3>2. "invitation.Delete" \in Here
        BY DEF Here
      <3>3. QED
        BY <2>9, <3>1, <3>2, OpenRoutes
    <2>11. org[c] # None
      <3>1. in[c].route.handler \notin {"createOrg", "me"}
        BY <2>9
      <3>2. in[c].route \notin Public
        BY <2>10, RoutesApart DEF Inside
      <3>3. QED
        BY <2>8, <2>10, <3>1, <3>2, SkippingRoutes DEF ContextOf, Inside
    <2>12. /\ in[c].user \in Users
           /\ org[c] \in Resolved(Mine[in[c].user], in[c].selected)
      BY <2>8, <2>10, <2>11 DEF ContextOf
    <2>13. QED
      BY <2>6, <2>7, <2>12, ResolvedIsMine
  <1>2. ContextInv /\ [Next]_vars =>
          [\A v \in Slots :
             invitations[v].state = "live" /\ invitations'[v].state = "deleted"
             => \E c \in Clients :
                  /\ Handles(c, "invitation.Delete")
                  /\ invitations[v].org \in Mine[in[c].user]]_vars
    BY <1>1
  <1>3. QED
    BY <1>2, ContextAlways, PTL DEF Spec, InvitationsStay

-------------------------------------------------------------------------------
(* What LIMIT and OFFSET return.                                           *)

Instant(S, t) == {r \in S : Data[r].at = t}
Later(S, t) == {r \in S : Data[r].at > t}
Window(skip, size) == skip + 1 .. skip + size

LEMMA SliceOfInstant ==
  ASSUME NEW S, NEW skip, NEW size, NEW T \in Slice(S, skip, size), NEW r \in S
  PROVE LET t == Data[r].at
            before == Cardinality(Later(S, t))
        IN Cardinality(T \intersect Instant(S, t))
             = Cardinality((before + 1 .. before + Cardinality(Instant(S, t)))
                             \intersect Window(skip, size))
  BY DEF Slice, Instant, Later, Window

(* The size of a page does not depend on the order within an instant: the  *)
(* rows fill the places of the window.                                     *)
LEMMA SliceSize ==
  ASSUME NEW S \in SUBSET Rows, NEW skip \in Nat, NEW size \in Nat,
         NEW T \in Slice(S, skip, size)
  PROVE Cardinality(T)
          = Cardinality((1 .. Cardinality(S)) \intersect Window(skip, size))
  <1> DEFINE W == Window(skip, size)
             Newest(U) ==
               \A r \in U, q \in S : Data[q].at >= Data[r].at => q \in U
             Fills(U) == Cardinality(T \intersect U)
                           = Cardinality((1 .. Cardinality(U)) \intersect W)
             G == {U \in SUBSET S : Newest(U) /\ ~Fills(U)}
  <1>1. T \subseteq S /\ IsFiniteSet(S)
    BY SetsFinite DEF Slice
  <1>2. IsFiniteSet(W)
    BY FS_Interval DEF Window
  <1>3. SUFFICES ASSUME G # {} PROVE FALSE
    <2>1. Newest(S)
      OBVIOUS
    <2>2. S \notin G
      BY <1>3
    <2>3. Fills(S)
      BY <2>1, <2>2
    <2>4. T \intersect S = T
      BY <1>1
    <2>5. QED
      BY <2>3, <2>4
  <1>4. PICK U \in G : \A V \in G : V \subseteq U => V = U
    <2>1. G \in SUBSET SUBSET S
      OBVIOUS
    <2> HIDE DEF G
    <2>2. QED
      BY <1>1, <1>3, <2>1, LeastSet
  <1>5. /\ U \in SUBSET S /\ U \subseteq Rows /\ Newest(U) /\ ~Fills(U)
        /\ IsFiniteSet(U)
    BY <1>4, SetsFinite
  <1>6. U # {}
    <2>1. ASSUME U = {} PROVE Fills(U)
      <3>1. T \intersect U = {} /\ Cardinality(U) = 0
        BY <2>1, FS_EmptySet
      <3>2. 1 .. 0 = {}
        OBVIOUS
      <3>3. QED
        BY <3>1, <3>2
    <2>2. QED
      BY <1>5, <2>1
  <1>7. PICK r \in U : \A q \in U : Data[r].at <= Data[q].at
    <2> DEFINE f == [q \in U |-> Data[q].at]
    <2>1. f \in [U -> Int]
      BY <1>5, DataTypes
    <2>2. PICK x \in U : \A q \in U : f[x] <= f[q]
      <3> HIDE DEF f
      <3>1. QED
        BY <1>5, <1>6, <2>1, LeastValue
    <2>3. QED
      BY <2>2
  <1> DEFINE t == Data[r].at
             V == Later(S, t)
             I == Instant(S, t)
  <1>8. \A q \in S : Data[q].at \in Nat
    BY DataTypes
  <1>9. /\ V \subseteq U /\ r \notin V /\ Newest(V) /\ U = V \union I
        /\ V \intersect I = {}
    <2>1. r \in S /\ t \in Nat
      BY <1>5, <1>8
    <2>2. V \subseteq U
      BY <1>5, <1>8, <2>1 DEF Later
    <2>3. Newest(V) /\ r \notin V /\ V \intersect I = {}
      BY <1>8, <2>1 DEF Later, Instant
    <2>4. I \subseteq U
      BY <1>5, <1>8, <2>1 DEF Instant
    <2>5. U \subseteq V \union I
      BY <1>5, <1>7, <1>8, <2>1 DEF Later, Instant
    <2>6. QED
      BY <2>2, <2>3, <2>4, <2>5
  <1>10. Fills(V)
    <2>1. V \notin G
      BY <1>4, <1>9
    <2>2. V \in SUBSET S
      BY DEF Later
    <2>3. QED
      BY <1>9, <2>1, <2>2
  <1>11. Cardinality(T \intersect I)
           = Cardinality((Cardinality(V) + 1 .. Cardinality(V) + Cardinality(I))
                           \intersect W)
    BY <1>5, SliceOfInstant
  <1> HIDE DEF V, I
  <1>12. /\ IsFiniteSet(V) /\ IsFiniteSet(I)
         /\ Cardinality(V) \in Nat /\ Cardinality(I) \in Nat
    BY <1>5, <1>9, FS_Subset, FS_CardinalityType
  <1>13. Cardinality(U) = Cardinality(V) + Cardinality(I)
    BY <1>9, <1>12, DisjointUnion
  <1>14. Cardinality(T \intersect U)
           = Cardinality(T \intersect V) + Cardinality(T \intersect I)
    <2>1. /\ T \intersect U = (T \intersect V) \union (T \intersect I)
          /\ (T \intersect V) \intersect (T \intersect I) = {}
      BY <1>9
    <2>2. IsFiniteSet(T \intersect V) /\ IsFiniteSet(T \intersect I)
      BY <1>12, FS_Subset
    <2>3. QED
      BY <2>1, <2>2, DisjointUnion
  <1> DEFINE v == Cardinality(V)
             i == Cardinality(I)
             Low == (1 .. v) \intersect W
             High == (v + 1 .. v + i) \intersect W
  <1>15. Cardinality((1 .. v + i) \intersect W)
           = Cardinality(Low) + Cardinality(High)
    <2>1. v \in Nat /\ i \in Nat
      BY <1>12
    <2> HIDE DEF v, i
    <2>2. /\ (1 .. v + i) \intersect W = Low \union High
          /\ Low \intersect High = {}
      BY <2>1
    <2>3. IsFiniteSet(Low) /\ IsFiniteSet(High)
      BY <1>2, FS_Subset
    <2> HIDE DEF Low, High, W
    <2>4. QED
      BY <2>2, <2>3, DisjointUnion
  <1>16. Fills(U)
    BY <1>10, <1>11, <1>13, <1>14, <1>15
  <1>17. QED
    BY <1>5, <1>16

(* A page that is not full is the last one.                                *)
LEMMA ShortSlice ==
  ASSUME NEW S \in SUBSET Rows, NEW skip \in Nat, NEW size \in Nat,
         NEW T \in Slice(S, skip, size), Cardinality(T) # size
  PROVE /\ Cardinality(T) \in Nat /\ Cardinality(S) \in Nat
        /\ skip + Cardinality(T) >= Cardinality(S)
        /\ Cardinality(T) < size
  <1> DEFINE n == Cardinality(S)
  <1>1. T \in SUBSET Rows /\ n \in Nat /\ Cardinality(T) \in Nat
    <2>1. T \in SUBSET Rows
      BY DEF Slice
    <2>2. QED
      BY <2>1, SetsFinite
  <1>2. Cardinality(T) = Cardinality((1 .. n) \intersect Window(skip, size))
    BY SliceSize
  <1> HIDE DEF n
  <1>3. CASE n >= skip + size
    <2>1. (1 .. n) \intersect Window(skip, size) = skip + 1 .. skip + size
      BY <1>1, <1>3 DEF Window
    <2>2. Cardinality(skip + 1 .. skip + size) = size
      <3>1. skip + 1 \in Int /\ skip + size \in Int
        OBVIOUS
      <3>2. Cardinality(skip + 1 .. skip + size)
              = IF skip + 1 > skip + size THEN 0
                ELSE (skip + size) - (skip + 1) + 1
        BY <3>1, FS_Interval
      <3>3. QED
        BY <3>2
    <2>3. QED
      BY <1>2, <2>1, <2>2
  <1>4. CASE n < skip + size /\ n > skip
    <2>1. (1 .. n) \intersect Window(skip, size) = skip + 1 .. n
      BY <1>1, <1>4 DEF Window
    <2>2. Cardinality(skip + 1 .. n) = n - skip
      <3>1. skip + 1 \in Int /\ n \in Int
        BY <1>1
      <3>2. Cardinality(skip + 1 .. n)
              = IF skip + 1 > n THEN 0 ELSE n - (skip + 1) + 1
        BY <3>1, FS_Interval
      <3>3. QED
        BY <1>1, <1>4, <3>2
    <2>3. Cardinality(T) = n - skip
      BY <1>2, <2>1, <2>2
    <2>4. skip + Cardinality(T) = n /\ Cardinality(T) < size
      BY <1>1, <1>4, <2>3
    <2>5. QED
      BY <1>1, <2>4 DEF n
  <1>5. CASE n <= skip
    <2>1. (1 .. n) \intersect Window(skip, size) = {}
      BY <1>1, <1>5 DEF Window
    <2>2. Cardinality(T) = 0
      BY <1>2, <2>1, FS_EmptySet
    <2>3. Cardinality(T) < size
      BY <2>2
    <2>4. QED
      BY <1>1, <1>5, <2>3 DEF n
  <1>6. QED
    BY <1>1, <1>3, <1>4, <1>5

(* A row that is alone in its instant and has its place in the window is   *)
(* on the page.                                                            *)
LEMMA SliceHas ==
  ASSUME NEW S \in SUBSET Rows, NEW skip \in Nat, NEW size \in Nat,
         NEW T \in Slice(S, skip, size), NEW r \in S,
         \A q \in S \ {r} : Data[q].at # Data[r].at,
         Cardinality(Later(S, Data[r].at)) >= skip,
         Cardinality(Later(S, Data[r].at)) < skip + size
  PROVE r \in T
  <1> DEFINE n == Cardinality(Later(S, Data[r].at))
  <1>1. n \in Nat
    <2>1. Later(S, Data[r].at) \in SUBSET Rows
      BY DEF Later
    <2>2. QED
      BY <2>1, SetsFinite
  <1>2. Instant(S, Data[r].at) = {r} /\ Cardinality({r}) = 1
    BY FS_Singleton DEF Instant
  <1>3. Cardinality(T \intersect {r})
          = Cardinality((n + 1 .. n + 1) \intersect Window(skip, size))
    <2>1. Cardinality(T \intersect Instant(S, Data[r].at))
            = Cardinality((n + 1 .. n + Cardinality(Instant(S, Data[r].at)))
                            \intersect Window(skip, size))
      BY SliceOfInstant
    <2>2. QED
      BY <1>2, <2>1
  <1>4. n >= skip /\ n < skip + size
    OBVIOUS
  <1> HIDE DEF n
  <1>5. (n + 1 .. n + 1) \intersect Window(skip, size) = {n + 1}
    BY <1>1, <1>4 DEF Window
  <1>6. Cardinality({n + 1}) = 1
    BY FS_Singleton
  <1>7. Cardinality(T \intersect {r}) = 1
    BY <1>3, <1>5, <1>6
  <1>8. ASSUME r \notin T PROVE FALSE
    <2>1. T \intersect {r} = {}
      BY <1>8
    <2>2. Cardinality(T \intersect {r}) = 0
      BY <2>1, FS_EmptySet
    <2>3. QED
      BY <1>7, <2>2
  <1>9. QED
    BY <1>8

-------------------------------------------------------------------------------
(* A client that walks over the pages of a list.                           *)

(* The rows of a table V that a list selects.                              *)
Matching(V, i, o) ==
  {r \in V :
     /\ i.filter = "hit" => Data[r].hit
     /\ \/ i.route.handler = "event.ListAll" /\ Data[r].kind = "event"
        \/ i.route.handler = "auditLog.ListAll" /\ Data[r].kind = "audit"
        \/ i.route.handler = "session.ListAll" /\ Data[r].kind = "session"
     /\ Data[r].kind = "audit" \/ Data[r].org = o}

LEMMA QueryMatches ==
  ASSUME NEW i, NEW o, IsList(i) PROVE Query(i, o) = Matching(visible, i, o)
  <1>1. CASE i.route.handler = "event.ListAll"
    BY <1>1 DEF Query, EventQuery, Selected, Matching
  <1>2. CASE i.route.handler = "auditLog.ListAll"
    BY <1>2 DEF Query, AuditQuery, Selected, Matching
  <1>3. CASE i.route.handler = "session.ListAll"
    BY <1>3 DEF Query, SessionQuery, Selected, Matching
  <1>4. QED
    BY <1>1, <1>2, <1>3 DEF IsList

(* Where a row stands among those of its list, and whether it stands alone *)
(* in its instant.                                                         *)
Standing(V, i, r) ==
  Cardinality(Later(Matching(V, i, Data[r].org), Data[r].at))
Lone(V, r) == \A q \in V \ {r} : Data[q].at # Data[r].at

(* As rows appear, a row moves towards the later pages.                    *)
LEMMA StandingGrows ==
  ASSUME NEW V \in SUBSET Rows, NEW W \in SUBSET Rows, V \subseteq W, NEW i,
         NEW r
  PROVE /\ Standing(V, i, r) \in Nat /\ Standing(W, i, r) \in Nat
        /\ Standing(V, i, r) <= Standing(W, i, r)
        /\ Lone(W, r) => Lone(V, r)
  <1> DEFINE A == Later(Matching(V, i, Data[r].org), Data[r].at)
             B == Later(Matching(W, i, Data[r].org), Data[r].at)
  <1>1. A \subseteq B /\ A \in SUBSET Rows /\ B \in SUBSET Rows
    BY DEF Later, Matching
  <1>2. Lone(W, r) => Lone(V, r)
    BY DEF Lone
  <1> HIDE DEF A, B
  <1>3. IsFiniteSet(B) /\ Cardinality(A) \in Nat /\ Cardinality(B) \in Nat
    BY <1>1, SetsFinite
  <1>4. Cardinality(A) <= Cardinality(B)
    BY <1>1, <1>3, FS_Subset
  <1>5. QED
    BY <1>2, <1>3, <1>4 DEF A, B, Standing

(* What is true of a row of the first page's statement: it is still        *)
(* selected, and unless it was shown its place is on a page to come.       *)
Selects(c, r) ==
  /\ IsList(in[c])
  /\ r \in Matching(visible, in[c], Data[r].org)
  /\ \/ Data[r].kind = "audit"
     \/ Data[r].org \in Resolved(Mine[in[c].user], in[c].selected)
ToCome(c, r) ==
  LET place == Standing(visible, in[c], r)
      p == Paginator(in[c])
  IN /\ pc[c] # "done" => place >= Offset(p)
     /\ pc[c] = "done" /\ answer[c] = 200 =>
          /\ Cardinality(shown[c]) = p.perPage
          /\ place >= Offset(p) + p.perPage
WalkOf(c) ==
  \A r \in base[c] :
    Selects(c, r) /\ (Lone(visible, r) /\ r \notin seen[c] => ToCome(c, r))

(* A total counts no row that the last page does not reach.                *)
TotalOf(c) ==
  IsList(in[c]) =>
    /\ pc[c] = "second" =>
         total[c] <= Cardinality(Matching(visible, in[c], org[c]))
    /\ pc[c] = "done" /\ answer[c] = 200 =>
         LET p == Paginator(in[c])
         IN \/ Cardinality(shown[c]) = p.perPage
            \/ Offset(p) + Cardinality(shown[c]) >= total[c]

WalkInv == ContextInv /\ \A c \in Clients : WalkOf(c) /\ TotalOf(c)

(* The statements of a list.                                               *)
LEMMA ListSteps ==
  ASSUME NEW c \in Clients, Handler(c), IsList(in[c])
  PROVE \/ Page(c)
        \/ /\ Goto(c, "second") /\ UNCHANGED walk
           /\ total' = [total EXCEPT ![c] = Cardinality(Query(in[c], org[c]))]
        \/ Answer(c, 500) /\ UNCHANGED walk
  <1>1. CASE EventListAll(c) \/ AuditLogListAll(c) \/ SessionListAll(c)
    BY <1>1 DEF EventListAll, AuditLogListAll, SessionListAll, Count
  <1>2. ASSUME EventList(c) \/ AuditLogList(c) \/ SessionList(c) \/ PlanList(c)
        PROVE FALSE
    BY <1>2 DEF EventList, AuditLogList, SessionList, PlanList, Handles, IsList
  <1>3. ASSUME \/ EventMetrics(c) \/ EventTopActorMetrics(c)
               \/ AuditLogMetrics(c) \/ APIKeyList(c) \/ PlanListAll(c)
               \/ InvitationList(c)
        PROVE FALSE
    BY <1>3 DEF EventMetrics, EventTopActorMetrics, AuditLogMetrics, APIKeyList,
                PlanListAll, InvitationList, Handles, IsList
  <1>4. ASSUME SessionMetrics(c) \/ SuspiciousCount(c) PROVE FALSE
    BY <1>4 DEF SessionMetrics, SuspiciousCount, Handles, IsList
  <1>5. ASSUME Elsewhere(c) PROVE FALSE
    BY <1>5 DEF Elsewhere, IsList, Here
  <1>6. ASSUME PlanCreate(c) \/ PlanUpdate(c) \/ PlanDelete(c) PROVE FALSE
    BY <1>6 DEF PlanCreate, PlanUpdate, PlanDelete, Handles, IsList
  <1>7. ASSUME InvitationCreate(c) \/ InvitationDelete(c) PROVE FALSE
    BY <1>7 DEF InvitationCreate, InvitationDelete, Handles, IsList
  <1>8. QED
    BY <1>1, <1>2, <1>3, <1>4, <1>5, <1>6, <1>7 DEF Handler

(* A list runs with an organization of its user.                           *)
LEMMA ListContext ==
  ASSUME ContextInv, NEW c \in Clients, IsList(in[c]),
         pc[c] \in {"handler", "second"}
  PROVE /\ in[c].user \in Users /\ org[c] \in Orgs
        /\ org[c] \in Resolved(Mine[in[c].user], in[c].selected)
  <1>1. PlaceOf(c) /\ ContextOf(c) /\ in[c] \in Input
    BY DEF ContextInv, TypeInv, TypeOK
  <1>2. in[c].route.handler \in Here
    BY DEF IsList, Here
  <1>3. in[c].route \in Inside
    <2>1. in[c].route \in Public \union ByKey \union Inside
      BY <1>1, InputTypes DEF Routes, Inside
    <2>2. in[c].route.handler \notin {"login", "signup", "reset", "forgot",
                                      "plan.ListAll"}
      BY DEF IsList
    <2>3. QED
      BY <1>2, <2>1, <2>2, OpenRoutes
  <1>4. org[c] # None
    <2>1. in[c].route.handler \notin {"createOrg", "me"}
      BY DEF IsList
    <2>2. in[c].route \notin Public
      BY <1>3, RoutesApart DEF Inside
    <2>3. QED
      BY <1>1, <1>3, <2>1, <2>2, SkippingRoutes DEF ContextOf, Inside
  <1>5. /\ in[c].user \in Users
        /\ org[c] \in Resolved(Mine[in[c].user], in[c].selected)
    BY <1>1, <1>3, <1>4 DEF ContextOf
  <1>6. QED
    BY <1>5, ResolvedIsMine

LEMMA MatchingAudits ==
  ASSUME NEW V, NEW i, NEW o, NEW q, NEW r \in Matching(V, i, o),
         Data[r].kind = "audit"
  PROVE Matching(V, i, o) = Matching(V, i, q)
  <1>1. i.route.handler = "auditLog.ListAll"
    BY DEF Matching
  <1>2. QED
    BY <1>1 DEF Matching

(* The page: a row that it neither shows nor showed before has its place   *)
(* after it, and then the page is full.                                    *)
LEMMA PageStep ==
  ASSUME WalkInv, NEW c \in Clients, Page(c)
  PROVE WalkOf(c)' /\ TotalOf(c)'
  <1> DEFINE i == in[c]
             p == Paginator(i)
             S == Query(i, org[c])
  <1>1. /\ ContextInv /\ TypeOK /\ visible \subseteq Rows
        /\ i \in Input /\ WalkOf(c) /\ TotalOf(c)
        /\ pc \in [Clients -> Steps] /\ answer \in [Clients -> Codes]
        /\ total \in [Clients -> Nat]
        /\ shown \in [Clients -> SUBSET (Rows \union Slots)]
        /\ base \in [Clients -> SUBSET Rows]
        /\ seen \in [Clients -> SUBSET Rows]
    BY DEF WalkInv, ContextInv, TypeInv, TypeOK
  <1>2. pc[c] = "second" /\ IsList(i)
    BY <1>1 DEF Page, At, ContextInv, TypeInv, SecondFollows
  <1>3. S = Matching(visible, i, org[c]) /\ S \in SUBSET Rows
    BY <1>1, <1>2, QueryMatches, QueryRows
  <1>4. /\ p.page \in Nat \ {0} /\ p.perPage \in Nat \ {0} /\ Offset(p) \in Nat
        /\ p.page = 1 => Offset(p) = 0
    <2>1. \A n \in Nat : (1 - 1) * n = 0
      OBVIOUS
    <2>2. QED
      BY <1>1, <2>1, PaginatorType DEF Offset
  <1>5. PICK T \in Slice(S, Offset(p), p.perPage) :
          /\ shown' = [shown EXCEPT ![c] = T]
          /\ seen' = [seen EXCEPT ![c] = IF p.page = 1 THEN T ELSE @ \union T]
    BY DEF Page
  <1>6. /\ in' = in /\ visible' = visible /\ org' = org /\ total' = total
        /\ pc'[c] = "done" /\ answer'[c] = 200
        /\ shown'[c] = T
        /\ seen'[c] = IF p.page = 1 THEN T ELSE seen[c] \union T
        /\ base'[c] = IF p.page = 1 THEN S ELSE base[c]
    <2>1. in' = in /\ visible' = visible /\ org' = org /\ total' = total
      BY DEF Page, rows, context
    <2>2. pc'[c] = "done" /\ answer'[c] = 200
      BY <1>1 DEF Page, Answer
    <2>3. base'[c] = IF p.page = 1 THEN S ELSE base[c]
      BY <1>1 DEF Page
    <2> HIDE DEF S, p, i
    <2>4. QED
      BY <1>1, <1>5, <2>1, <2>2, <2>3
  <1>7. /\ i.user \in Users /\ org[c] \in Resolved(Mine[i.user], i.selected)
    BY <1>1, <1>2, ListContext
  <1> HIDE DEF S, p
  <1>8. ASSUME NEW r \in base'[c] PROVE r \in S /\ Selects(c, r)
    <2>1. CASE p.page = 1
      <3>1. r \in Matching(visible, i, org[c])
        BY <1>3, <1>6, <2>1
      <3>2. QED
        BY <1>2, <1>3, <1>7, <3>1 DEF Selects, Matching
    <2>2. CASE p.page # 1
      <3>1. Selects(c, r)
        BY <1>1, <1>6, <2>2 DEF WalkOf
      <3>2. Data[r].kind = "audit" \/ Data[r].org = org[c]
        BY <1>7, <3>1, ResolvedIsOne DEF Selects
      <3>3. r \in Matching(visible, i, org[c])
        BY <3>1, <3>2 DEF Selects, Matching
      <3>4. QED
        BY <1>3, <3>1, <3>3
    <2>3. QED
      BY <2>1, <2>2
  <1>9. ASSUME NEW r \in base'[c]
        PROVE /\ Standing(visible, i, r) = Cardinality(Later(S, Data[r].at))
              /\ Standing(visible, i, r) \in Nat
    <2>1. r \in S /\ Selects(c, r)
      BY <1>8
    <2>2. Matching(visible, i, Data[r].org) = S
      <3>1. CASE Data[r].kind = "audit"
        BY <1>3, <2>1, <3>1, MatchingAudits
      <3>2. CASE Data[r].kind # "audit"
        <4>1. Data[r].org = org[c]
          BY <1>3, <2>1, <3>2 DEF Matching
        <4>2. QED
          BY <1>3, <4>1
      <3>3. QED
        BY <3>1, <3>2
    <2>3. QED
      BY <1>1, <2>2, StandingGrows DEF Standing
  <1>10. ASSUME NEW r \in base'[c], Lone(visible, r), r \notin seen'[c]
         PROVE /\ Cardinality(T) = p.perPage
               /\ Standing(visible, i, r) >= Offset(p) + p.perPage
    <2> DEFINE place == Cardinality(Later(S, Data[r].at))
    <2>1. r \in S /\ r \notin T /\ place = Standing(visible, i, r)
          /\ place \in Nat
      BY <1>6, <1>8, <1>9, <1>10
    <2>2. place >= Offset(p)
      <3>1. CASE p.page = 1
        BY <1>4, <2>1, <3>1
      <3>2. CASE p.page # 1
        <4>1. r \in base[c] /\ r \notin seen[c]
          BY <1>6, <1>10, <3>2
        <4>2. ToCome(c, r)
          BY <1>1, <1>10, <4>1 DEF WalkOf
        <4>3. QED
          BY <1>2, <2>1, <4>2 DEF ToCome, p
      <3>3. QED
        BY <3>1, <3>2
    <2>3. \A q \in S \ {r} : Data[q].at # Data[r].at
      BY <1>3, <1>10 DEF Lone, Matching
    <2>4. place >= Offset(p) + p.perPage
      <3>1. ~(place < Offset(p) + p.perPage)
        BY <1>3, <1>4, <2>1, <2>2, <2>3, SliceHas
      <3> HIDE DEF place
      <3>2. QED
        BY <1>4, <2>1, <3>1
    <2>5. Cardinality(S) \in Nat /\ Cardinality(S) > place
      <3>1. IsFiniteSet(S) /\ Later(S, Data[r].at) \in SUBSET S
        BY <1>3, SetsFinite DEF Later
      <3>2. r \notin Later(S, Data[r].at)
        <4>1. Data[r].at \in Nat
          BY <1>3, <2>1, DataTypes
        <4>2. QED
          BY <4>1 DEF Later
      <3>3. /\ place <= Cardinality(S) /\ Cardinality(S) \in Nat
            /\ place # Cardinality(S)
        BY <2>1, <3>1, <3>2, FS_Subset, FS_CardinalityType
      <3> HIDE DEF place
      <3>4. QED
        BY <2>1, <3>3
    <2>6. Cardinality(T) = p.perPage
      <3>1. ASSUME Cardinality(T) # p.perPage PROVE FALSE
        <4>1. /\ Cardinality(T) \in Nat
              /\ Offset(p) + Cardinality(T) >= Cardinality(S)
              /\ Cardinality(T) < p.perPage
          BY <1>3, <1>4, <3>1, ShortSlice
        <4> HIDE DEF place
        <4>2. QED
          BY <1>4, <2>1, <2>4, <2>5, <4>1
      <3>2. QED
        BY <3>1
    <2>7. QED
      BY <2>1, <2>4, <2>6
  <1>11. WalkOf(c)'
    <2>1. SUFFICES ASSUME NEW r \in base'[c]
                   PROVE /\ Selects(c, r)'
                         /\ Lone(visible', r) /\ r \notin seen'[c] =>
                              ToCome(c, r)'
      BY DEF WalkOf
    <2>2. Selects(c, r)'
      BY <1>6, <1>8 DEF Selects
    <2>3. ASSUME Lone(visible', r), r \notin seen'[c] PROVE ToCome(c, r)'
      BY <1>6, <1>10, <2>3 DEF ToCome, p
    <2>4. QED
      BY <2>2, <2>3
  <1>12. TotalOf(c)'
    <2>1. total[c] <= Cardinality(S) /\ total[c] \in Nat
      BY <1>1, <1>2, <1>3 DEF TotalOf
    <2>2. Cardinality(T) = p.perPage \/ Offset(p) + Cardinality(T) >= total[c]
      <3>1. SUFFICES ASSUME Cardinality(T) # p.perPage
                     PROVE Offset(p) + Cardinality(T) >= total[c]
        OBVIOUS
      <3>2. /\ Cardinality(T) \in Nat /\ Cardinality(S) \in Nat
            /\ Offset(p) + Cardinality(T) >= Cardinality(S)
        BY <1>3, <1>4, <3>1, ShortSlice
      <3>3. QED
        BY <1>4, <2>1, <3>2
    <2>3. QED
      BY <1>6, <2>2 DEF TotalOf, p
  <1>13. QED
    BY <1>11, <1>12

LEMMA InsertWalk ==
  ASSUME WalkInv, NEW r \in Rows, Insert(r), NEW c \in Clients
  PROVE WalkOf(c)' /\ TotalOf(c)'
  <1>1. /\ WalkOf(c) /\ TotalOf(c) /\ visible \in SUBSET Rows
        /\ base \in [Clients -> SUBSET Rows] /\ total[c] \in Nat
        /\ in[c] \in Input
    BY DEF WalkInv, ContextInv, TypeInv, TypeOK
  <1>2. /\ visible' \in SUBSET Rows /\ visible \subseteq visible'
        /\ UNCHANGED <<in, pc, org, total, shown, answer, base, seen>>
    BY <1>1 DEF Insert, context, result, walk
  <1>3. \A i, o : Matching(visible, i, o) \subseteq Matching(visible', i, o)
    BY <1>2 DEF Matching
  <1>4. Offset(Paginator(in[c])) \in Nat /\ Paginator(in[c]).perPage \in Nat
    BY <1>1, PaginatorType
  <1>5. WalkOf(c)'
    <2>1. SUFFICES ASSUME NEW q \in base[c]
                   PROVE /\ Selects(c, q)'
                         /\ Lone(visible', q) /\ q \notin seen[c] =>
                              ToCome(c, q)'
      BY <1>2 DEF WalkOf
    <2>2. Selects(c, q)
      BY <1>1 DEF WalkOf
    <2>3. Selects(c, q)'
      BY <1>2, <1>3, <2>2 DEF Selects
    <2>4. ASSUME Lone(visible', q), q \notin seen[c] PROVE ToCome(c, q)'
      <3>1. /\ Standing(visible, in[c], q) \in Nat
            /\ Standing(visible', in[c], q) \in Nat
            /\ Standing(visible, in[c], q) <= Standing(visible', in[c], q)
            /\ Lone(visible, q)
        BY <1>1, <1>2, <2>4, StandingGrows
      <3>2. ToCome(c, q)
        BY <1>1, <2>4, <3>1 DEF WalkOf
      <3>3. \A n \in Nat : Standing(visible, in[c], q) >= n =>
                             Standing(visible', in[c], q) >= n
        BY <3>1
      <3>4. Offset(Paginator(in[c])) + Paginator(in[c]).perPage \in Nat
        BY <1>4
      <3>5. QED
        BY <1>2, <1>4, <3>2, <3>3, <3>4 DEF ToCome
    <2>5. QED
      BY <2>3, <2>4
  <1>6. TotalOf(c)'
    <2> DEFINE A == Matching(visible, in[c], org[c])
               B == Matching(visible', in[c], org[c])
    <2>1. A \subseteq B /\ A \in SUBSET Rows /\ B \in SUBSET Rows
      BY <1>1, <1>2, <1>3 DEF Matching
    <2> HIDE DEF A, B
    <2>2. /\ Cardinality(A) \in Nat /\ Cardinality(B) \in Nat
          /\ Cardinality(A) <= Cardinality(B)
      BY <2>1, SetsFinite, FS_Subset
    <2>3. total[c] <= Cardinality(A) => total[c] <= Cardinality(B)
      BY <1>1, <2>2
    <2>4. QED
      BY <1>1, <1>2, <2>3 DEF TotalOf, A, B, IsList
  <1>7. QED
    BY <1>5, <1>6

(* The next page begins where a full one ends.                             *)
LEMMA NextPageWalk ==
  ASSUME WalkInv, NEW c \in Clients, NextPage(c)
  PROVE WalkOf(c)' /\ TotalOf(c)'
  <1> DEFINE i == in[c]
             p == Paginator(i)
             j == [i EXCEPT !.page = p.page + 1]
  <1>1. /\ WalkOf(c) /\ in \in [Clients -> Input] /\ i \in Input
        /\ PlaceType
    BY TypeParts DEF WalkInv, ContextInv, TypeInv
  <1>2. /\ IsList(i) /\ pc[c] = "done" /\ answer[c] = 200
        /\ i.page \in Int /\ i.page >= 0
    BY <1>1, InputTypes DEF NextPage, Walks, At
  <1>3. Send(c, j) /\ UNCHANGED <<base, seen>>
    BY DEF NextPage, walk
  <1>4. p.page \in Nat \ {0} /\ p.perPage \in Nat \ {0} /\ Offset(p) \in Nat
    BY <1>1, PaginatorType
  <1>5. /\ j.route = i.route /\ j.filter = i.filter /\ j.user = i.user
        /\ j.selected = i.selected /\ j.perPage = i.perPage
        /\ j.page = p.page + 1
    BY <1>1 DEF Input
  <1>6. Paginator(j).page = p.page + 1 /\ Paginator(j).perPage = p.perPage
    <2>1. p.page + 1 > 0 /\ p.page + 1 >= 0
      BY <1>4
    <2> HIDE DEF j
    <2>2. Paginator(j).page = p.page + 1
      BY <1>5, <2>1 DEF Paginator
    <2>3. Paginator(j).perPage = p.perPage
      BY <1>2, <1>5, <2>1 DEF Paginator
    <2>4. QED
      BY <2>2, <2>3
  <1>7. Offset(Paginator(j)) = Offset(p) + p.perPage
    <2>1. \A a, b \in Nat : (a + 1 - 1) * b = (a - 1) * b + b
      OBVIOUS
    <2> HIDE DEF j, p
    <2>2. QED
      BY <1>4, <1>6, <2>1 DEF Offset
  <1>8. in'[c] = j /\ visible' = visible /\ pc'[c] \notin {"done", "second"}
    BY <1>1, <1>3, SendPlace DEF Send, rows
  <1> HIDE DEF j
  <1>9. TotalOf(c)'
    BY <1>8 DEF TotalOf
  <1>10. WalkOf(c)'
    <2>1. SUFFICES ASSUME NEW r \in base[c]
                   PROVE /\ Selects(c, r)'
                         /\ Lone(visible, r) /\ r \notin seen[c] =>
                              ToCome(c, r)'
      BY <1>3, <1>8 DEF WalkOf
    <2>2. \A o : Matching(visible, j, o) = Matching(visible, i, o)
      BY <1>5 DEF Matching
    <2>3. Selects(c, r)'
      <3>1. Selects(c, r)
        BY <1>1 DEF WalkOf
      <3>2. QED
        BY <1>5, <1>8, <2>2, <3>1 DEF Selects, IsList
    <2>4. ASSUME Lone(visible, r), r \notin seen[c] PROVE ToCome(c, r)'
      <3>1. Standing(visible, i, r) >= Offset(p) + p.perPage
        BY <1>1, <1>2, <2>4 DEF WalkOf, ToCome
      <3>2. Standing(visible, j, r) = Standing(visible, i, r)
        BY <2>2 DEF Standing
      <3>3. QED
        BY <1>7, <1>8, <3>1, <3>2 DEF ToCome
    <2>5. QED
      BY <2>3, <2>4
  <1>11. QED
    BY <1>9, <1>10

(* A request on its way keeps what it has to come, and one that is refused *)
(* ends the walk.                                                          *)
LEMMA OnItsWay ==
  ASSUME NEW c \in Clients, WalkOf(c), pc[c] # "done",
         UNCHANGED <<visible, in, base, seen>>,
         pc'[c] # "done" \/ answer'[c] # 200
  PROVE WalkOf(c)'
  <1>1. SUFFICES ASSUME NEW r \in base[c]
                 PROVE /\ Selects(c, r)'
                       /\ Lone(visible, r) /\ r \notin seen[c] => ToCome(c, r)'
    BY DEF WalkOf
  <1>2. Selects(c, r)'
    BY DEF WalkOf, Selects
  <1>3. ASSUME Lone(visible, r), r \notin seen[c] PROVE ToCome(c, r)'
    BY <1>3 DEF WalkOf, ToCome
  <1>4. QED
    BY <1>2, <1>3

LEMMA MiddlewareWalk ==
  ASSUME WalkInv, NEW c \in Clients, Middleware(c)
  PROVE WalkOf(c)' /\ TotalOf(c)'
  <1>1. /\ WalkOf(c) /\ pc \in [Clients -> Steps]
        /\ answer \in [Clients -> Codes]
    BY DEF WalkInv, ContextInv, TypeInv, TypeOK
  <1>2. pc[c] # "done" /\ pc'[c] # "second"
    BY <1>1
       DEF Middleware, RequireAuthentication, RequireAPIKeyOnly,
           LoadOrganization, RequireSubscription, StatementFails, At, Goto,
           Answer
  <1>3. pc'[c] # "done" \/ answer'[c] # 200
    <2>1. CASE \E code \in Codes \ {200} : Answer(c, code)
      BY <1>1, <2>1 DEF Answer
    <2>2. CASE \A code \in Codes \ {200} : ~Answer(c, code)
      <3>1. ~StatementFails(c)
        BY <2>2 DEF StatementFails, Codes
      <3>2. pc'[c] # "done"
        <4>1. CASE RequireAuthentication(c)
          <5>1. Refusal(Mine[in[c].user], in[c].selected) \in Codes \ {200}
            BY DEF Refusal, Codes
          <5>2. 401 \in Codes \ {200}
            BY DEF Codes
          <5>3. Goto(c, "gate") \/ Goto(c, "handler") \/ Goto(c, "organization")
            BY <2>2, <4>1, <5>1, <5>2 DEF RequireAuthentication
          <5>4. QED
            BY <1>1, <5>3 DEF Goto
        <4>2. CASE RequireAPIKeyOnly(c)
          BY <1>1, <2>2, <4>2 DEF RequireAPIKeyOnly, Codes, Goto
        <4>3. CASE LoadOrganization(c)
          BY <1>1, <2>2, <4>3 DEF LoadOrganization, Codes, Goto
        <4>4. CASE RequireSubscription(c)
          <5>1. GateRefusal(org[c]) \in Codes \ {200}
            BY DEF GateRefusal, Codes
          <5>2. QED
            BY <1>1, <2>2, <4>4, <5>1 DEF RequireSubscription, Goto
        <4>5. QED
          BY <3>1, <4>1, <4>2, <4>3, <4>4 DEF Middleware
      <3>3. QED
        BY <3>2
    <2>3. QED
      BY <2>1, <2>2
  <1>4. WalkOf(c)'
    BY <1>1, <1>2, <1>3, MiddlewareFrame, OnItsWay
  <1>5. TotalOf(c)'
    BY <1>2, <1>3 DEF TotalOf
  <1>6. QED
    BY <1>4, <1>5

LEMMA HandlerWalk ==
  ASSUME WalkInv, NEW c \in Clients, Handler(c)
  PROVE WalkOf(c)' /\ TotalOf(c)'
  <1>1. /\ WalkOf(c) /\ pc \in [Clients -> Steps]
        /\ answer \in [Clients -> Codes]
        /\ total \in [Clients -> Nat] /\ TypeOK /\ SecondFollows
        /\ visible \subseteq Rows
    BY DEF WalkInv, ContextInv, TypeInv, TypeOK
  <1>2. /\ UNCHANGED <<visible, in, user, org>>
        /\ pc[c] \in {"handler", "second"}
    BY HandlerFrame DEF At
  <1>3. CASE Page(c)
    BY <1>3, PageStep
  <1>4. CASE ~Page(c) /\ IsList(in[c])
    <2>1. \/ /\ Goto(c, "second") /\ UNCHANGED walk
             /\ total' = [total EXCEPT ![c] = Cardinality(Query(in[c], org[c]))]
          \/ Answer(c, 500) /\ UNCHANGED walk
      BY <1>4, ListSteps
    <2>2. pc'[c] = "second" \/ (pc'[c] = "done" /\ answer'[c] = 500)
      BY <1>1, <2>1 DEF Goto, Answer
    <2>3. WalkOf(c)'
      BY <1>1, <1>2, <2>1, <2>2, OnItsWay DEF walk
    <2>4. TotalOf(c)'
      <3>1. ASSUME pc'[c] = "second"
            PROVE total'[c] <= Cardinality(Matching(visible, in[c], org[c]))
        <4>1. total' = [total EXCEPT ![c] = Cardinality(Query(in[c], org[c]))]
          BY <1>1, <2>1, <3>1 DEF Answer
        <4>2. /\ Query(in[c], org[c]) = Matching(visible, in[c], org[c])
              /\ Query(in[c], org[c]) \in SUBSET Rows
          BY <1>1, <1>4, QueryMatches, QueryRows
        <4>3. Cardinality(Query(in[c], org[c])) \in Nat
          BY <4>2, SetsFinite
        <4>4. total'[c] = Cardinality(Query(in[c], org[c]))
          BY <1>1, <4>1
        <4>5. QED
          BY <4>2, <4>3, <4>4
      <3>2. QED
        BY <1>2, <2>2, <3>1 DEF TotalOf
    <2>5. QED
      BY <2>3, <2>4
  <1>5. CASE ~Page(c) /\ ~IsList(in[c])
    <2>1. UNCHANGED walk
      BY <1>5, HandlerFrame
    <2>2. base'[c] = {}
      BY <1>1, <1>5, <2>1 DEF walk, WalkOf, Selects
    <2>3. ~IsList(in[c])'
      BY <1>2, <1>5 DEF IsList
    <2>4. QED
      BY <2>2, <2>3 DEF WalkOf, TotalOf
  <1>6. QED
    BY <1>3, <1>4, <1>5

LEMMA WalkStep ==
  ASSUME WalkInv, [Next]_vars PROVE WalkInv'
  <1>1. /\ ContextInv /\ ContextInv' /\ TypeInv /\ TypeOK
        /\ \A c \in Clients : WalkOf(c) /\ TotalOf(c)
    BY ContextStep DEF WalkInv, ContextInv, TypeInv
  <1>2. ASSUME NEW c \in Clients, WalkOf(c)', TotalOf(c)',
               \/ \E i \in Inputs : Arrive(c, i)
               \/ NextPage(c)
               \/ Middleware(c)
               \/ Handler(c)
        PROVE WalkInv'
    <2>1. visible' = visible
      BY <1>2, MiddlewareFrame, HandlerFrame DEF Arrive, NextPage, Send, rows
    <2>2. ASSUME NEW d \in Clients, d # c PROVE WalkOf(d)' /\ TotalOf(d)'
      <3>1. /\ in'[d] = in[d] /\ pc'[d] = pc[d] /\ user'[d] = user[d]
            /\ org'[d] = org[d] /\ total'[d] = total[d] /\ shown'[d] = shown[d]
            /\ answer'[d] = answer[d] /\ base'[d] = base[d]
            /\ seen'[d] = seen[d]
        BY <1>1, <1>2, <2>2, OthersStay
      <3>2. WalkOf(d)'
        BY <1>1, <2>1, <3>1 DEF WalkOf, Selects, ToCome, IsList
      <3>3. TotalOf(d)'
        BY <1>1, <2>1, <3>1 DEF TotalOf, IsList
      <3>4. QED
        BY <3>2, <3>3
    <2>3. QED
      BY <1>1, <1>2, <2>2 DEF WalkInv
  <1>3. CASE \E r \in Rows : Insert(r)
    BY <1>1, <1>3, InsertWalk DEF WalkInv
  <1>4. ASSUME NEW c \in Clients, NEW i \in Inputs, Arrive(c, i) PROVE WalkInv'
    <2>1. base'[c] = {} /\ pc'[c] \notin {"done", "second"}
      <3>1. PlaceType /\ base \in [Clients -> SUBSET Rows]
        BY <1>1, TypeParts DEF WalkType
      <3>2. Send(c, i) /\ base' = [base EXCEPT ![c] = {}]
        BY <1>4 DEF Arrive
      <3>3. pc'[c] \notin {"done", "second"}
        BY <3>1, <3>2, SendPlace
      <3>4. QED
        BY <3>1, <3>2, <3>3
    <2>2. WalkOf(c)' /\ TotalOf(c)'
      BY <2>1 DEF WalkOf, TotalOf
    <2>3. QED
      BY <1>2, <1>4, <2>2
  <1>5. ASSUME NEW c \in Clients, NextPage(c) PROVE WalkInv'
    BY <1>2, <1>5, NextPageWalk
  <1>6. ASSUME NEW c \in Clients, Middleware(c) PROVE WalkInv'
    BY <1>2, <1>6, MiddlewareWalk
  <1>7. ASSUME NEW c \in Clients, Handler(c) PROVE WalkInv'
    BY <1>2, <1>7, HandlerWalk
  <1>8. CASE UNCHANGED vars
    BY <1>1, <1>8 DEF vars, WalkInv, WalkOf, Selects, ToCome, TotalOf, IsList
  <1>9. QED
    BY <1>3, <1>4, <1>5, <1>6, <1>7, <1>8, StepCases

LEMMA WalkAlways == Spec => []WalkInv
  <1>1. ASSUME Init PROVE WalkInv
    <2>1. ContextInv
      <3>1. TypeInv
        BY <1>1, InitTypeOK DEF Init, TypeInv, SecondFollows, At
      <3>2. \A c \in Clients : /\ pc[c] = "idle" /\ org[c] = None
                               /\ shown[c] = {}
        BY <1>1 DEF Init
      <3>3. QED
        BY <3>1, <3>2 DEF ContextInv, PlaceOf, ContextOf, AnswerOf
    <2>2. \A c \in Clients : pc[c] = "idle" /\ base[c] = {}
      BY <1>1 DEF Init
    <2>3. QED
      BY <2>1, <2>2 DEF WalkInv, WalkOf, TotalOf
  <1>2. WalkInv /\ [Next]_vars => WalkInv'
    BY WalkStep
  <1>3. QED
    BY <1>1, <1>2, PTL DEF Spec

(* A client that asks for page after page until one is not full has been   *)
(* shown every row that matched at the first, however many rows are        *)
(* inserted between its requests and wherever they sort (event.go:150).    *)
THEOREM WalkMissesNothing == Spec => []PagesMissNothing
  <1>1. ASSUME WalkInv, NEW c \in Clients, Walks(c), ~Full(c),
               NEW r \in base[c], Alone(r)
        PROVE r \in seen[c]
    <2>1. WalkOf(c) /\ Lone(visible, r)
      BY <1>1 DEF WalkInv, Alone, Lone
    <2>2. QED
      BY <1>1, <2>1 DEF WalkOf, ToCome, Walks, Full, At
  <1>2. WalkInv => PagesMissNothing
    BY <1>1 DEF PagesMissNothing
  <1>3. QED
    BY <1>2, WalkAlways, PTL

(* The total that comes with a page is read before the page and promises   *)
(* no row after the last one, whatever is inserted between the two         *)
(* statements (event.go:138-157).                                          *)
THEOREM TotalsReached == Spec => []TotalReached
  <1>1. ASSUME WalkInv, NEW c \in Clients, Walks(c), ~Full(c)
        PROVE Offset(Paginator(in[c])) + Cardinality(shown[c]) >= total[c]
    <2>1. TotalOf(c)
      BY <1>1 DEF WalkInv
    <2>2. QED
      BY <1>1, <2>1 DEF TotalOf, Walks, Full, At
  <1>2. WalkInv => TotalReached
    BY <1>1 DEF TotalReached
  <1>3. QED
    BY <1>2, WalkAlways, PTL
===============================================================================
