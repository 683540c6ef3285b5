-------------------------------- MODULE Access ---------------------------------
(***************************************************************************)
(* Who reaches a handler, and with what in the request's context: the      *)
(* route table (server/http.go) and the decisions of the two middlewares   *)
(* requireAuthentication and requireOrganizationValidSubscription          *)
(* (server/middleware.go).                                                 *)
(*                                                                         *)
(* A path is the sequence of its segments below /v1; a trailing slash is   *)
(* an empty last segment, which the router accepts for "/organizations"    *)
(* and the comparisons of the middlewares do not.                          *)
(***************************************************************************)
EXTENDS Naturals, FiniteSets, Sequences

R(method, path, handler) ==
  [method |-> method, path |-> path, handler |-> handler]

Public ==
  {R("POST", <<"auth", "connect", "provider">>, "login"),
   R("POST", <<"auth", "register">>, "signup"),
   R("POST", <<"auth", "reset-password">>, "reset"),
   R("POST", <<"auth", "forgot-password">>, "forgot"),
   R("GET", <<"plans">>, "plan.ListAll")}

(* requireAuthentication, then the subscription gate                       *)
Gated ==
  {R("GET", <<"auth", "account", "me">>, "me"),
   R("POST", <<"auth", "account", "invite">>, "invite"),
   R("GET", <<"auth", "account", "users">>, "users"),
   R("PATCH", <<"auth", "account", "revoke", "ref">>, "revoke"),
   R("PATCH", <<"auth", "account", "edit">>, "edit"),
   R("POST", <<"organizations">>, "createOrg"),
   R("POST", <<"organizations", "">>, "createOrg"),
   R("PATCH", <<"organizations">>, "patch"),
   R("PATCH", <<"organizations", "">>, "patch"),
   R("DELETE", <<"organizations">>, "delete"),
   R("DELETE", <<"organizations", "">>, "delete"),
   R("GET", <<"audit-logs", "ref">>, "auditLog.List"),
   R("GET", <<"audit-logs">>, "auditLog.ListAll"),
   R("POST", <<"events">>, "event.Create"),
   R("GET", <<"events", "ref">>, "event.List"),
   R("GET", <<"events">>, "event.ListAll"),
   R("GET", <<"sessions", "ref">>, "session.List"),
   R("GET", <<"sessions">>, "session.ListAll"),
   R("POST", <<"developers", "keys">>, "apiKey.create"),
   R("GET", <<"developers", "keys">>, "apiKey.list"),
   R("DELETE", <<"developers", "keys", "ref">>, "apiKey.revoke"),
   R("POST", <<"invitations">>, "invitation.Create"),
   R("GET", <<"invitations">>, "invitation.List"),
   R("DELETE", <<"invitations", "ref">>, "invitation.Delete")}

(* requireAuthentication alone                                             *)
Ungated ==
  {R("POST", <<"plans", "admin">>, "plan.Create"),
   R("GET", <<"plans", "admin", "ref">>, "plan.List"),
   R("PATCH", <<"plans", "admin", "ref">>, "plan.Update"),
   R("DELETE", <<"plans", "admin", "ref">>, "plan.Delete"),
   R("GET", <<"metrics", "sessions">>, "session.Metrics"),
   R("GET", <<"metrics", "events">>, "event.Metrics"),
   R("GET", <<"metrics", "events", "top-actors">>, "event.TopActorMetrics"),
   R("GET", <<"metrics", "auditlogs">>, "auditLog.Metrics")}

(* requireAPIKeyOnly, then the subscription gate                           *)
ByKey ==
  {R("POST", <<"developers", "events">>, "event.Create"),
   R("POST", <<"developers", "sessions">>, "session.Create"),
   R("POST", <<"developers", "sessions", "logout">>, "session.Logout"),
   R("POST", <<"developers", "audit-logs">>, "auditLog.Create")}

Routes == Public \union Gated \union Ungated \union ByKey

-------------------------------------------------------------------------------
(* util.IsStringEmpty trims: to the checks of a request's fields, a blank  *)
(* string is empty like the one of no characters.                          *)
Blank == " "
IsStringEmpty(s) == s \in {"", Blank}

None == 0                       \* no organization: they are numbered from 1

(* resolveOrganizationIDForRequest: of the user's organizations the one    *)
(* the header selects, or the only one; None stands for a header that is   *)
(* missing or is no UUID.                                                  *)
ResolvedAsAsked(mine, selected) ==                         \* variant
  IF selected # None THEN {selected}
  ELSE IF Cardinality(mine) = 1 THEN mine ELSE {}
Resolved(mine, selected) ==
  IF selected \in mine THEN {selected}
  ELSE IF Cardinality(mine) = 1 THEN mine ELSE {}

Refusal(mine, selected) ==
  IF mine = {} \/ selected = None THEN 428 ELSE 403

(* shouldSkipOrganizationSelection                                         *)
SkipsByPath(rt) == \/ rt.path = <<"auth", "connect", "provider">>  \* variant
                   \/ rt.path = <<"organizations">>
                   \/ rt.path = <<"auth", "account", "me">>
SkipsOrganization(rt) ==
  \/ Len(rt.path) > 1 /\ SubSeq(rt.path, 1, 2) = <<"auth", "connect">>
  \/ rt.path = <<"organizations">> /\ rt.method = "POST"
  \/ rt.path = <<"auth", "account", "me">>

(* requireOrganizationValidSubscription.  Of the paths it lists only       *)
(* "/organizations" is a route.                                            *)
SkipsSubscription(rt) == \/ rt.path = <<"organizations">>
                         \/ SkipsOrganization(rt)

(* The gate lets the request pass, or answers for it.                      *)
Passes(rt, org, active) == SkipsSubscription(rt) \/ (org # None /\ active)
GateRefusal(org) == IF org = None THEN 428 ELSE 402
===============================================================================
