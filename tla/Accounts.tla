-------------------------------- MODULE Accounts -------------------------------
(***************************************************************************)
(* Organizations, users and their memberships: the handlers of             *)
(* server/auth.go and server/organization.go behind the middlewares of     *)
(* server/middleware.go, the statements of their repositories one by one,  *)
(* and the consumers that send the mails they queue.                       *)
(*                                                                         *)
(* A user is its e-mail address, which is unique, deleted rows included.   *)
(* Of a user's row the model keeps the metadata; of a password, whether    *)
(* there is one; of a token, whom it names.  Of the checks that answer 400 *)
(* before a handler reads anything, the model keeps that of the name of an *)
(* organization; the others are of fields it does not have.                *)
(***************************************************************************)
EXTENDS Access

CONSTANTS Users,
          Names,        \* of organizations, not empty; Blank may be one
          MaxOrgs,      \* bound: organizations ever created
          MaxRequests,  \* bound: requests
          Inputs,       \* the requests that are made
          MaxFaults     \* bound: failing statements and crashes

Orgs == 1..MaxOrgs
Requests == 1..MaxRequests
Roles == {"", "admin", "member"}
Ops == {"signup", "login", "google", "forgot", "reset", "createOrg", "me",
        "edit", "revoke", "invite", "users", "patch", "delete"}

(* user: who makes the request (or says to); target: the user it is about; *)
(* selected: the organization header; name: an organization's; password,   *)
(* field: what an edit changes; active: what a PATCH says of the           *)
(* subscription, if it has the field.                                      *)
Input == [op : Ops, user : Users, target : Users,
          selected : Orgs \union {None}, name : Names \union {""},
          password : BOOLEAN, field : BOOLEAN,
          active : {"unsaid", "no", "yes"}]

ASSUME AccountsAssumption ==
         /\ MaxOrgs \in Nat \ {0}
         /\ MaxRequests \in Nat
         /\ MaxFaults \in Nat
         /\ Inputs # {}
         /\ Inputs \subseteq Input
         /\ \A i \in Inputs :
              i.op \notin {"revoke", "invite"} => i.target = i.user

VARIABLES
  orgs,       \* orgs[o]: a row of organizations
  users,      \* users[u]: a row of users
  passwords,  \* users with a row of user_passwords
  tokens,     \* users with a row of email_verifications
  mail,       \* mail[r]: the message request r queued
  in,         \* in[r]: what the request is
  pc,         \* pc[r]: the statement it executes next
  org,        \* org[r]: the organization of its context, or the one it made
  copy,       \* copy[r]: the row of users it holds
  answer,     \* answer[r]: its status; 0 for none, as the connection dropped
  faults,
  \* history
  hit,        \* requests one of whose statements failed, or that crashed
  ready,      \* users whose sign-up was answered as done
  began,      \* began[r]: ready when r arrived
  facts,      \* <<u, o>>: u was given o;  <<u, None>>: u's role was revoked
  held,       \* held[r]: facts that came while r held its copy
  wrote       \* requests that wrote a row of users back

tables == <<orgs, users, passwords, tokens>>
stale == <<facts, held, wrote>>
vars == <<orgs, users, passwords, tokens, mail, in, pc, org, copy, answer,
          faults, hit, ready, began, facts, held, wrote>>

OrgRow == [state : {"absent", "live", "deleted"},
           name : Names \union {""}, active : BOOLEAN]
UserRow == [exists : BOOLEAN, meta : BOOLEAN, orgs : SUBSET Orgs, role : Roles]
Steps == {"idle", "context", "organization", "insert", "account", "password",
          "token", "queue", "lookup", "check", "exchange", "create", "replace",
          "reread", "write", "invite", "update", "delete", "me", "users",
          "nothing", "refuse", "done"}
Codes == {0, 200, 201, 400, 401, 402, 403, 404, 409, 428, 500}
Facts == Users \X (Orgs \union {None})

NoUser == [exists |-> FALSE, meta |-> FALSE, orgs |-> {}, role |-> ""]
NoOrg == [state |-> "absent", name |-> "", active |-> FALSE]
Member(o, role) == [exists |-> TRUE, meta |-> TRUE, orgs |-> {o}, role |-> role]

TypeOK == /\ orgs \in [Orgs -> OrgRow]
          /\ users \in [Users -> UserRow]
          /\ passwords \subseteq Users
          /\ tokens \subseteq Users
          /\ mail \in [Requests -> {"none", "queued", "sent", "dead", "lost"}]
          /\ in \in [Requests -> Input]
          /\ pc \in [Requests -> Steps]
          /\ org \in [Requests -> Orgs \union {None}]
          /\ copy \in [Requests -> UserRow]
          /\ answer \in [Requests -> Codes]
          /\ faults \in Nat
          /\ hit \subseteq Requests
          /\ ready \subseteq Users
          /\ began \in [Requests -> SUBSET Users]
          /\ facts \subseteq Facts
          /\ held \in [Requests -> SUBSET Facts]
          /\ wrote \subseteq Requests

(* Nobody, or one organization with its administrator.                     *)
Init == /\ \/ /\ orgs = [o \in Orgs |-> NoOrg]
              /\ users = [u \in Users |-> NoUser]
              /\ passwords = {}
              /\ facts = {}
           \/ \E u \in Users, n \in Names, a \in BOOLEAN :
                /\ orgs = [o \in Orgs |->
                             IF o = 1 THEN [state |-> "live", name |-> n,
                                            active |-> a] ELSE NoOrg]
                /\ users = [v \in Users |->
                              IF v = u THEN Member(1, "admin") ELSE NoUser]
                /\ passwords = {u}
                /\ facts = {<<u, 1>>}
        /\ tokens = {}
        /\ mail = [r \in Requests |-> "none"]
        /\ in = [r \in Requests |-> CHOOSE i \in Inputs : TRUE]
        /\ pc = [r \in Requests |-> "idle"]
        /\ org = [r \in Requests |-> None]
        /\ copy = [r \in Requests |-> NoUser]
        /\ answer = [r \in Requests |-> 0]
        /\ faults = MaxFaults
        /\ hit = {}
        /\ ready = {}
        /\ began = [r \in Requests |-> {}]
        /\ held = [r \in Requests |-> {}]
        /\ wrote = {}

-------------------------------------------------------------------------------
(* The steps of a request.                                                 *)

RouteOf ==
  [op \in {"createOrg", "me", "edit", "revoke", "invite", "users", "patch",
           "delete"} |-> CHOOSE rt \in Gated :
                           rt.handler = op /\ rt.path # <<"organizations", "">>]

At(r, step) == pc[r] = step
Open == {r \in Requests : pc[r] \notin {"idle", "done"}}

Goto(r, step) == /\ pc' = [pc EXCEPT ![r] = step]
                 /\ UNCHANGED <<answer, ready>>

Answer(r, code) ==
  /\ pc' = [pc EXCEPT ![r] = "done"]
  /\ answer' = [answer EXCEPT ![r] = code]
  /\ ready' = IF in[r].op = "signup" /\ code = 200
                THEN ready \union {in[r].user} ELSE ready

NoFault == UNCHANGED <<faults, hit>>
Fault(r) == /\ faults > 0
            /\ faults' = faults - 1
            /\ hit' = hit \union {r}

(* A statement has taken effect: the handler goes on, or the statement     *)
(* reported an error all the same, as one that timed out.                  *)
Goes(r, step) == \/ Goto(r, step) /\ NoFault
                 \/ Answer(r, 500) /\ Fault(r)
Succeeds(r, code) == \/ Answer(r, code) /\ NoFault
                     \/ Answer(r, 500) /\ Fault(r)

(* A row of a user was changed: who holds a copy of it does not know.      *)
Land(r, new) ==
  /\ facts' = facts \union new
  /\ held' = [q \in Requests |->
                IF q # r /\ q \in Open THEN held[q] \union new ELSE held[q]]

(* The checks of signUpRequest and createOrgRequest.                       *)
Valid(i) == i.op \in {"signup", "createOrg"} => ~IsStringEmpty(i.name)

First(i) ==
  CASE ~Valid(i) -> "refuse"
    [] Valid(i) /\ i.op \in {"signup", "createOrg"} -> "insert"
    [] i.op \in {"login", "forgot", "invite"} -> "lookup"
    [] i.op = "google" -> "exchange"
    [] i.op = "reset" -> "replace"
    [] i.op = "revoke" -> "reread"
    [] i.op = "edit" -> IF i.password THEN "check"
                        ELSE IF i.field THEN "reread" ELSE "nothing"
    [] i.op = "patch" -> "update"
    [] i.op \in {"delete", "me", "users"} -> i.op

(* A session token comes from a login, which takes a password; a reset     *)
(* token comes from a mail.  Requests are numbered as they arrive.         *)
Arrive(r, i) ==
  /\ At(r, "idle")
  /\ \A q \in Requests : q < r => ~At(q, "idle")
  /\ i.op \in DOMAIN RouteOf => i.user \in passwords
  /\ i.op = "reset" =>
       \E q \in Requests : /\ mail[q] = "sent"
                           /\ in[q].op = "forgot"
                           /\ in[q].user = i.user
  /\ in' = [in EXCEPT ![r] = i]
  /\ began' = [began EXCEPT ![r] = ready]
  /\ Goto(r, IF i.op \in DOMAIN RouteOf THEN "context" ELSE First(i))
  /\ UNCHANGED <<tables, mail, org, copy, faults, hit, stale>>

(* requireAuthentication: the user, and the organization to look up        *)
Context(r) ==
  LET u == in[r].user
      mine == users[u].orgs
      found == Resolved(mine, in[r].selected)
  IN /\ At(r, "context")
     /\ copy' = [copy EXCEPT ![r] = users[u]]
     /\ held' = [held EXCEPT ![r] = {}]
     /\ \/ /\ SkipsOrganization(RouteOf[in[r].op])
           /\ Goto(r, First(in[r]))
           /\ UNCHANGED org
        \/ /\ ~SkipsOrganization(RouteOf[in[r].op])
           /\ \E o \in found : org' = [org EXCEPT ![r] = o]
           /\ Goto(r, "organization")
        \/ /\ ~SkipsOrganization(RouteOf[in[r].op])
           /\ found = {}
           /\ Answer(r, Refusal(mine, in[r].selected))
           /\ UNCHANGED org
     /\ UNCHANGED <<tables, mail, in, faults, hit, began, facts, wrote>>

(* its row, and requireOrganizationValidSubscription                       *)
Organization(r) ==
  LET rt == RouteOf[in[r].op]
      row == orgs[org[r]]
  IN /\ At(r, "organization")
     /\ \/ /\ row.state # "live"
           /\ Answer(r, 500)
        \/ /\ row.state = "live"
           /\ Passes(rt, org[r], row.active)
           /\ Goto(r, First(in[r]))
        \/ /\ row.state = "live"
           /\ ~Passes(rt, org[r], row.active)
           /\ Answer(r, GateRefusal(org[r]))
     /\ NoFault
     /\ UNCHANGED <<tables, mail, in, org, copy, began, stale>>

(* Any statement may fail and change nothing: the handlers answer 500,     *)
(* all but inviteUserByEmail's INSERT, whose error is not looked at.       *)
StatementFails(r) ==
  /\ r \in Open
  /\ pc[r] \notin {"exchange", "invite", "nothing", "refuse"}
  /\ Fault(r)
  /\ Answer(r, 500)
  /\ UNCHANGED <<tables, mail, in, org, copy, began, stale>>

-------------------------------------------------------------------------------
(* Organizations (server/organization.go).                                 *)

Fresh == {o \in Orgs : orgs[o].state = "absent"}
Taken(n) == \E o \in Orgs : orgs[o].name = n

(* The column's default makes a new subscription active: the INSERT leaves *)
(* out a false one.                                                        *)
InsertUnchecked(r) ==                                      \* variant
  /\ At(r, "insert")
  /\ Goto(r, IF in[r].op = "signup" THEN "account" ELSE "write")
  /\ NoFault
  /\ \/ Taken(in[r].name) /\ UNCHANGED <<orgs, org>>
     \/ /\ ~Taken(in[r].name)
        /\ \E o \in Fresh :
             /\ orgs' = [orgs EXCEPT ![o] = [state |-> "live",
                           name |-> in[r].name, active |-> TRUE]]
             /\ org' = [org EXCEPT ![r] = o]
  /\ UNCHANGED <<users, passwords, tokens, mail, in, copy, began, stale>>
InsertOrganization(r) ==
  /\ At(r, "insert")
  /\ \/ /\ Taken(in[r].name)
        /\ Answer(r, IF in[r].op = "signup" THEN 409 ELSE 500)
        /\ NoFault
        /\ UNCHANGED <<orgs, org>>
     \/ /\ ~Taken(in[r].name)
        /\ \E o \in Fresh :
             /\ \A p \in Fresh : o <= p
             /\ orgs' = [orgs EXCEPT ![o] = [state |-> "live",
                           name |-> in[r].name, active |-> TRUE]]
             /\ org' = [org EXCEPT ![r] = o]
        /\ Goes(r, IF in[r].op = "signup" THEN "account" ELSE "write")
  /\ UNCHANGED <<users, passwords, tokens, mail, in, copy, began, stale>>

(* UPDATE with OmitZero: a name of no characters changes nothing, nor does *)
(* a false flag, which a body without the field decodes to as well.        *)
Patched(row, i) ==
  [row EXCEPT !.name = IF i.name = "" THEN @ ELSE i.name,
              !.active = @ \/ i.active = "yes"]

UpdateOrganization(r) ==
  LET o == org[r]
      i == in[r]
  IN /\ At(r, "update")
     /\ \/ /\ orgs[o].state = "live"
           /\ \A p \in Orgs \ {o} : i.name = "" \/ orgs[p].name # i.name
           /\ orgs' = [orgs EXCEPT ![o] = Patched(@, i)]
           /\ Succeeds(r, 200)
        \/ /\ orgs[o].state # "live"      \* no row is selected
           /\ Answer(r, 200)
           /\ NoFault
           /\ UNCHANGED orgs
        \/ /\ orgs[o].state = "live"
           /\ \E p \in Orgs \ {o} : i.name # "" /\ orgs[p].name = i.name
           /\ Answer(r, 500)
           /\ NoFault
           /\ UNCHANGED orgs
     /\ UNCHANGED <<users, passwords, tokens, mail, in, org, copy, began,
                    stale>>

DeleteOrganization(r) ==
  /\ At(r, "delete")
  /\ orgs' = [orgs EXCEPT ![org[r]].state = "deleted"]
  /\ Succeeds(r, 200)
  /\ UNCHANGED <<users, passwords, tokens, mail, in, org, copy, began, stale>>

-------------------------------------------------------------------------------
(* Rows of users that are read, changed and written back whole.            *)

(* editProfile and revokeUserRole read the row again, or another one.      *)
Reread(r) ==
  LET row == users[in[r].target]
      known == row.exists
      mine == in[r].op = "edit" \/ org[r] \in row.orgs
  IN /\ At(r, "reread")
     /\ \/ /\ known /\ mine
           /\ copy' = [copy EXCEPT ![r] = row]
           /\ held' = [held EXCEPT ![r] = {}]
           /\ Goto(r, "write")
        \/ /\ ~(known /\ mine)
           /\ Answer(r, IF known THEN 403 ELSE 404)
           /\ UNCHANGED <<copy, held>>
     /\ NoFault
     /\ UNCHANGED <<tables, mail, in, org, began, facts, wrote>>
OwnOnly(r) ==                                              \* variant
  CASE in[r].op = "createOrg" -> [copy[r] EXCEPT !.meta = TRUE,
                                                 !.orgs = {org[r]}]
    [] in[r].op = "revoke" -> [copy[r] EXCEPT !.role = "member"]
    [] in[r].op = "edit" -> copy[r]
AsWritten(r) ==
  CASE in[r].op = "createOrg" -> [copy[r] EXCEPT !.meta = TRUE,
                                                 !.orgs = @ \union {org[r]}]
    [] in[r].op = "revoke" -> [copy[r] EXCEPT !.role = "member"]
    [] in[r].op = "edit" -> copy[r]

NewFacts(r) ==
  CASE in[r].op = "createOrg" -> {<<in[r].target, org[r]>>}
    [] in[r].op = "revoke" -> {<<in[r].target, None>>}
    [] in[r].op = "edit" -> {}

(* UPDATE with OmitZero: metadata that is nil stays as it is.              *)
Overlay(row, new) == IF new.meta THEN new ELSE row

WriteUser(r) ==
  /\ At(r, "write")
  /\ users' = [users EXCEPT ![in[r].target] = Overlay(@, AsWritten(r))]
  /\ Land(r, NewFacts(r))
  /\ wrote' = wrote \union {r}
  /\ Succeeds(r, IF in[r].op = "createOrg" THEN 201 ELSE 200)
  /\ UNCHANGED <<orgs, passwords, tokens, mail, in, org, copy, began>>

-------------------------------------------------------------------------------
(* Sign-up: five writes without a transaction.                             *)

(* userRepo.Create never returns ErrUserExists: a taken address is a 500,  *)
(* and the organization stays.                                             *)
InsertAccount(r) ==
  LET u == in[r].user
  IN /\ At(r, "account")
     /\ \/ /\ users[u].exists
           /\ Answer(r, 500)
           /\ NoFault
           /\ UNCHANGED <<users, facts, held>>
        \/ /\ ~users[u].exists
           /\ users' = [users EXCEPT ![u] = Member(org[r], "admin")]
           /\ Land(r, {<<u, org[r]>>})
           /\ Goes(r, "password")
     /\ UNCHANGED <<orgs, passwords, tokens, mail, in, org, copy, began, wrote>>

PasswordLogged(r) ==                                       \* variant
  /\ At(r, "password")
  /\ \/ passwords' = passwords \union {in[r].user} /\ NoFault
     \/ UNCHANGED passwords /\ faults > 0 /\ faults' = faults - 1
        /\ UNCHANGED hit
  /\ Goto(r, "token")
  /\ UNCHANGED <<orgs, users, tokens, mail, in, org, copy, began, stale>>
InsertPassword(r) ==
  /\ At(r, "password")
  /\ passwords' = passwords \union {in[r].user}
  /\ Goes(r, "token")
  /\ UNCHANGED <<orgs, users, tokens, mail, in, org, copy, began, stale>>

TokenLogged(r) ==                                          \* variant
  /\ At(r, "token")
  /\ \/ tokens' = tokens \union {in[r].user} /\ NoFault
     \/ UNCHANGED tokens /\ Fault(r)
  /\ Goto(r, "queue")
  /\ UNCHANGED <<orgs, users, passwords, mail, in, org, copy, began, stale>>
InsertToken(r) ==
  /\ At(r, "token")
  /\ tokens' = tokens \union {in[r].user}
  /\ Goes(r, "queue")
  /\ UNCHANGED <<orgs, users, passwords, mail, in, org, copy, began, stale>>

(* The last step of a sign-up, an invitation and a forgotten password.     *)
Queue(r) ==
  /\ At(r, "queue")
  /\ mail' = [mail EXCEPT ![r] = "queued"]
  /\ Succeeds(r, 200)
  /\ UNCHANGED <<tables, in, org, copy, began, stale>>

-------------------------------------------------------------------------------
(* Logins and passwords.                                                   *)

(* The user by address.  inviteUserByEmail wants to find none, and         *)
(* requestPasswordReset answers the same in both cases.                    *)
LookUpLenient(r) ==                                        \* variant
  LET row == users[in[r].target]
  IN /\ At(r, "lookup")
     /\ copy' = [copy EXCEPT ![r] = row]
     /\ held' = [held EXCEPT ![r] = {}]
     /\ IF in[r].op = "login" THEN Goto(r, "check")
        ELSE IF in[r].op = "forgot" THEN Goto(r, "queue") ELSE Goto(r, "invite")
     /\ NoFault
     /\ UNCHANGED <<tables, mail, in, org, began, facts, wrote>>
LookUp(r) ==
  LET row == users[in[r].target]
  IN /\ At(r, "lookup")
     /\ copy' = [copy EXCEPT ![r] = row]
     /\ held' = [held EXCEPT ![r] = {}]
     /\ \/ /\ in[r].op = "login"
           /\ IF row.exists THEN Goto(r, "check") ELSE Answer(r, 401)
        \/ /\ in[r].op = "forgot"
           /\ IF row.exists THEN Goto(r, "queue") ELSE Answer(r, 200)
        \/ /\ in[r].op = "invite"
           /\ IF row.exists THEN Answer(r, 409) ELSE Goto(r, "invite")
     /\ NoFault
     /\ UNCHANGED <<tables, mail, in, org, began, facts, wrote>>

(* generateUserToken takes the role out of the metadata; without metadata  *)
(* it panics, and the connection drops.                                    *)
TokenFor(row) == IF row.meta THEN 200 ELSE 0

(* The stored password is read: a login goes on to its token, an edit may  *)
(* have given the wrong one.  loginWithEmail looks at the error of the     *)
(* comparison and not at its result (line 231): a wrong password is none.  *)
CheckPassword(r) ==
  /\ At(r, "check")
  /\ \/ /\ in[r].user \notin passwords
        /\ Answer(r, 500)
     \/ /\ in[r].user \in passwords
        /\ in[r].op = "login"
        /\ Answer(r, TokenFor(copy[r]))
     \/ /\ in[r].user \in passwords
        /\ in[r].op = "edit"
        /\ Goto(r, "replace") \/ Answer(r, 401)
  /\ NoFault
  /\ UNCHANGED <<tables, mail, in, org, copy, began, stale>>

(* The UPDATE of an edit or a reset; it may find no row to change.         *)
ReplacePassword(r) ==
  /\ At(r, "replace")
  /\ \/ /\ in[r].op = "edit" /\ in[r].field
        /\ Goes(r, "reread")
     \/ /\ ~(in[r].op = "edit" /\ in[r].field)
        /\ Succeeds(r, 200)
  /\ UNCHANGED <<tables, mail, in, org, copy, began, stale>>

(* loginWithGoogle: Google vouches for the user or does not ...            *)
Exchange(r) ==
  /\ At(r, "exchange")
  /\ Goto(r, "create") \/ Answer(r, 400)
  /\ NoFault
  /\ UNCHANGED <<tables, mail, in, org, copy, began, stale>>

(* ... and getOrCreateUser inserts a row without metadata.                 *)
GetOrCreateUser(r) ==
  LET u == in[r].user
      row == [NoUser EXCEPT !.exists = TRUE]
  IN /\ At(r, "create")
     /\ \/ /\ users[u].exists
           /\ Answer(r, 500)
           /\ NoFault
           /\ UNCHANGED users
        \/ /\ ~users[u].exists
           /\ users' = [users EXCEPT ![u] = row]
           /\ Succeeds(r, TokenFor(row))
     /\ UNCHANGED <<orgs, passwords, tokens, mail, in, org, copy, began, stale>>

(* inviteUserByEmail: a failed INSERT, also one of an address that was     *)
(* taken in the meantime, goes on to the queue like any other.             *)
InviteUser(r) ==
  LET u == in[r].target
  IN /\ At(r, "invite")
     /\ \/ /\ ~users[u].exists
           /\ \E role \in {"admin", "member"} :
                users' = [users EXCEPT ![u] = Member(org[r], role)]
           /\ Land(r, {<<u, org[r]>>})
           /\ NoFault \/ Fault(r)
        \/ /\ UNCHANGED <<users, facts, held>>
           /\ \/ users[u].exists /\ NoFault
              \/ Fault(r)
     /\ Goto(r, "queue")
     /\ UNCHANGED <<orgs, passwords, tokens, mail, in, org, copy, began, wrote>>

(* Two reads, and an edit that names nothing to change.                    *)
Replies(r, step) == /\ At(r, step)
                    /\ Answer(r, 200)
                    /\ NoFault
                    /\ UNCHANGED <<tables, mail, in, org, copy, began, stale>>
FetchCurrentUser(r) == Replies(r, "me")
ListOrganizationUsers(r) == Replies(r, "users")
EditNothing(r) == Replies(r, "nothing")

Refuse(r) == /\ At(r, "refuse")
             /\ Answer(r, 400)
             /\ NoFault
             /\ UNCHANGED <<tables, mail, in, org, copy, began, stale>>

-------------------------------------------------------------------------------
(* The consumers sendEmailVerification and sendPasswordResetEmail.  The    *)
(* topic of the invitations has none.                                      *)
Consumed == {"signup", "forgot"}

(* A user that cannot be read, or a send that fails, is a poisoned         *)
(* message.                                                                *)
Deliver(r) ==
  /\ mail[r] = "queued"
  /\ in[r].op \in Consumed
  /\ \/ mail' = [mail EXCEPT ![r] = "sent"] /\ NoFault
     \/ /\ mail' = [mail EXCEPT ![r] = "dead"]
        /\ faults > 0 /\ faults' = faults - 1
        /\ UNCHANGED hit
  /\ UNCHANGED <<tables, in, pc, org, copy, answer, ready, began, stale>>

(* The process dies: open requests end without an answer, and the next     *)
(* process reads the streams from their end.                               *)
Crash ==
  /\ faults > 0
  /\ faults' = faults - 1
  /\ hit' = hit \union Open
  /\ pc' = [r \in Requests |-> IF r \in Open THEN "done" ELSE pc[r]]
  /\ mail' = [r \in Requests |-> IF mail[r] = "queued" THEN "lost" ELSE mail[r]]
  /\ UNCHANGED <<tables, in, org, copy, answer, ready, began, stale>>

-------------------------------------------------------------------------------
Step(r) ==
  \/ Context(r) \/ Organization(r) \/ StatementFails(r)
  \/ InsertOrganization(r) \/ UpdateOrganization(r) \/ DeleteOrganization(r)
  \/ Reread(r) \/ WriteUser(r)
  \/ InsertAccount(r) \/ InsertPassword(r) \/ InsertToken(r) \/ Queue(r)
  \/ LookUp(r) \/ CheckPassword(r) \/ ReplacePassword(r)
  \/ Exchange(r) \/ GetOrCreateUser(r) \/ InviteUser(r)
  \/ FetchCurrentUser(r) \/ ListOrganizationUsers(r) \/ EditNothing(r)
  \/ Refuse(r)

Next == \/ \E r \in Requests, i \in Inputs : Arrive(r, i)
        \/ \E r \in Requests : Step(r) \/ Deliver(r)
        \/ Crash

Spec == Init /\ [][Next]_vars

-------------------------------------------------------------------------------
(* Properties.                                                             *)

(* A user whose sign-up was answered as done can log in: no failure in the *)
(* five writes of emailSignUp (auth.go:461-523) is taken for a success.    *)
LoginAfterSignUp ==
  \A r \in Requests :
    At(r, "done") /\ in[r].op = "login" /\ in[r].user \in began[r]
      => answer[r] = 200 \/ r \in hit

(* What was given to a user, an organization or the loss of the role, is   *)
(* only undone by a request that had read the row before and wrote it back *)
(* afterwards (organization.go:95, auth.go:375, auth.go:715): one request  *)
(* after the other loses nothing.                                          *)
Holds(row, x) == IF x = None THEN row.role = "member" ELSE x \in row.orgs
Excused(f) == \E q \in wrote : f \in held[q] /\ in[q].target = f[1]
ChangesSurvive == \A f \in facts : Holds(users[f[1]], f[2]) \/ Excused(f)

(* Whoever an answered invitation names joins the organization, unless a   *)
(* statement failed or another request made the account after this one had *)
(* looked for it (auth.go:618 passes over both).                           *)
InvitedJoins ==
  \A r \in Requests :
    At(r, "done") /\ in[r].op = "invite" /\ answer[r] = 200
      => \/ <<in[r].target, org[r]>> \in facts
         \/ r \in hit
         \/ ~copy[r].exists /\ users[in[r].target].exists

(* A verification mail carries a token that is stored (auth.go:528-548),   *)
(* whatever failed on the way.                                             *)
MailedTokensStored ==
  \A r \in Requests : in[r].op = "signup" /\ mail[r] # "none"
                        => in[r].user \in tokens

-------------------------------------------------------------------------------
(* A statement of the repository that the code does not keep.              *)

(* "Organization updated successfully" (organization.go:155): when a       *)
(* request that says is_subscription_active is false was answered so, the  *)
(* organization has no subscription until a request says the opposite.     *)
Withdrawn(o) ==
  /\ \E r \in Requests : /\ At(r, "done") /\ answer[r] = 200
                         /\ in[r].op = "patch" /\ in[r].active = "no"
                         /\ org[r] = o
  /\ \A q \in Requests \ {r \in Requests : At(r, "idle")} :
       ~(in[q].op = "patch" /\ in[q].active = "yes")
WithdrawalHolds ==
  \A o \in Orgs : Withdrawn(o) /\ orgs[o].state = "live" => ~orgs[o].active
===============================================================================
