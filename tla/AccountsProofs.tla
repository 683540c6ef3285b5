---------------------------- MODULE AccountsProofs -----------------------------
(***************************************************************************)
(* Proofs about Accounts for any users, organizations, requests, inputs    *)
(* and faults, from AccountsAssumption alone.                              *)
(*                                                                         *)
(* A request is only ever at a statement of its own handler (PathInv) and  *)
(* knows its organization where it gives it to a user (OrgInv); with the   *)
(* types this is TypeInv.  On it rest TokenInv (a mail follows its token), *)
(* RowsInv (accounts, once there, stay and are whole), SurviveInv (what a  *)
(* held copy lacks came while it was held), InviteInv and LoginInv, each   *)
(* with one lemma for the initial states, one for a step of a request and  *)
(* one for Next.                                                           *)
(***************************************************************************)
EXTENDS Accounts, TLAPS

-------------------------------------------------------------------------------
(* The path of a request through its handler.                              *)

InContext == {"createOrg", "me", "edit", "revoke", "invite", "users", "patch",
              "delete"}

Path(op) ==
  CASE op = "signup" -> {"insert", "account", "password", "token", "queue",
                         "refuse"}
    [] op = "login" -> {"lookup", "check"}
    [] op = "google" -> {"exchange", "create"}
    [] op = "forgot" -> {"lookup", "queue"}
    [] op = "reset" -> {"replace"}
    [] op = "createOrg" -> {"context", "organization", "insert", "write",
                            "refuse"}
    [] op = "edit" -> {"context", "organization", "check", "reread",
                       "nothing", "replace", "write"}
    [] op = "revoke" -> {"context", "organization", "reread", "write"}
    [] op = "invite" -> {"context", "organization", "lookup", "invite",
                         "queue"}
    [] op = "patch" -> {"context", "organization", "update"}
    [] op \in {"delete", "me", "users"} -> {"context", "organization", op}

PathInv == \A r \in Requests : pc[r] \in {"idle", "done"} \union Path(in[r].op)

(* The organization a request is about to give to a user is one.           *)
OrgInv ==
  \A r \in Requests :
    \/ At(r, "account")
    \/ At(r, "write") /\ in[r].op = "createOrg"
    \/ pc[r] \in {"organization", "lookup", "invite"} /\ in[r].op = "invite"
    => org[r] \in Orgs

TypeInv == TypeOK /\ PathInv /\ OrgInv

(* The first statement after the middlewares is one of the handler.        *)
LEMMA FirstOnPath ==
  ASSUME NEW i \in Input
  PROVE /\ First(i) \in Path(i.op)
        /\ First(i) \in Steps
        /\ First(i) \notin {"idle", "context", "organization", "account",
                            "password", "token", "write", "queue",
                            "invite", "done"}
  <1>1. i.op \in Ops
    BY DEF Input
  <1>2. CASE ~Valid(i)
    BY <1>2 DEF First, Valid, Path, Steps
  <1>3. CASE Valid(i) /\ i.op \in {"signup", "createOrg"}
    BY <1>3 DEF First, Path, Steps
  <1>4. CASE i.op \in {"login", "forgot", "invite", "google", "reset", "revoke"}
    BY <1>4 DEF First, Valid, Path, Steps
  <1>5. CASE i.op = "edit"
    BY <1>5 DEF First, Valid, Path, Steps
  <1>6. CASE i.op \in {"patch", "delete", "me", "users"}
    BY <1>6 DEF First, Valid, Path, Steps
  <1>7. QED
    BY <1>1, <1>2, <1>3, <1>4, <1>5, <1>6 DEF Ops

LEMMA InputsTyped == \A i \in Inputs : i \in Input
  BY AccountsAssumption

(* The route of an invitation needs an organization.                       *)
LEMMA InviteRoute == ~SkipsOrganization(RouteOf["invite"])
  <1> DEFINE rt == R("POST", <<"auth", "account", "invite">>, "invite")
  <1>1. /\ rt \in Gated /\ rt.handler = "invite"
        /\ rt.path # <<"organizations", "">>
    BY DEF Gated, R
  <1>2. \A x \in Gated : x.handler = "invite" => x = rt
    <2>1. \A m, p, h : R(m, p, h).handler = h
      BY DEF R
    <2>2. ASSUME NEW x \in Gated, x.handler = "invite" PROVE x = rt
      BY <2>1, <2>2, ZenonT(60) DEF Gated
    <2>3. QED
      BY <2>2
  <1>3. RouteOf["invite"] = rt
    BY <1>1, <1>2 DEF RouteOf
  <1>4. SubSeq(rt.path, 1, 2) # <<"auth", "connect">>
    <2>1. rt.path = <<"auth", "account", "invite">>
      BY DEF R
    <2>2. SubSeq(rt.path, 1, 2)[2] = "account"
      BY <2>1
    <2>3. <<"auth", "connect">>[2] = "connect"
      OBVIOUS
    <2>4. QED
      BY <2>2, <2>3
  <1>5. rt.path # <<"organizations">> /\ rt.path # <<"auth", "account", "me">>
    BY DEF R
  <1>6. QED
    BY <1>3, <1>4, <1>5 DEF SkipsOrganization

(* The organization of the context is one of the user's.                   *)
LEMMA ResolvedIsMine ==
  \A mine \in SUBSET Orgs, s \in Orgs \union {None} :
    Resolved(mine, s) \subseteq mine
  BY DEF Resolved

-------------------------------------------------------------------------------
(* Types.                                                                  *)

LEMMA InitTypes == Init => TypeInv
  <1> SUFFICES ASSUME Init PROVE TypeInv
    OBVIOUS
  <1>1. /\ orgs \in [Orgs -> OrgRow]
        /\ users \in [Users -> UserRow]
        /\ passwords \subseteq Users
        /\ facts \subseteq Facts
    <2>1. 1 \in Orgs /\ NoUser \in UserRow /\ NoOrg \in OrgRow
      BY AccountsAssumption
         DEF Orgs, NoUser, NoOrg, UserRow, OrgRow, Roles
    <2>2. \A o \in Orgs : Member(o, "admin") \in UserRow
      BY DEF Member, UserRow, Roles
    <2>3. CASE /\ orgs = [o \in Orgs |-> NoOrg]
               /\ users = [u \in Users |-> NoUser]
               /\ passwords = {}
               /\ facts = {}
      BY <2>1, <2>3
    <2>4. ASSUME NEW u \in Users, NEW n \in Names, NEW a \in BOOLEAN,
                 orgs = [o \in Orgs |->
                           IF o = 1 THEN [state |-> "live", name |-> n,
                                          active |-> a] ELSE NoOrg],
                 users = [v \in Users |->
                            IF v = u THEN Member(1, "admin") ELSE NoUser],
                 passwords = {u},
                 facts = {<<u, 1>>}
          PROVE /\ orgs \in [Orgs -> OrgRow]
                /\ users \in [Users -> UserRow]
                /\ passwords \subseteq Users
                /\ facts \subseteq Facts
      <3>1. [state |-> "live", name |-> n, active |-> a] \in OrgRow
        BY DEF OrgRow
      <3>2. QED
        BY <2>1, <2>2, <2>4, <3>1 DEF Facts
    <2>5. QED
      BY <2>3, <2>4 DEF Init
  <1>2. in \in [Requests -> Input]
    BY AccountsAssumption DEF Init
  <1>3. TypeOK
    BY <1>1, <1>2, AccountsAssumption
       DEF Init, TypeOK, NoUser, UserRow, Roles, Steps, Codes
  <1>4. PathInv /\ OrgInv
    BY DEF Init, PathInv, OrgInv, At
  <1>5. QED
    BY <1>3, <1>4 DEF TypeInv

(* What the answer of a request, or its next step, does to the types.      *)
Moves(r) == \/ \E step \in Steps : Goto(r, step)
            \/ \E code \in Codes : Answer(r, code)

LEMMA MovesType ==
  ASSUME TypeOK, NEW r \in Requests, Moves(r)
  PROVE /\ pc' \in [Requests -> Steps]
        /\ answer' \in [Requests -> Codes]
        /\ ready' \subseteq Users
  <1>1. \A q \in Requests : in[q].user \in Users
    BY DEF TypeOK, Input
  <1>2. QED
    BY <1>1 DEF TypeOK, Moves, Goto, Answer, Steps

LEMMA FaultType ==
  ASSUME TypeOK, NEW r \in Requests, NoFault \/ Fault(r)
  PROVE faults' \in Nat /\ hit' \subseteq Requests
  BY DEF TypeOK, NoFault, Fault

LEMMA LandType ==
  ASSUME TypeOK, NEW r \in Requests, NEW new \in SUBSET Facts, Land(r, new)
  PROVE facts' \subseteq Facts /\ held' \in [Requests -> SUBSET Facts]
  BY DEF TypeOK, Land

(* A step of r leaves the other requests where they are.                   *)
LEMMA OthersStay ==
  ASSUME TypeOK, NEW r \in Requests, Moves(r), NEW q \in Requests, q # r
  PROVE pc'[q] = pc[q] /\ answer'[q] = answer[q]
  BY DEF TypeOK, Moves, Goto, Answer

(* A step ends the request, or takes it on along its path.                 *)
LEMMA StepMoves ==
  ASSUME TypeInv, NEW r \in Requests, Step(r)
  PROVE /\ Moves(r)
        /\ NoFault \/ Fault(r)
        /\ in' = in /\ began' = began
        /\ pc[r] \notin {"idle", "done"}
        /\ pc'[r] \in {"done"} \union Path(in[r].op)
  <1>1. in[r] \in Input /\ in[r].op \in Ops /\ pc[r] \in Steps
    BY DEF TypeInv, TypeOK, Input
  <1>2. pc[r] \in {"idle", "done"} \union Path(in[r].op)
    BY DEF TypeInv, PathInv
  <1>3. pc \in [Requests -> Steps]
    BY DEF TypeInv, TypeOK
  <1>4. /\ First(in[r]) \in Path(in[r].op)
        /\ First(in[r]) \in Steps
    BY <1>1, FirstOnPath
  <1>5. CASE Context(r)
    <2>1. pc[r] = "context" /\ in' = in /\ began' = began /\ NoFault
      BY <1>5 DEF Context, At, NoFault
    <2>2. "organization" \in Path(in[r].op)
      BY <1>1, <1>2, <2>1 DEF Path, Ops
    <2>3. \/ Goto(r, First(in[r]))
          \/ Goto(r, "organization")
          \/ \E code \in {403, 428} : Answer(r, code)
      BY <1>5 DEF Context, Refusal
    <2>4. QED
      BY <1>3, <1>4, <2>1, <2>2, <2>3 DEF Moves, Goto, Answer, Steps, Codes
  <1>6. CASE Organization(r)
    BY <1>1, <1>2, <1>3, <1>4, <1>6
       DEF Organization, GateRefusal, Moves, Goto, Answer, Goes, Succeeds, At,
           Steps, Codes, Path, Ops, tables, stale
  <1>7. CASE StatementFails(r)
    BY <1>1, <1>2, <1>3, <1>4, <1>7
       DEF StatementFails, Open, Moves, Goto, Answer, Goes, Succeeds, At,
           Steps, Codes, Path, Ops, tables, stale
  <1>8. CASE InsertOrganization(r)
    BY <1>1, <1>2, <1>3, <1>4, <1>8
       DEF InsertOrganization, Moves, Goto, Answer, Goes, Succeeds, At,
           Steps, Codes, Path, Ops, tables, stale
  <1>9. CASE UpdateOrganization(r)
    <2>1. /\ pc[r] = "update" /\ in' = in /\ began' = began
          /\ NoFault \/ Fault(r)
          /\ Answer(r, 200) \/ Answer(r, 500)
      BY <1>9 DEF UpdateOrganization, Succeeds, At
    <2>2. QED
      BY <1>3, <2>1 DEF Moves, Answer, Codes
  <1>10. CASE DeleteOrganization(r)
    BY <1>1, <1>2, <1>3, <1>4, <1>10
       DEF DeleteOrganization, Moves, Goto, Answer, Goes, Succeeds, At,
           Steps, Codes, Path, Ops, tables, stale
  <1>11. CASE Reread(r)
    BY <1>1, <1>2, <1>3, <1>4, <1>11
       DEF Reread, Moves, Goto, Answer, Goes, Succeeds, At,
           Steps, Codes, Path, Ops, tables, stale
  <1>12. CASE WriteUser(r)
    BY <1>1, <1>2, <1>3, <1>4, <1>12
       DEF WriteUser, Moves, Goto, Answer, Goes, Succeeds, At,
           Steps, Codes, Path, Ops, tables, stale
  <1>13. CASE InsertAccount(r)
    BY <1>1, <1>2, <1>3, <1>4, <1>13
       DEF InsertAccount, Moves, Goto, Answer, Goes, Succeeds, At,
           Steps, Codes, Path, Ops, tables, stale
  <1>14. CASE InsertPassword(r)
    BY <1>1, <1>2, <1>3, <1>4, <1>14
       DEF InsertPassword, Moves, Goto, Answer, Goes, Succeeds, At,
           Steps, Codes, Path, Ops, tables, stale
  <1>15. CASE InsertToken(r)
    BY <1>1, <1>2, <1>3, <1>4, <1>15
       DEF InsertToken, Moves, Goto, Answer, Goes, Succeeds, At,
           Steps, Codes, Path, Ops, tables, stale
  <1>16. CASE Queue(r)
    BY <1>1, <1>2, <1>3, <1>4, <1>16
       DEF Queue, Moves, Goto, Answer, Goes, Succeeds, At,
           Steps, Codes, Path, Ops, tables, stale
  <1>17. CASE LookUp(r)
    BY <1>1, <1>2, <1>3, <1>4, <1>17
       DEF LookUp, Moves, Goto, Answer, Goes, Succeeds, At,
           Steps, Codes, Path, Ops, tables, stale
  <1>18. CASE CheckPassword(r)
    BY <1>1, <1>2, <1>3, <1>4, <1>18
       DEF CheckPassword, TokenFor, Moves, Goto, Answer, Goes, Succeeds, At,
           Steps, Codes, Path, Ops, tables, stale
  <1>19. CASE ReplacePassword(r)
    BY <1>1, <1>2, <1>3, <1>4, <1>19
       DEF ReplacePassword, Moves, Goto, Answer, Goes, Succeeds, At,
           Steps, Codes, Path, Ops, tables, stale
  <1>20. CASE Exchange(r)
    BY <1>1, <1>2, <1>3, <1>4, <1>20
       DEF Exchange, Moves, Goto, Answer, Goes, Succeeds, At,
           Steps, Codes, Path, Ops, tables, stale
  <1>21. CASE GetOrCreateUser(r)
    <2>1. /\ pc[r] = "create" /\ in' = in /\ began' = began
          /\ NoFault \/ Fault(r)
          /\ \E code \in {0, 200, 500} : Answer(r, code)
      BY <1>21 DEF GetOrCreateUser, Succeeds, At, TokenFor
    <2>2. Moves(r)
      BY <2>1 DEF Moves, Codes
    <2>3. pc'[r] = "done"
      BY <1>3, <2>1 DEF Answer
    <2>4. QED
      BY <2>1, <2>2, <2>3
  <1>22. CASE InviteUser(r)
    BY <1>1, <1>2, <1>3, <1>4, <1>22
       DEF InviteUser, Moves, Goto, Answer, Goes, Succeeds, At,
           Steps, Codes, Path, Ops, tables, stale
  <1>23. CASE FetchCurrentUser(r)
    BY <1>1, <1>2, <1>3, <1>4, <1>23
       DEF FetchCurrentUser, Replies, Moves, Goto, Answer, Goes, Succeeds, At,
           Steps, Codes, Path, Ops, tables, stale
  <1>24. CASE ListOrganizationUsers(r)
    BY <1>1, <1>2, <1>3, <1>4, <1>24
       DEF ListOrganizationUsers, Replies, Moves, Goto, Answer, Goes, Succeeds,
           At,
           Steps, Codes, Path, Ops, tables, stale
  <1>25. CASE EditNothing(r)
    BY <1>1, <1>2, <1>3, <1>4, <1>25
       DEF EditNothing, Replies, Moves, Goto, Answer, Goes, Succeeds, At,
           Steps, Codes, Path, Ops, tables, stale
  <1>26. CASE Refuse(r)
    BY <1>1, <1>2, <1>3, <1>4, <1>26
       DEF Refuse, Moves, Goto, Answer, Goes, Succeeds, At,
           Steps, Codes, Path, Ops, tables, stale
  <1>27. QED
    BY <1>5, <1>6, <1>7, <1>8, <1>9, <1>10, <1>11, <1>12, <1>13, <1>14, <1>15,
       <1>16, <1>17, <1>18, <1>19, <1>20, <1>21, <1>22, <1>23, <1>24, <1>25,
       <1>26
       DEF Step

(* The tables, and what requests hold of them.                             *)
Tables == /\ orgs \in [Orgs -> OrgRow]
          /\ users \in [Users -> UserRow]
          /\ passwords \subseteq Users
          /\ tokens \subseteq Users
Held == /\ mail \in [Requests -> {"none", "queued", "sent", "dead", "lost"}]
        /\ org \in [Requests -> Orgs \union {None}]
        /\ copy \in [Requests -> UserRow]
        /\ facts \subseteq Facts
        /\ held \in [Requests -> SUBSET Facts]
        /\ wrote \subseteq Requests

LEMMA PatchedType ==
  ASSUME NEW row \in OrgRow, NEW i \in Input
  PROVE Patched(row, i) \in OrgRow
  BY DEF Patched, OrgRow, Input

LEMMA FactType ==
  \A u \in Users, o \in Orgs \union {None} : {<<u, o>>} \in SUBSET Facts
  BY DEF Facts

(* The two changes of a row that is written back.                          *)
Joined(row, o) == [row EXCEPT !.meta = TRUE, !.orgs = @ \union {o}]
Demoted(row) == [row EXCEPT !.role = "member"]

LEMMA RowTypes ==
  ASSUME NEW row \in UserRow
  PROVE /\ \A o \in Orgs : Joined(row, o) \in UserRow
        /\ Demoted(row) \in UserRow
  BY DEF UserRow, Roles, Joined, Demoted

(* What is written back, and the facts that come with it.                  *)
LEMMA AsWrittenType ==
  ASSUME TypeInv, NEW r \in Requests, At(r, "write")
  PROVE AsWritten(r) \in UserRow /\ NewFacts(r) \in SUBSET Facts
  <1>1. /\ copy[r] \in UserRow
        /\ org[r] \in Orgs \union {None}
        /\ in[r].target \in Users
        /\ in[r].op \in Ops
    BY DEF TypeInv, TypeOK, Input
  <1>2. in[r].op \in {"createOrg", "edit", "revoke"}
    BY <1>1 DEF TypeInv, PathInv, At, Path, Ops
  <1>3. in[r].op = "createOrg" => org[r] \in Orgs
    BY DEF TypeInv, OrgInv
  <1>4. CASE in[r].op = "createOrg"
    <2>1. AsWritten(r) = Joined(copy[r], org[r])
      BY <1>4 DEF AsWritten, Joined
    <2>2. NewFacts(r) = {<<in[r].target, org[r]>>}
      BY <1>4 DEF NewFacts
    <2>3. QED
      BY <1>1, <1>3, <1>4, <2>1, <2>2, FactType, RowTypes
  <1>5. CASE in[r].op = "edit"
    BY <1>1, <1>5 DEF AsWritten, NewFacts
  <1>6. CASE in[r].op = "revoke"
    <2>1. AsWritten(r) = Demoted(copy[r])
      BY <1>6 DEF AsWritten, Demoted
    <2>2. NewFacts(r) = {<<in[r].target, None>>}
      BY <1>6 DEF NewFacts
    <2>3. QED
      BY <1>1, <2>1, <2>2, FactType, RowTypes
  <1>7. QED
    BY <1>2, <1>4, <1>5, <1>6

LEMMA StepTables ==
  ASSUME TypeInv, NEW r \in Requests, Step(r)
  PROVE Tables' /\ Held'
  <1>1. Tables /\ Held
    BY DEF TypeInv, TypeOK, Tables, Held
  <1>2. /\ in[r] \in Input /\ in[r].op \in Ops
        /\ in[r].user \in Users /\ in[r].target \in Users
        /\ in[r].name \in Names \union {""} /\ in[r].active \in {"unsaid", "no", "yes"}
        /\ in[r].selected \in Orgs \union {None}
    BY DEF TypeInv, TypeOK, Input
  <1>3. pc[r] \in {"idle", "done"} \union Path(in[r].op)
    BY DEF TypeInv, PathInv
  <1>4. users[in[r].user] \in UserRow /\ users[in[r].target] \in UserRow
    BY <1>1, <1>2 DEF Tables
  <1>5. \A o \in Orgs, role \in Roles : Member(o, role) \in UserRow
    BY DEF Member, UserRow
  <1>6. NoUser \in UserRow
    BY DEF NoUser, UserRow, Roles
  <1>7. CASE Context(r)
    <2>1. users[in[r].user].orgs \subseteq Orgs
      BY <1>4 DEF UserRow
    <2>2. Resolved(users[in[r].user].orgs, in[r].selected) \subseteq Orgs
      BY <1>2, <2>1, ResolvedIsMine
    <2>3. /\ UNCHANGED <<tables, mail, facts, wrote>>
          /\ copy' = [copy EXCEPT ![r] = users[in[r].user]]
          /\ held' = [held EXCEPT ![r] = {}]
          /\ UNCHANGED org \/ \E o \in Orgs : org' = [org EXCEPT ![r] = o]
      BY <1>7, <2>2 DEF Context
    <2>4. QED
      BY <1>1, <1>4, <2>3 DEF Tables, Held, tables
  <1>8. CASE Organization(r)
    BY <1>1, <1>2, <1>3, <1>4, <1>5, <1>6, <1>8
       DEF Organization, Tables, Held, At, tables, stale
  <1>9. CASE StatementFails(r)
    BY <1>1, <1>2, <1>3, <1>4, <1>5, <1>6, <1>9
       DEF StatementFails, Tables, Held, At, tables, stale
  <1>10. CASE InsertOrganization(r)
    <2>1. [state |-> "live", name |-> in[r].name, active |-> TRUE] \in OrgRow
      BY <1>2 DEF OrgRow
    <2>2. /\ UNCHANGED <<users, passwords, tokens, mail, copy, stale>>
          /\ \/ UNCHANGED <<orgs, org>>
             \/ \E o \in Orgs :
                  /\ orgs' = [orgs EXCEPT ![o] = [state |-> "live",
                                name |-> in[r].name, active |-> TRUE]]
                  /\ org' = [org EXCEPT ![r] = o]
      BY <1>10 DEF InsertOrganization, Fresh
    <2>3. QED
      BY <1>1, <2>1, <2>2 DEF Tables, Held, stale
  <1>11. CASE UpdateOrganization(r)
    <2>1. /\ UNCHANGED <<users, passwords, tokens, mail, org, copy, stale>>
          /\ \/ orgs' = [orgs EXCEPT ![org[r]] = Patched(@, in[r])]
             \/ UNCHANGED orgs
      BY <1>11 DEF UpdateOrganization
    <2>2. \A o \in Orgs : Patched(orgs[o], in[r]) \in OrgRow
      BY <1>1, <1>2, PatchedType DEF Tables
    <2>3. QED
      BY <1>1, <2>1, <2>2 DEF Tables, Held, stale
  <1>12. CASE DeleteOrganization(r)
    <2>1. \A o \in Orgs : [orgs[o] EXCEPT !.state = "deleted"] \in OrgRow
      BY <1>1 DEF Tables, OrgRow
    <2>2. orgs' \in [Orgs -> OrgRow]
      BY <1>1, <2>1, <1>12 DEF Tables, DeleteOrganization
    <2>3. QED
      BY <1>1, <2>2, <1>12 DEF Tables, Held, DeleteOrganization, stale
  <1>13. CASE Reread(r)
    BY <1>1, <1>2, <1>3, <1>4, <1>5, <1>6, <1>13
       DEF Reread, Tables, Held, At, tables, stale
  <1>14. CASE WriteUser(r)
    <2>1. AsWritten(r) \in UserRow /\ NewFacts(r) \in SUBSET Facts
      BY <1>14, AsWrittenType DEF WriteUser
    <2>2. Overlay(users[in[r].target], AsWritten(r)) \in UserRow
      BY <1>4, <2>1 DEF Overlay
    <2>3. facts' \subseteq Facts /\ held' \in [Requests -> SUBSET Facts]
      BY <2>1, <1>14, LandType DEF WriteUser, TypeInv
    <2>4. QED
      BY <1>1, <2>2, <2>3, <1>14 DEF Tables, Held, WriteUser
  <1>15. CASE InsertAccount(r)
    <2>1. org[r] \in Orgs
      BY <1>15 DEF InsertAccount, TypeInv, OrgInv
    <2>2. /\ Member(org[r], "admin") \in UserRow
          /\ {<<in[r].user, org[r]>>} \in SUBSET Facts
      BY <1>2, <1>5, <2>1, FactType DEF Roles
    <2>3. CASE UNCHANGED <<users, facts, held>>
      BY <1>1, <2>3, <1>15 DEF Tables, Held, InsertAccount
    <2>4. CASE /\ users' = [users EXCEPT ![in[r].user] =
                              Member(org[r], "admin")]
               /\ Land(r, {<<in[r].user, org[r]>>})
      <3>1. facts' \subseteq Facts /\ held' \in [Requests -> SUBSET Facts]
        BY <2>2, <2>4, LandType DEF TypeInv
      <3>2. QED
        BY <1>1, <2>2, <2>4, <3>1, <1>15 DEF Tables, Held, InsertAccount
    <2>5. QED
      BY <2>3, <2>4, <1>15 DEF InsertAccount
  <1>16. CASE InsertPassword(r)
    BY <1>1, <1>2, <1>3, <1>4, <1>5, <1>6, <1>16
       DEF InsertPassword, Tables, Held, At, tables, stale
  <1>17. CASE InsertToken(r)
    BY <1>1, <1>2, <1>3, <1>4, <1>5, <1>6, <1>17
       DEF InsertToken, Tables, Held, At, tables, stale
  <1>18. CASE Queue(r)
    BY <1>1, <1>2, <1>3, <1>4, <1>5, <1>6, <1>18
       DEF Queue, Tables, Held, At, tables, stale
  <1>19. CASE LookUp(r)
    BY <1>1, <1>2, <1>3, <1>4, <1>5, <1>6, <1>19
       DEF LookUp, Tables, Held, At, tables, stale
  <1>20. CASE CheckPassword(r)
    BY <1>1, <1>2, <1>3, <1>4, <1>5, <1>6, <1>20
       DEF CheckPassword, Tables, Held, At, tables, stale
  <1>21. CASE ReplacePassword(r)
    BY <1>1, <1>2, <1>3, <1>4, <1>5, <1>6, <1>21
       DEF ReplacePassword, Tables, Held, At, tables, stale
  <1>22. CASE Exchange(r)
    BY <1>1, <1>2, <1>3, <1>4, <1>5, <1>6, <1>22
       DEF Exchange, Tables, Held, At, tables, stale
  <1>23. CASE GetOrCreateUser(r)
    <2>1. [NoUser EXCEPT !.exists = TRUE] \in UserRow
      BY DEF NoUser, UserRow, Roles
    <2>2. /\ UNCHANGED <<orgs, passwords, tokens, mail, org, copy, stale>>
          /\ \/ UNCHANGED users
             \/ users' = [users EXCEPT ![in[r].user] =
                            [NoUser EXCEPT !.exists = TRUE]]
      BY <1>23 DEF GetOrCreateUser
    <2>3. QED
      BY <1>1, <2>1, <2>2 DEF Tables, Held, stale
  <1>24. CASE InviteUser(r)
    <2>1. in[r].op = "invite"
      BY <1>2, <1>3, <1>24 DEF InviteUser, At, Path, Ops
    <2>2. org[r] \in Orgs
      BY <2>1, <1>24 DEF InviteUser, At, TypeInv, OrgInv
    <2>3. /\ \A role \in {"admin", "member"} : Member(org[r], role) \in UserRow
          /\ {<<in[r].target, org[r]>>} \in SUBSET Facts
      BY <1>2, <1>5, <2>2, FactType DEF Roles
    <2>4. CASE UNCHANGED <<users, facts, held>>
      BY <1>1, <2>4, <1>24 DEF Tables, Held, InviteUser
    <2>5. CASE /\ \E role \in {"admin", "member"} :
                    users' = [users EXCEPT ![in[r].target] =
                                Member(org[r], role)]
               /\ Land(r, {<<in[r].target, org[r]>>})
      <3>1. facts' \subseteq Facts /\ held' \in [Requests -> SUBSET Facts]
        BY <2>3, <2>5, LandType DEF TypeInv
      <3>2. QED
        BY <1>1, <2>3, <2>5, <3>1, <1>24 DEF Tables, Held, InviteUser
    <2>6. QED
      BY <2>4, <2>5, <1>24 DEF InviteUser
  <1>25. CASE FetchCurrentUser(r)
    BY <1>1, <1>2, <1>3, <1>4, <1>5, <1>6, <1>25
       DEF FetchCurrentUser, Replies, Tables, Held, At, tables, stale
  <1>26. CASE ListOrganizationUsers(r)
    BY <1>1, <1>2, <1>3, <1>4, <1>5, <1>6, <1>26
       DEF ListOrganizationUsers, Replies, Tables, Held, At, tables, stale
  <1>27. CASE EditNothing(r)
    BY <1>1, <1>2, <1>3, <1>4, <1>5, <1>6, <1>27
       DEF EditNothing, Replies, Tables, Held, At, tables, stale
  <1>28. CASE Refuse(r)
    BY <1>1, <1>2, <1>3, <1>4, <1>5, <1>6, <1>28
       DEF Refuse, Tables, Held, At, tables, stale
  <1>29. QED
    BY <1>7, <1>8, <1>9, <1>10, <1>11, <1>12, <1>13, <1>14, <1>15, <1>16, <1>17,
       <1>18, <1>19, <1>20, <1>21, <1>22, <1>23, <1>24, <1>25, <1>26, <1>27,
       <1>28
       DEF Step

(* What a step of r leaves alone of the other requests.                    *)
LEMMA StepOthers ==
  ASSUME TypeInv, NEW r \in Requests, Step(r), NEW q \in Requests, q # r
  PROVE org'[q] = org[q] /\ copy'[q] = copy[q] /\ mail'[q] = mail[q]
  <1>1. Held
    BY DEF TypeInv, TypeOK, Held
  <1>2. CASE Context(r)
    BY <1>1, <1>2 DEF Context, Held, stale
  <1>3. CASE Organization(r)
    BY <1>1, <1>3 DEF Organization, Held, stale
  <1>4. CASE StatementFails(r)
    BY <1>1, <1>4 DEF StatementFails, Held, stale
  <1>5. CASE InsertOrganization(r)
    BY <1>1, <1>5 DEF InsertOrganization, Held, stale
  <1>6. CASE UpdateOrganization(r)
    BY <1>1, <1>6 DEF UpdateOrganization, Held, stale
  <1>7. CASE DeleteOrganization(r)
    BY <1>1, <1>7 DEF DeleteOrganization, Held, stale
  <1>8. CASE Reread(r)
    BY <1>1, <1>8 DEF Reread, Held, stale
  <1>9. CASE WriteUser(r)
    BY <1>1, <1>9 DEF WriteUser, Held, stale
  <1>10. CASE InsertAccount(r)
    BY <1>1, <1>10 DEF InsertAccount, Held, stale
  <1>11. CASE InsertPassword(r)
    BY <1>1, <1>11 DEF InsertPassword, Held, stale
  <1>12. CASE InsertToken(r)
    BY <1>1, <1>12 DEF InsertToken, Held, stale
  <1>13. CASE Queue(r)
    BY <1>1, <1>13 DEF Queue, Held, stale
  <1>14. CASE LookUp(r)
    BY <1>1, <1>14 DEF LookUp, Held, stale
  <1>15. CASE CheckPassword(r)
    BY <1>1, <1>15 DEF CheckPassword, Held, stale
  <1>16. CASE ReplacePassword(r)
    BY <1>1, <1>16 DEF ReplacePassword, Held, stale
  <1>17. CASE Exchange(r)
    BY <1>1, <1>17 DEF Exchange, Held, stale
  <1>18. CASE GetOrCreateUser(r)
    BY <1>1, <1>18 DEF GetOrCreateUser, Held, stale
  <1>19. CASE InviteUser(r)
    BY <1>1, <1>19 DEF InviteUser, Held, stale
  <1>20. CASE FetchCurrentUser(r)
    BY <1>1, <1>20 DEF FetchCurrentUser, Replies, Held, stale
  <1>21. CASE ListOrganizationUsers(r)
    BY <1>1, <1>21 DEF ListOrganizationUsers, Replies, Held, stale
  <1>22. CASE EditNothing(r)
    BY <1>1, <1>22 DEF EditNothing, Replies, Held, stale
  <1>23. CASE Refuse(r)
    BY <1>1, <1>23 DEF Refuse, Held, stale
  <1>24. QED
    BY <1>2, <1>3, <1>4, <1>5, <1>6, <1>7, <1>8, <1>9, <1>10, <1>11, <1>12,
       <1>13, <1>14, <1>15, <1>16, <1>17, <1>18, <1>19, <1>20, <1>21, <1>22,
       <1>23
       DEF Step

LEMMA StepTypes ==
  ASSUME TypeInv, NEW r \in Requests, Step(r)
  PROVE TypeOK' /\ PathInv'
  <1>1. TypeOK /\ PathInv
    BY DEF TypeInv
  <1>2. /\ Moves(r) /\ (NoFault \/ Fault(r))
        /\ in' = in /\ began' = began
        /\ pc'[r] \in {"done"} \union Path(in[r].op)
    BY StepMoves
  <1>3. /\ Tables' /\ Held'
        /\ pc' \in [Requests -> Steps]
        /\ answer' \in [Requests -> Codes]
        /\ ready' \subseteq Users
        /\ faults' \in Nat /\ hit' \subseteq Requests
    BY <1>1, <1>2, StepTables, MovesType, FaultType
  <1>4. TypeOK'
    BY <1>1, <1>2, <1>3 DEF TypeOK, Tables, Held
  <1>5. PathInv'
    <2> SUFFICES ASSUME NEW q \in Requests
                 PROVE pc'[q] \in {"idle", "done"} \union Path(in'[q].op)
      BY DEF PathInv
    <2>1. CASE q = r
      BY <1>2, <2>1
    <2>2. CASE q # r
      BY <1>1, <1>2, <2>2, OthersStay DEF PathInv
    <2>3. QED
      BY <2>1, <2>2
  <1>6. QED
    BY <1>4, <1>5

GivesOrg == {"account", "write", "organization", "lookup", "invite"}

LEMMA StepOrg ==
  ASSUME TypeInv, NEW r \in Requests, Step(r)
  PROVE OrgInv'
  <1>1. /\ TypeOK /\ PathInv /\ OrgInv /\ Held
        /\ TypeOK' /\ PathInv'
    BY StepTypes DEF TypeInv, TypeOK, Held
  <1>2. Moves(r) /\ in' = in
    BY StepMoves
  <1>3. in[r] \in Input /\ in[r].op \in Ops /\ pc \in [Requests -> Steps]
    BY <1>1 DEF TypeOK, Input
  <1>4. First(in[r]) \notin {"organization", "account", "write", "invite"}
    BY <1>3, FirstOnPath
  <1>5. pc[r] \in {"idle", "done"} \union Path(in[r].op)
    BY <1>1 DEF PathInv
  <1> DEFINE Own == \/ At(r, "account")
                    \/ At(r, "write") /\ in[r].op = "createOrg"
                    \/ /\ pc[r] \in {"organization", "lookup", "invite"}
                       /\ in[r].op = "invite"
                    => org[r] \in Orgs
  <1>6. Own'
    <2>1. CASE pc'[r] \notin GivesOrg
      BY <2>1 DEF GivesOrg, At
    <2>2. CASE Context(r)
      <3>1. \/ Goto(r, First(in[r]))
               /\ SkipsOrganization(RouteOf[in[r].op])
            \/ \E o \in Resolved(users[in[r].user].orgs, in[r].selected) :
                  org' = [org EXCEPT ![r] = o] /\ Goto(r, "organization")
            \/ \E code \in Nat : Answer(r, code)
        BY <2>2 DEF Context, Refusal
      <3>2. CASE Goto(r, First(in[r])) /\ SkipsOrganization(RouteOf[in[r].op])
        <4>1. in[r].op # "invite"
          BY <3>2, InviteRoute
        <4>2. QED
          BY <1>2, <1>3, <1>4, <3>2, <4>1 DEF Goto, At
      <3>3. CASE \E o \in Resolved(users[in[r].user].orgs, in[r].selected) :
                   org' = [org EXCEPT ![r] = o] /\ Goto(r, "organization")
        <4>1. users[in[r].user].orgs \subseteq Orgs
              /\ in[r].selected \in Orgs \union {None}
          BY <1>1, <1>3 DEF TypeOK, UserRow, Input
        <4>2. org'[r] \in Orgs
          BY <1>1, <3>3, <4>1, ResolvedIsMine DEF Held
        <4>3. QED
          BY <4>2
      <3>4. CASE \E code \in Nat : Answer(r, code)
        BY <1>3, <3>4 DEF Answer, At
      <3>5. QED
        BY <3>1, <3>2, <3>3, <3>4
    <2>3. CASE Organization(r)
      <3>1. /\ At(r, "organization") /\ org' = org
            /\ Goto(r, First(in[r])) \/ \E code \in Nat : Answer(r, code)
        BY <2>3 DEF Organization, GateRefusal
      <3>2. CASE \E code \in Nat : Answer(r, code)
        BY <1>3, <3>2 DEF Answer, At
      <3>3. CASE Goto(r, First(in[r]))
        <4>1. in[r].op = "invite" => org[r] \in Orgs
          BY <1>1, <3>1 DEF OrgInv, At
        <4>2. QED
          BY <1>2, <1>3, <1>4, <3>1, <3>3, <4>1 DEF Goto, At
      <3>4. QED
        BY <3>1, <3>2, <3>3
    <2>4. CASE InsertOrganization(r)
      <3>1. \/ \E o \in Orgs : org' = [org EXCEPT ![r] = o]
            \/ \E code \in Nat : Answer(r, code)
        BY <2>4 DEF InsertOrganization, Fresh
      <3>2. QED
        BY <1>1, <1>3, <3>1 DEF Held, Answer, At
    <2>5. CASE Reread(r)
      <3>1. in[r].op # "createOrg" /\ pc[r] = "reread"
        BY <1>3, <1>5, <2>5 DEF Reread, At, Path, Ops
      <3>2. \/ Goto(r, "write")
            \/ \E code \in Nat : Answer(r, code)
        BY <2>5 DEF Reread
      <3>3. QED
        BY <1>2, <1>3, <3>1, <3>2 DEF Goto, Answer, At
    <2>6. CASE LookUp(r)
      <3>1. At(r, "lookup") /\ org' = org
        BY <2>6 DEF LookUp
      <3>2. pc'[r] \in {"check", "queue", "invite", "done"}
        BY <1>3, <2>6 DEF LookUp, Goto, Answer
      <3>3. QED
        BY <1>1, <1>2, <3>1, <3>2 DEF OrgInv, At
    <2>7. CASE \/ StatementFails(r) \/ UpdateOrganization(r)
               \/ DeleteOrganization(r) \/ WriteUser(r) \/ InsertPassword(r)
               \/ InsertToken(r) \/ Queue(r)
      <3>1. \/ Goto(r, "token") \/ Goto(r, "queue")
            \/ Answer(r, 200) \/ Answer(r, 201) \/ Answer(r, 500)
        BY <2>7 DEF StatementFails, UpdateOrganization, DeleteOrganization,
                    WriteUser, InsertPassword, InsertToken, Queue, Goes,
                    Succeeds
      <3>2. QED
        BY <1>3, <2>1, <3>1 DEF GivesOrg, Goto, Answer
    <2>8. CASE \/ InsertAccount(r) \/ CheckPassword(r) \/ ReplacePassword(r)
               \/ Exchange(r) \/ GetOrCreateUser(r) \/ InviteUser(r)
      BY <1>3, <2>1, <2>8
         DEF GivesOrg, InsertAccount, CheckPassword, ReplacePassword, Exchange,
             GetOrCreateUser, InviteUser, Goto, Answer, Goes, Succeeds
    <2>9. CASE \/ FetchCurrentUser(r) \/ ListOrganizationUsers(r)
               \/ EditNothing(r) \/ Refuse(r)
      BY <1>3, <2>1, <2>9
         DEF GivesOrg, FetchCurrentUser, ListOrganizationUsers, EditNothing,
             Refuse, Replies, Answer
    <2>10. QED
      BY <2>2, <2>3, <2>4, <2>5, <2>6, <2>7, <2>8, <2>9 DEF Step
  <1>7. ASSUME NEW q \in Requests, q # r
        PROVE \/ At(q, "account")'
              \/ At(q, "write")' /\ in'[q].op = "createOrg"
              \/ /\ pc'[q] \in {"organization", "lookup", "invite"}
                 /\ in'[q].op = "invite"
              => org'[q] \in Orgs
    BY <1>1, <1>2, <1>7, OthersStay, StepOthers DEF OrgInv, At
  <1>8. QED
    BY <1>6, <1>7 DEF OrgInv

LEMMA ArriveTypes ==
  ASSUME TypeInv, NEW r \in Requests, NEW i \in Inputs, Arrive(r, i)
  PROVE TypeInv'
  <1>1. TypeOK /\ PathInv /\ OrgInv
    BY DEF TypeInv
  <1>2. i \in Input /\ i.op \in Ops
    BY InputsTyped DEF Input
  <1>3. /\ First(i) \in Path(i.op) /\ First(i) \in Steps
        /\ First(i) \notin GivesOrg \/ First(i) = "lookup"
    BY <1>2, FirstOnPath DEF GivesOrg
  <1>4. i.op \in DOMAIN RouteOf => "context" \in Path(i.op)
    BY DEF RouteOf, Path
  <1> DEFINE first == IF i.op \in DOMAIN RouteOf THEN "context" ELSE First(i)
  <1>5. first \in Path(i.op) /\ first \in Steps /\ first \notin {"idle", "done"}
    BY <1>2, <1>3, <1>4, FirstOnPath DEF Steps
  <1>6. "invite" \in DOMAIN RouteOf
    BY DEF RouteOf
  <1>7. i.op = "invite" => first = "context"
    BY <1>6
  <1>8. Goto(r, first) /\ Moves(r)
    BY <1>5 DEF Arrive, Moves
  <1> HIDE DEF first
  <1>9. TypeOK'
    <2>1. pc' \in [Requests -> Steps] /\ answer' \in [Requests -> Codes]
          /\ ready' \subseteq Users
      BY <1>1, <1>8, MovesType
    <2>2. in' \in [Requests -> Input] /\ began' \in [Requests -> SUBSET Users]
      BY <1>1, <1>2 DEF Arrive, TypeOK
    <2>3. QED
      BY <1>1, <2>1, <2>2 DEF Arrive, TypeOK, tables, stale
  <1>10. in' = [in EXCEPT ![r] = i] /\ org' = org
         /\ pc' = [pc EXCEPT ![r] = first]
    BY <1>8 DEF Arrive, Goto
  <1>11. PathInv'
    BY <1>1, <1>5, <1>10 DEF PathInv, TypeOK
  <1>12. OrgInv'
    <2>1. first \notin {"account", "write", "organization", "invite"}
      BY <1>3 DEF GivesOrg, first
    <2>2. QED
      BY <1>1, <1>7, <1>10, <2>1 DEF OrgInv, TypeOK, At
  <1>13. QED
    BY <1>9, <1>11, <1>12 DEF TypeInv

LEMMA NextTypes == TypeInv /\ [Next]_vars => TypeInv'
  <1> SUFFICES ASSUME TypeInv, [Next]_vars PROVE TypeInv'
    OBVIOUS
  <1>1. ASSUME NEW r \in Requests, NEW i \in Inputs, Arrive(r, i)
        PROVE TypeInv'
    BY <1>1, ArriveTypes
  <1>2. ASSUME NEW r \in Requests, Step(r) PROVE TypeInv'
    BY <1>2, StepTypes, StepOrg DEF TypeInv
  <1>3. ASSUME NEW r \in Requests, Deliver(r) PROVE TypeInv'
    BY <1>3 DEF Deliver, TypeInv, TypeOK, PathInv, OrgInv, At, NoFault, tables,
                stale
  <1>4. CASE Crash
    BY <1>4 DEF Crash, TypeInv, TypeOK, PathInv, OrgInv, At, Open, Steps,
                tables,
                stale
  <1>5. CASE UNCHANGED vars
    BY <1>5 DEF vars, TypeInv, TypeOK, PathInv, OrgInv, At
  <1>6. QED
    BY <1>1, <1>2, <1>3, <1>4, <1>5 DEF Next

LEMMA TypesHold == Spec => []TypeInv
  BY InitTypes, NextTypes, PTL DEF Spec

(* Every variable keeps its type.                                          *)
THEOREM TypeCorrect == Spec => []TypeOK
  <1>1. TypeInv => TypeOK
    BY DEF TypeInv
  <1>2. QED
    BY <1>1, TypesHold, PTL

-------------------------------------------------------------------------------
(* Which steps write which table.                                          *)

LEMMA UsersWriters ==
  ASSUME NEW r \in Requests, Step(r), users' # users
  PROVE WriteUser(r) \/ InsertAccount(r) \/ GetOrCreateUser(r) \/ InviteUser(r)
  BY DEF Step, Context, Organization, StatementFails, InsertOrganization,
         UpdateOrganization, DeleteOrganization, Reread,
         InsertPassword, InsertToken, Queue, LookUp,
         CheckPassword, ReplacePassword, Exchange,
         FetchCurrentUser, ListOrganizationUsers, EditNothing, Refuse, Replies,
         tables

(* No row of a password or of a token is ever deleted.                     *)
LEMMA RowsStay ==
  ASSUME NEW r \in Requests, Step(r)
  PROVE passwords \subseteq passwords' /\ tokens \subseteq tokens'
  BY DEF Step, Context, Organization, StatementFails, InsertOrganization,
         UpdateOrganization, DeleteOrganization, Reread, WriteUser,
         InsertAccount, InsertPassword, InsertToken, Queue, LookUp,
         CheckPassword, ReplacePassword, Exchange, GetOrCreateUser, InviteUser,
         FetchCurrentUser, ListOrganizationUsers, EditNothing, Refuse, Replies,
         tables

LEMMA PasswordsWriters ==
  ASSUME NEW r \in Requests, Step(r), passwords' # passwords
  PROVE InsertPassword(r)
  BY DEF Step, Context, Organization, StatementFails, InsertOrganization,
         UpdateOrganization, DeleteOrganization, Reread, WriteUser,
         InsertAccount, InsertToken, Queue, LookUp,
         CheckPassword, ReplacePassword, Exchange, GetOrCreateUser, InviteUser,
         FetchCurrentUser, ListOrganizationUsers, EditNothing, Refuse, Replies,
         tables

LEMMA FactsWriters ==
  ASSUME NEW r \in Requests, Step(r), facts' # facts
  PROVE WriteUser(r) \/ InsertAccount(r) \/ InviteUser(r)
  BY DEF Step, Context, Organization, StatementFails, InsertOrganization,
         UpdateOrganization, DeleteOrganization, Reread,
         InsertPassword, InsertToken, Queue, LookUp,
         CheckPassword, ReplacePassword, Exchange, GetOrCreateUser,
         FetchCurrentUser, ListOrganizationUsers, EditNothing, Refuse, Replies,
         stale

-------------------------------------------------------------------------------
(* Mails of sign-ups.                                                      *)

(* A message is queued by a request's last step, and by then the token of  *)
(* a sign-up is stored.                                                    *)
TokenInv ==
  \A r \in Requests :
    /\ mail[r] # "none" => pc[r] = "done"
    /\ in[r].op = "signup" /\ (At(r, "queue") \/ mail[r] # "none")
         => in[r].user \in tokens

(* A sign-up comes to its mail from the token it has stored.               *)
LEMMA QueueFrom ==
  ASSUME TypeInv, NEW r \in Requests, Step(r), in[r].op = "signup",
         pc'[r] = "queue"
  PROVE InsertToken(r)
  <1>1. /\ pc \in [Requests -> Steps] /\ in[r] \in Input
        /\ pc[r] \in {"insert", "account", "password", "token", "queue",
                       "refuse"}
    BY StepMoves DEF TypeInv, TypeOK, PathInv, Path
  <1>2. CASE InsertOrganization(r) \/ InsertAccount(r) \/ InsertPassword(r)
    BY <1>1, <1>2 DEF InsertOrganization, InsertAccount, InsertPassword, Goes,
                      Goto, Answer
  <1>3. CASE StatementFails(r) \/ Queue(r) \/ Refuse(r)
    BY <1>1, <1>3 DEF StatementFails, Queue, Refuse, Succeeds, Answer
  <1>4. QED
    BY <1>1, <1>2, <1>3
       DEF Step, Context, Organization, UpdateOrganization, DeleteOrganization,
           Reread, WriteUser, LookUp, CheckPassword, ReplacePassword, Exchange,
           GetOrCreateUser, InviteUser, FetchCurrentUser,
           ListOrganizationUsers, EditNothing, Replies, At

LEMMA InitTokens == Init => TokenInv
  BY DEF Init, TokenInv, At

LEMMA StepTokens ==
  ASSUME TypeInv, TokenInv, NEW r \in Requests, Step(r)
  PROVE TokenInv'
  <1>1. /\ TypeOK /\ PathInv /\ Moves(r) /\ in' = in
        /\ pc[r] \notin {"idle", "done"}
        /\ in[r].op \in Ops
    BY StepMoves DEF TypeInv, TypeOK, Input
  <1>2. tokens \subseteq tokens'
    BY RowsStay
  <1>3. ASSUME NEW q \in Requests, q # r
        PROVE /\ mail'[q] # "none" => pc'[q] = "done"
              /\ in'[q].op = "signup" /\ (At(q, "queue")' \/ mail'[q] # "none")
                   => in'[q].user \in tokens'
    BY <1>1, <1>2, <1>3, OthersStay, StepOthers DEF TokenInv, At
  <1>4. mail[r] = "none"
    BY <1>1 DEF TokenInv
  <1>5. mail'[r] # "none" => Queue(r) /\ At(r, "queue")
    BY <1>1, <1>4
       DEF Step, Context, Organization, StatementFails, InsertOrganization,
           UpdateOrganization, DeleteOrganization, Reread, WriteUser,
           InsertAccount, InsertPassword, InsertToken, Queue, LookUp,
           CheckPassword, ReplacePassword, Exchange, GetOrCreateUser,
           InviteUser, FetchCurrentUser, ListOrganizationUsers, EditNothing,
           Refuse, Replies
  <1>6. Queue(r) => pc'[r] = "done"
    BY <1>1 DEF Queue, Succeeds, Answer, TypeOK
  <1>7. in[r].op = "signup" /\ At(r, "queue")' => in[r].user \in tokens'
    <2> SUFFICES ASSUME in[r].op = "signup", pc'[r] = "queue"
                 PROVE in[r].user \in tokens'
      BY DEF At
    <2>1. InsertToken(r)
      BY QueueFrom
    <2>2. QED
      BY <2>1 DEF InsertToken
  <1>8. QED
    BY <1>1, <1>2, <1>3, <1>4, <1>5, <1>6, <1>7 DEF TokenInv

LEMMA NextTokens == TypeInv /\ TokenInv /\ [Next]_vars => TokenInv'
  <1> SUFFICES ASSUME TypeInv, TokenInv, [Next]_vars PROVE TokenInv'
    OBVIOUS
  <1>1. ASSUME NEW r \in Requests, NEW i \in Inputs, Arrive(r, i)
        PROVE TokenInv'
    <2>1. /\ UNCHANGED <<mail, tokens>> /\ pc[r] = "idle" /\ mail[r] = "none"
          /\ in' = [in EXCEPT ![r] = i]
          /\ \A q \in Requests : q # r => pc'[q] = pc[q]
      BY <1>1 DEF Arrive, At, Goto, tables, TokenInv, TypeInv, TypeOK
    <2>2. pc'[r] # "queue"
      BY <1>1, FirstOnPath, InputsTyped DEF Arrive, Goto, TypeInv, TypeOK
    <2>3. QED
      BY <2>1, <2>2 DEF TokenInv, TypeInv, TypeOK, At
  <1>2. ASSUME NEW r \in Requests, Step(r) PROVE TokenInv'
    BY <1>2, StepTokens
  <1>3. ASSUME NEW r \in Requests, Deliver(r) PROVE TokenInv'
    BY <1>3 DEF Deliver, TokenInv, TypeInv, TypeOK, At, tables
  <1>4. CASE Crash
    BY <1>4 DEF Crash, TokenInv, TypeInv, TypeOK, At, Open, tables
  <1>5. CASE UNCHANGED vars
    BY <1>5 DEF vars, TokenInv, At
  <1>6. QED
    BY <1>1, <1>2, <1>3, <1>4, <1>5 DEF Next

(* A verification mail carries a token that is stored.                     *)
THEOREM MailsHaveTokens == Spec => []MailedTokensStored
  <1>1. TokenInv => MailedTokensStored
    BY DEF TokenInv, MailedTokensStored
  <1>2. QED
    BY <1>1, InitTokens, NextTokens, TypesHold, PTL DEF Spec

-------------------------------------------------------------------------------
(* Rows of users, and the copies requests hold of them.                    *)

(* A request that will write the row it holds back.                        *)
Holding(r) == \/ At(r, "write")
              \/ in[r].op = "createOrg" /\ pc[r] \in {"organization", "insert"}

InInv == \A r \in Requests : in[r] \in Inputs

OwnersExist == \A u \in passwords : users[u].exists
CallersExist ==
  \A r \in Requests : in[r].op \in InContext /\ pc[r] # "idle"
                        => users[in[r].user].exists
NewAccounts == \A r \in Requests : pc[r] = "password"
                                    => /\ users[in[r].user].exists
                                       /\ users[in[r].user].meta
CopiesExist ==
  \A r \in Requests :
    Holding(r) => /\ copy[r].exists
                  /\ At(r, "write") /\ in[r].op = "revoke" => copy[r].meta
FactsOfRows == \A f \in facts : users[f[1]].exists
RowsWhole == \A u \in Users : /\ users[u].orgs # {} => users[u].meta
                              /\ users[u].meta => users[u].exists

RowsInv == /\ OwnersExist /\ CallersExist /\ NewAccounts
           /\ CopiesExist /\ FactsOfRows /\ RowsWhole

(* Who will write a row back has just read it, or has held it before.      *)
LEMMA HoldingFrom ==
  ASSUME TypeInv, NEW r \in Requests, Step(r), Holding(r)'
  PROVE /\ facts' = facts
        /\ \/ /\ in[r].op = "createOrg"
              /\ pc[r] = "context"
              /\ copy'[r] = users[in[r].user]
           \/ /\ users[in[r].target].exists
              /\ in[r].op = "revoke" => org[r] \in users[in[r].target].orgs
              /\ copy'[r] = users[in[r].target]
           \/ /\ Holding(r)
              /\ in[r].op = "createOrg"
              /\ copy'[r] = copy[r]
              /\ held'[r] = held[r]
  <1>1. /\ pc \in [Requests -> Steps]
        /\ in[r] \in Input /\ in[r].op \in Ops
        /\ pc[r] \in {"idle", "done"} \union Path(in[r].op)
        /\ Held
    BY DEF TypeInv, TypeOK, PathInv, Input, Held
  <1>2. in' = in /\ Moves(r)
    BY StepMoves
  <1>3. pc'[r] \in {"write", "organization", "insert"}
    BY DEF Holding, At
  <1>4. pc'[r] = "write" \/ in[r].op = "createOrg"
    BY <1>2 DEF Holding, At
  <1>5. CASE Context(r)
    <2>1. pc'[r] # "write"
      BY <1>1, <1>5, FirstOnPath DEF Context, Goto, Answer
    <2>2. QED
      BY <1>1, <1>4, <1>5, <2>1 DEF Context, At, Held
  <1>6. CASE Organization(r)
    <2>1. pc'[r] # "write"
      BY <1>1, <1>6, FirstOnPath DEF Organization, Goto, Answer
    <2>2. QED
      BY <1>1, <1>4, <1>6, <2>1 DEF Organization, At, Holding, stale
  <1>7. CASE InsertOrganization(r)
    <2>1. in[r].op \in {"signup", "createOrg"}
      BY <1>1, <1>7 DEF InsertOrganization, At, Path, Ops
    <2>2. in[r].op = "createOrg"
      BY <1>1, <1>3, <1>7, <2>1 DEF InsertOrganization, Goes, Goto, Answer
    <2>3. QED
      BY <1>7, <2>2 DEF InsertOrganization, At, Holding, stale
  <1>8. CASE Reread(r)
    BY <1>1, <1>3, <1>8 DEF Reread, Held, Answer
  <1>9. CASE LookUp(r)
    BY <1>1, <1>3, <1>9 DEF LookUp, Goto, Answer
  <1>10. CASE CheckPassword(r)
    BY <1>1, <1>3, <1>10 DEF CheckPassword, Goto, Answer
  <1>11. CASE Exchange(r)
    BY <1>1, <1>3, <1>11 DEF Exchange, Goto, Answer
  <1>12. CASE UpdateOrganization(r)
    <2>1. Answer(r, 200) \/ Answer(r, 500)
      BY <1>12 DEF UpdateOrganization, Succeeds
    <2>2. QED
      BY <1>1, <1>3, <2>1 DEF Answer
  <1>13. CASE GetOrCreateUser(r)
    <2>1. \E code \in Nat : Answer(r, code)
      BY <1>13 DEF GetOrCreateUser, Succeeds, TokenFor
    <2>2. QED
      BY <1>1, <1>3, <2>1 DEF Answer
  <1>14. CASE \/ StatementFails(r) \/ DeleteOrganization(r) \/ WriteUser(r)
              \/ Queue(r) \/ Refuse(r)
    BY <1>1, <1>3, <1>14
       DEF StatementFails, DeleteOrganization, WriteUser, Queue, Refuse,
           Succeeds, Answer
  <1>15. CASE \/ InsertAccount(r) \/ InsertPassword(r) \/ InsertToken(r)
              \/ ReplacePassword(r) \/ InviteUser(r)
    BY <1>1, <1>3, <1>15
       DEF InsertAccount, InsertPassword, InsertToken, ReplacePassword,
           InviteUser, Goes, Succeeds, Goto, Answer
  <1>16. CASE \/ FetchCurrentUser(r) \/ ListOrganizationUsers(r)
              \/ EditNothing(r)
    BY <1>1, <1>3, <1>16
       DEF FetchCurrentUser, ListOrganizationUsers, EditNothing, Replies, Answer
  <1>17. QED
    BY <1>5, <1>6, <1>7, <1>8, <1>9, <1>10, <1>11, <1>12, <1>13, <1>14, <1>15,
       <1>16 DEF Step

(* What is written back has what the copy had, and is new where facts are. *)
LEMMA WrittenBack ==
  ASSUME TypeInv, RowsInv, NEW r \in Requests, At(r, "write")
  PROVE /\ AsWritten(r).exists
        /\ \A x \in Orgs \union {None} :
             Holds(copy[r], x) => Holds(AsWritten(r), x)
        /\ \A f \in NewFacts(r) : /\ f[1] = in[r].target
                                  /\ AsWritten(r).meta
                                  /\ Holds(AsWritten(r), f[2])
  <1>1. /\ copy[r] \in UserRow
        /\ in[r].op \in Ops
    BY DEF TypeInv, TypeOK, Input
  <1>2. in[r].op \in {"createOrg", "edit", "revoke"}
    BY <1>1 DEF TypeInv, PathInv, At, Path, Ops
  <1>3. copy[r].exists
    BY DEF RowsInv, CopiesExist, Holding
  <1>4. CASE in[r].op = "createOrg"
    <2>1. org[r] \in Orgs /\ org[r] # None
      BY <1>4 DEF TypeInv, OrgInv, Orgs, None
    <2>2. AsWritten(r) = Joined(copy[r], org[r])
      BY <1>4 DEF AsWritten, Joined
    <2>3. NewFacts(r) = {<<in[r].target, org[r]>>}
      BY <1>4 DEF NewFacts
    <2>4. /\ AsWritten(r).exists /\ AsWritten(r).meta
          /\ AsWritten(r).orgs = copy[r].orgs \union {org[r]}
          /\ AsWritten(r).role = copy[r].role
      BY <1>1, <1>3, <2>2 DEF Joined, UserRow
    <2>5. QED
      BY <2>1, <2>3, <2>4 DEF Holds
  <1>5. CASE in[r].op = "edit"
    BY <1>3, <1>5 DEF AsWritten, NewFacts
  <1>6. CASE in[r].op = "revoke"
    <2>1. AsWritten(r) = Demoted(copy[r])
      BY <1>6 DEF AsWritten, Demoted
    <2>2. NewFacts(r) = {<<in[r].target, None>>}
      BY <1>6 DEF NewFacts
    <2>3. /\ AsWritten(r).exists /\ AsWritten(r).meta
          /\ AsWritten(r).orgs = copy[r].orgs
          /\ AsWritten(r).role = "member"
      <3>1. copy[r].meta
        BY <1>6 DEF RowsInv, CopiesExist, Holding
      <3>2. QED
        BY <1>1, <1>3, <2>1, <3>1 DEF Demoted, UserRow
    <2>4. QED
      BY <2>2, <2>3 DEF Holds
  <1>7. QED
    BY <1>2, <1>4, <1>5, <1>6

(* An account that is there stays, and so does its metadata.               *)
LEMMA UsersGrow ==
  ASSUME TypeInv, RowsInv, NEW r \in Requests, Step(r), NEW u \in Users
  PROVE /\ users[u].exists => users'[u].exists
        /\ users[u].meta => users'[u].meta
        /\ users'[u].orgs # {} => users'[u].meta
        /\ users'[u].meta => users'[u].exists
  <1>1. /\ users \in [Users -> UserRow]
        /\ users[u].orgs # {} => users[u].meta
        /\ users[u].meta => users[u].exists
    BY DEF TypeInv, TypeOK, RowsInv, RowsWhole
  <1>2. CASE WriteUser(r)
    <2>1. users' = [users EXCEPT ![in[r].target] = Overlay(@, AsWritten(r))]
      BY <1>2 DEF WriteUser
    <2>2. AsWritten(r).exists
      BY <1>2, WrittenBack DEF WriteUser
    <2>3. QED
      BY <1>1, <2>1, <2>2 DEF Overlay
  <1>3. CASE InsertAccount(r)
    BY <1>1, <1>3 DEF InsertAccount, Member
  <1>4. CASE GetOrCreateUser(r)
    <2>1. \/ users' = users
          \/ /\ ~users[in[r].user].exists
             /\ users' = [users EXCEPT ![in[r].user] =
                            [NoUser EXCEPT !.exists = TRUE]]
      BY <1>4 DEF GetOrCreateUser
    <2>2. QED
      BY <1>1, <2>1 DEF NoUser
  <1>5. CASE InviteUser(r)
    BY <1>1, <1>5 DEF InviteUser, Member
  <1>6. QED
    BY <1>1, <1>2, <1>3, <1>4, <1>5, UsersWriters

(* A sign-up comes to its password from the account it has made.           *)
LEMMA PasswordFrom ==
  ASSUME TypeInv, NEW r \in Requests, Step(r), pc'[r] = "password"
  PROVE /\ InsertAccount(r)
        /\ users'[in[r].user].exists
        /\ users'[in[r].user].meta
  <1>1. /\ pc \in [Requests -> Steps] /\ in[r] \in Input
        /\ in[r].op \in Ops /\ in[r].user \in Users
        /\ users \in [Users -> UserRow]
        /\ pc'[r] \in {"done"} \union Path(in[r].op)
        /\ pc[r] \in {"idle", "done"} \union Path(in[r].op)
        /\ pc[r] \notin {"idle", "done"}
    BY StepMoves DEF TypeInv, TypeOK, PathInv, Input
  <1>2. /\ in[r].op = "signup"
        /\ pc[r] \in {"insert", "account", "password", "token", "queue",
                       "refuse"}
    BY <1>1 DEF Path, Ops
  <1>3. CASE InsertOrganization(r) \/ InsertPassword(r) \/ InsertToken(r)
    BY <1>1, <1>2, <1>3 DEF InsertOrganization, InsertPassword, InsertToken,
                            Goes, Goto, Answer
  <1>4. CASE StatementFails(r) \/ Queue(r) \/ Refuse(r)
    BY <1>1, <1>4 DEF StatementFails, Queue, Refuse, Succeeds, Answer
  <1>5. CASE InsertAccount(r)
    BY <1>1, <1>5 DEF InsertAccount, Answer, Member
  <1>6. QED
    BY <1>2, <1>3, <1>4, <1>5
       DEF Step, Context, Organization, UpdateOrganization, DeleteOrganization,
           Reread, WriteUser, LookUp, CheckPassword, ReplacePassword, Exchange,
           GetOrCreateUser, InviteUser, FetchCurrentUser,
           ListOrganizationUsers, EditNothing, Replies, At

(* New facts are true of the row they are about, and about one row.        *)
LEMMA NewFactsHold ==
  ASSUME TypeInv, RowsInv, NEW r \in Requests, Step(r),
         NEW f \in facts', f \notin facts
  PROVE /\ f[1] \in Users
        /\ users'[f[1]].exists
        /\ Holds(users'[f[1]], f[2])
        /\ \A q \in Requests : q # r /\ pc[q] \notin {"idle", "done"}
                                 => f \in held'[q]
  <1>1. /\ users \in [Users -> UserRow] /\ held \in [Requests -> SUBSET Facts]
        /\ in[r].user \in Users /\ in[r].target \in Users
        /\ pc \in [Requests -> Steps]
    BY DEF TypeInv, TypeOK, Input
  <1>2. CASE WriteUser(r)
    <2>1. /\ At(r, "write") /\ Land(r, NewFacts(r))
          /\ users' = [users EXCEPT ![in[r].target] =
                         Overlay(@, AsWritten(r))]
      BY <1>2 DEF WriteUser
    <2>2. f \in NewFacts(r)
      BY <2>1 DEF Land
    <2>3. /\ f[1] = in[r].target /\ AsWritten(r).meta /\ AsWritten(r).exists
          /\ Holds(AsWritten(r), f[2])
      BY <2>1, <2>2, WrittenBack
    <2>4. users'[f[1]] = AsWritten(r)
      BY <1>1, <2>1, <2>3 DEF Overlay
    <2>5. QED
      BY <1>1, <2>1, <2>2, <2>3, <2>4 DEF Land, Open
  <1>3. CASE InsertAccount(r)
    <2>1. /\ users' = [users EXCEPT ![in[r].user] = Member(org[r], "admin")]
          /\ Land(r, {<<in[r].user, org[r]>>})
          /\ org[r] \in Orgs
      BY <1>3 DEF InsertAccount, TypeInv, OrgInv
    <2>2. f = <<in[r].user, org[r]>> /\ org[r] # None
      BY <2>1 DEF Land, Orgs, None
    <2>3. users'[f[1]] = Member(org[r], "admin")
      BY <1>1, <2>1, <2>2
    <2>4. QED
      BY <1>1, <2>1, <2>2, <2>3 DEF Land, Open, Member, Holds
  <1>4. CASE InviteUser(r)
    <2>1. in[r].op = "invite"
      BY <1>4 DEF InviteUser, At, TypeInv, TypeOK, PathInv, Path, Ops, Input
    <2>2. /\ \E role \in {"admin", "member"} :
               users' = [users EXCEPT ![in[r].target] = Member(org[r], role)]
          /\ Land(r, {<<in[r].target, org[r]>>})
      BY <1>4 DEF InviteUser
    <2>3. org[r] \in Orgs
      BY <1>4, <2>1 DEF InviteUser, At, TypeInv, OrgInv
    <2>4. f = <<in[r].target, org[r]>> /\ org[r] # None
      BY <2>2, <2>3 DEF Land, Orgs, None
    <2>5. \E role \in {"admin", "member"} :
             users'[f[1]] = Member(org[r], role)
      BY <1>1, <2>2, <2>4
    <2>6. QED
      BY <1>1, <2>2, <2>4, <2>5 DEF Land, Open, Member, Holds
  <1>5. QED
    BY <1>2, <1>3, <1>4, FactsWriters

(* What was given is never forgotten, not even when it is undone.          *)
LEMMA FactsStay ==
  ASSUME NEW r \in Requests, Step(r)
  PROVE facts \subseteq facts'
  BY FactsWriters DEF WriteUser, InsertAccount, InviteUser, Land

LEMMA StepRows ==
  ASSUME TypeInv, RowsInv, NEW r \in Requests, Step(r)
  PROVE RowsInv'
  <1>1. /\ TypeOK /\ TypeOK' /\ Moves(r) /\ in' = in
        /\ pc[r] \notin {"idle", "done"}
    BY StepTypes, StepMoves DEF TypeInv
  <1>2. \A q \in Requests : in[q].user \in Users /\ in[q].target \in Users
    BY <1>1 DEF TypeOK, Input
  <1>3. \A u \in passwords' : users'[u].exists
    <2>1. CASE passwords' = passwords
      BY <1>1, <2>1, UsersGrow DEF RowsInv, OwnersExist, TypeOK
    <2>2. CASE InsertPassword(r)
      <3>1. passwords' = passwords \union {in[r].user} /\ pc[r] = "password"
        BY <2>2 DEF InsertPassword, At
      <3>2. users[in[r].user].exists
        BY <3>1 DEF RowsInv, NewAccounts
      <3>3. QED
        BY <1>1, <1>2, <3>1, <3>2, UsersGrow DEF RowsInv, OwnersExist, TypeOK
    <2>3. QED
      BY <2>1, <2>2, PasswordsWriters
  <1>4. ASSUME NEW q \in Requests, in'[q].op \in InContext, pc'[q] # "idle"
        PROVE users'[in'[q].user].exists
    <2>1. pc[q] # "idle"
      BY <1>1, <1>4, OthersStay
    <2>2. QED
      BY <1>1, <1>2, <1>4, <2>1, UsersGrow DEF RowsInv, CallersExist
  <1>5. ASSUME NEW q \in Requests, pc'[q] = "password"
        PROVE users'[in'[q].user].exists /\ users'[in'[q].user].meta
    <2>1. CASE q = r
      BY <1>1, <1>5, <2>1, PasswordFrom
    <2>2. CASE q # r
      BY <1>1, <1>2, <1>5, <2>2, OthersStay, UsersGrow
         DEF RowsInv, NewAccounts, At
    <2>3. QED
      BY <2>1, <2>2
  <1>6. ASSUME NEW q \in Requests, Holding(q)'
        PROVE /\ copy'[q].exists
              /\ At(q, "write")' /\ in'[q].op = "revoke" => copy'[q].meta
    <2>1. CASE q # r
      BY <1>1, <1>6, <2>1, OthersStay, StepOthers
         DEF RowsInv, CopiesExist, Holding, At
    <2>2. CASE q = r
      <3>1. in[r].op = "createOrg" /\ pc[r] = "context"
              => users[in[r].user].exists
        BY DEF RowsInv, CallersExist, InContext
      <3>2. org[r] \in users[in[r].target].orgs => users[in[r].target].meta
        BY <1>2 DEF RowsInv, RowsWhole
      <3>3. QED
        BY <1>1, <1>6, <2>2, <3>1, <3>2, HoldingFrom DEF RowsInv, CopiesExist
    <2>3. QED
      BY <2>1, <2>2
  <1>7. ASSUME NEW f \in facts' PROVE users'[f[1]].exists
    <2>1. CASE f \in facts
      BY <1>1, <2>1, UsersGrow DEF RowsInv, FactsOfRows, TypeOK, Facts
    <2>2. CASE f \notin facts
      BY <2>2, NewFactsHold
    <2>3. QED
      BY <2>1, <2>2
  <1>8. ASSUME NEW u \in Users
        PROVE /\ users'[u].orgs # {} => users'[u].meta
              /\ users'[u].meta => users'[u].exists
    BY UsersGrow
  <1>9. OwnersExist' /\ CallersExist' /\ NewAccounts'
    BY <1>3, <1>4, <1>5 DEF OwnersExist, CallersExist, NewAccounts
  <1>10. CopiesExist'
    BY <1>6 DEF CopiesExist
  <1>11. FactsOfRows'
    BY <1>7 DEF FactsOfRows
  <1>12. RowsWhole'
    BY <1>8 DEF RowsWhole
  <1>13. QED
    BY <1>9, <1>10, <1>11, <1>12 DEF RowsInv

-------------------------------------------------------------------------------
(* Changes of rows.                                                        *)

WroteInv == \A r \in wrote : pc[r] = "done"

(* What a request that will write does not know, came while it held its    *)
(* copy, or was overwritten already.                                       *)
CopyInv ==
  \A r \in Requests :
    Holding(r) => \A f \in facts :
                    f[1] = in[r].target =>
                      Holds(copy[r], f[2]) \/ f \in held[r] \/ Excused(f)

SurviveInv == InInv /\ RowsInv /\ WroteInv /\ CopyInv /\ ChangesSurvive

(* What comes while a request holds its copy stays recorded.               *)
LEMMA StepHeld ==
  ASSUME TypeInv, NEW r \in Requests, Step(r)
  PROVE /\ wrote \subseteq wrote' /\ wrote' \subseteq wrote \union {r}
        /\ \A q \in Requests : q # r => held[q] \subseteq held'[q]
  <1>1. Held
    BY DEF TypeInv, TypeOK, Held
  <1>2. CASE Context(r) \/ Reread(r) \/ LookUp(r)
    BY <1>1, <1>2 DEF Context, Reread, LookUp, Held
  <1>3. CASE WriteUser(r) \/ InsertAccount(r) \/ InviteUser(r)
    BY <1>1, <1>3 DEF WriteUser, InsertAccount, InviteUser, Land, Held
  <1>4. ASSUME UNCHANGED <<held, wrote>>
        PROVE /\ wrote \subseteq wrote' /\ wrote' \subseteq wrote \union {r}
              /\ \A q \in Requests : q # r => held[q] \subseteq held'[q]
    BY <1>4
  <1>5. QED
    BY <1>2, <1>3, <1>4
       DEF Step, Organization, StatementFails, InsertOrganization,
           UpdateOrganization, DeleteOrganization, InsertPassword, InsertToken,
           Queue, CheckPassword, ReplacePassword, Exchange, GetOrCreateUser,
           FetchCurrentUser, ListOrganizationUsers, EditNothing, Refuse,
           Replies, stale

(* What is excused stays so.                                               *)
LEMMA ExcusedStays ==
  ASSUME TypeInv, WroteInv, NEW r \in Requests, Step(r), NEW f, Excused(f)
  PROVE Excused(f)'
  <1>1. PICK q \in wrote : f \in held[q] /\ in[q].target = f[1]
    BY DEF Excused
  <1>2. q \in Requests /\ q # r
    BY StepMoves DEF WroteInv, TypeInv, TypeOK
  <1>3. q \in wrote' /\ f \in held'[q] /\ in' = in
    BY <1>1, <1>2, StepHeld, StepMoves
  <1>4. QED
    BY <1>1, <1>3 DEF Excused

LEMMA StepSurvive ==
  ASSUME TypeInv, SurviveInv, NEW r \in Requests, Step(r)
  PROVE ChangesSurvive'
  <1> SUFFICES ASSUME NEW f \in facts'
               PROVE Holds(users'[f[1]], f[2]) \/ Excused(f)'
    BY DEF ChangesSurvive, Holds, Excused
  <1>1. /\ users \in [Users -> UserRow] /\ facts \subseteq Facts
        /\ in[r].target \in Users /\ in[r].user \in Users
        /\ RowsInv /\ WroteInv
    BY DEF TypeInv, TypeOK, Input, SurviveInv
  <1>2. CASE f \notin facts
    BY <1>1, <1>2, NewFactsHold
  <1>3. CASE f \in facts
    <2>1. /\ f[1] \in Users /\ f[2] \in Orgs \union {None}
          /\ users[f[1]].exists
          /\ Holds(users[f[1]], f[2]) \/ Excused(f)
      BY <1>1, <1>3 DEF Facts, SurviveInv, ChangesSurvive, RowsInv, FactsOfRows
    <2>2. CASE Excused(f)
      BY <1>1, <2>2, ExcusedStays
    <2>3. CASE users'[f[1]] = users[f[1]]
      BY <1>1, <2>1, <2>2, <2>3
    <2>4. CASE WriteUser(r)
      <3>1. /\ At(r, "write") /\ wrote' = wrote \union {r}
            /\ users' = [users EXCEPT ![in[r].target] =
                           Overlay(@, AsWritten(r))]
            /\ Land(r, NewFacts(r))
        BY <2>4 DEF WriteUser
      <3>2. CASE f[1] # in[r].target
        BY <1>1, <2>1, <2>3, <3>1, <3>2
      <3>3. CASE f[1] = in[r].target /\ f \in held[r]
        <4>1. f \in held'[r]
          BY <3>1, <3>3 DEF Land
        <4>2. in' = in
          BY StepMoves
        <4>3. QED
          BY <3>1, <3>3, <4>1, <4>2 DEF Excused
      <3>4. CASE f[1] = in[r].target /\ Holds(copy[r], f[2])
        <4>1. Holds(AsWritten(r), f[2])
          BY <1>1, <2>1, <3>1, <3>4, WrittenBack
        <4>2. users'[f[1]] = AsWritten(r) \/ users'[f[1]] = users[f[1]]
          BY <1>1, <2>1, <3>1, <3>4 DEF Overlay
        <4>3. QED
          BY <2>3, <4>1, <4>2
      <3>5. Holding(r)
        BY <3>1 DEF Holding
      <3>6. QED
        BY <1>3, <2>2, <3>2, <3>3, <3>4, <3>5 DEF SurviveInv, CopyInv
    <2>5. CASE InsertAccount(r)
      BY <1>1, <2>1, <2>3, <2>5 DEF InsertAccount
    <2>6. CASE GetOrCreateUser(r)
      <3>1. users' = users \/ (/\ ~users[in[r].user].exists
                              /\ users' = [users EXCEPT ![in[r].user] =
                                             [NoUser EXCEPT !.exists = TRUE]])
        BY <2>6 DEF GetOrCreateUser
      <3>2. QED
        BY <1>1, <2>1, <2>3, <3>1
    <2>7. CASE InviteUser(r)
      BY <1>1, <2>1, <2>3, <2>7 DEF InviteUser
    <2>8. QED
      BY <2>1, <2>3, <2>4, <2>5, <2>6, <2>7, UsersWriters
  <1>4. QED
    BY <1>2, <1>3

LEMMA StepCopy ==
  ASSUME TypeInv, SurviveInv, NEW r \in Requests, Step(r)
  PROVE CopyInv'
  <1> SUFFICES ASSUME NEW q \in Requests, Holding(q)', NEW f \in facts',
                      f[1] = in'[q].target
               PROVE Holds(copy'[q], f[2]) \/ f \in held'[q] \/ Excused(f)'
    BY DEF CopyInv, Holds, Excused
  <1>1. /\ RowsInv /\ WroteInv /\ CopyInv /\ TypeOK
        /\ Moves(r) /\ in' = in /\ pc[r] \notin {"idle", "done"}
        /\ in[r] \in Inputs
    BY StepMoves DEF SurviveInv, TypeInv, InInv
  <1>2. CASE q # r
    <2>1. Holding(q) /\ copy'[q] = copy[q] /\ pc[q] \notin {"idle", "done"}
      BY <1>1, <1>2, OthersStay, StepOthers DEF Holding, At
    <2>2. CASE f \notin facts
      BY <1>1, <1>2, <2>1, <2>2, NewFactsHold
    <2>3. CASE f \in facts
      <3>1. Holds(copy[q], f[2]) \/ f \in held[q] \/ Excused(f)
        BY <1>1, <2>1, <2>3 DEF CopyInv
      <3>2. held[q] \subseteq held'[q]
        BY <1>2, StepHeld
      <3>3. QED
        BY <1>1, <2>1, <3>1, <3>2, ExcusedStays
    <2>4. QED
      BY <2>2, <2>3
  <1>3. CASE q = r
    <2>1. f \in facts
      BY <1>3, HoldingFrom
    <2>2. Holds(users[f[1]], f[2]) \/ Excused(f)'
      BY <1>1, <2>1, ExcusedStays DEF SurviveInv, ChangesSurvive
    <2>3. in[r].op = "createOrg" => in[r].target = in[r].user
      BY <1>1, AccountsAssumption
    <2>4. CASE copy'[r] = users[in[r].target]
      BY <1>1, <1>3, <2>2, <2>4
    <2>5. CASE Holding(r) /\ copy'[r] = copy[r] /\ held'[r] = held[r]
      <3>1. Holds(copy[r], f[2]) \/ f \in held[r] \/ Excused(f)
        BY <1>1, <1>3, <2>1, <2>5 DEF CopyInv
      <3>2. QED
        BY <1>1, <1>3, <2>5, <3>1, ExcusedStays
    <2>6. QED
      BY <1>3, <2>3, <2>4, <2>5, HoldingFrom
  <1>4. QED
    BY <1>2, <1>3

LEMMA InitSurvive == Init => SurviveInv
  <1> SUFFICES ASSUME Init PROVE SurviveInv
    OBVIOUS
  <1>1. InInv /\ WroteInv
    BY AccountsAssumption DEF Init, InInv, WroteInv
  <1>2. CopyInv
    BY DEF Init, CopyInv, Holding, At
  <1>3. CallersExist /\ NewAccounts /\ CopiesExist
    BY DEF Init, CallersExist, NewAccounts, CopiesExist, Holding, At
  <1>4. OwnersExist /\ FactsOfRows /\ RowsWhole /\ ChangesSurvive
    <2>1. CASE users = [u \in Users |-> NoUser] /\ passwords = {} /\ facts = {}
      BY <2>1 DEF OwnersExist, FactsOfRows, RowsWhole, ChangesSurvive, NoUser
    <2>2. ASSUME NEW u \in Users, passwords = {u}, facts = {<<u, 1>>},
                 users = [v \in Users |->
                            IF v = u THEN Member(1, "admin") ELSE NoUser]
          PROVE OwnersExist /\ FactsOfRows /\ RowsWhole /\ ChangesSurvive
      <3>1. OwnersExist /\ RowsWhole
        BY <2>2 DEF OwnersExist, RowsWhole, NoUser, Member
      <3>2. users[u] = Member(1, "admin")
        BY <2>2
      <3>3. FactsOfRows
        BY <2>2, <3>2 DEF FactsOfRows, Member
      <3>4. ChangesSurvive
        BY <2>2, <3>2 DEF ChangesSurvive, Holds, Member, None
      <3>5. QED
        BY <3>1, <3>3, <3>4
    <2>3. QED
      BY <2>1, <2>2 DEF Init
  <1>5. QED
    BY <1>1, <1>2, <1>3, <1>4 DEF SurviveInv, RowsInv

LEMMA NextSurvive == TypeInv /\ SurviveInv /\ [Next]_vars => SurviveInv'
  <1> SUFFICES ASSUME TypeInv, SurviveInv, [Next]_vars PROVE SurviveInv'
    OBVIOUS
  <1>1. ASSUME NEW r \in Requests, NEW i \in Inputs, Arrive(r, i)
        PROVE SurviveInv'
    <2>1. /\ At(r, "idle") /\ in' = [in EXCEPT ![r] = i]
          /\ UNCHANGED <<users, passwords, copy, facts, held, wrote>>
          /\ i.op \in InContext => i.user \in passwords
          /\ \A q \in Requests : q # r => pc'[q] = pc[q] /\ in'[q] = in[q]
      BY <1>1 DEF Arrive, RouteOf, InContext, Goto, tables, stale, TypeInv,
                  TypeOK
    <2>2. pc'[r] # "write" /\ pc'[r] # "password"
          /\ (i.op \in InContext => pc'[r] = "context")
      <3>1. First(i) # "write" /\ First(i) # "password"
        BY FirstOnPath, InputsTyped
      <3>2. QED
        BY <1>1, <3>1 DEF Arrive, RouteOf, InContext, Goto, TypeInv, TypeOK
    <2>3. in'[r] = i
      BY <2>1 DEF TypeInv, TypeOK
    <2>4. ASSUME NEW q \in Requests, Holding(q)' PROVE Holding(q) /\ q # r
      BY <2>1, <2>2, <2>3, <2>4 DEF Holding, At, InContext
    <2>5. \A f : Excused(f)' <=> Excused(f)
      BY <2>1 DEF Excused, SurviveInv, WroteInv, At, TypeInv, TypeOK
    <2>6. InInv' /\ WroteInv'
      BY <2>1, <2>3 DEF SurviveInv, InInv, WroteInv, At, TypeInv, TypeOK
    <2>7. CopyInv' /\ ChangesSurvive'
      BY <2>1, <2>4, <2>5 DEF SurviveInv, CopyInv, ChangesSurvive, Holds
    <2>8. CopiesExist'
      BY <2>1, <2>4 DEF SurviveInv, RowsInv, CopiesExist, At
    <2>9. OwnersExist' /\ FactsOfRows' /\ RowsWhole'
      BY <2>1 DEF SurviveInv, RowsInv, OwnersExist, FactsOfRows, RowsWhole
    <2>10. CallersExist' /\ NewAccounts'
      BY <2>1, <2>2, <2>3 DEF SurviveInv, RowsInv, OwnersExist, CallersExist,
                              NewAccounts
    <2>11. QED
      BY <2>6, <2>7, <2>8, <2>9, <2>10 DEF SurviveInv, RowsInv
  <1>2. ASSUME NEW r \in Requests, Step(r) PROVE SurviveInv'
    <2>1. RowsInv' /\ CopyInv' /\ ChangesSurvive'
      BY <1>2, StepRows, StepCopy, StepSurvive DEF SurviveInv
    <2>2. InInv'
      BY <1>2, StepMoves DEF InInv, SurviveInv
    <2>3. WriteUser(r) => pc'[r] = "done"
      BY DEF WriteUser, Succeeds, Answer, TypeInv, TypeOK
    <2>4. wrote' # wrote => WriteUser(r)
      BY <1>2 DEF Step, Context, Organization, StatementFails,
           InsertOrganization, UpdateOrganization, DeleteOrganization, Reread,
           InsertAccount, InsertPassword, InsertToken, Queue, LookUp,
           CheckPassword, ReplacePassword, Exchange, GetOrCreateUser,
           InviteUser, FetchCurrentUser, ListOrganizationUsers, EditNothing,
           Refuse, Replies, stale
    <2>5. WroteInv'
      <3> SUFFICES ASSUME NEW q \in wrote' PROVE pc'[q] = "done"
        BY DEF WroteInv
      <3>1. CASE q \in wrote
        <4>1. q \in Requests /\ pc[q] = "done"
          BY <3>1 DEF SurviveInv, WroteInv, TypeInv, TypeOK
        <4>2. q # r
          BY <1>2, <4>1, StepMoves
        <4>3. QED
          BY <1>2, <4>1, <4>2, StepMoves, OthersStay DEF TypeInv
      <3>2. CASE q \notin wrote
        BY <1>2, <2>3, <2>4, <3>2, StepHeld
      <3>3. QED
        BY <3>1, <3>2
    <2>6. QED
      BY <2>1, <2>2, <2>5 DEF SurviveInv
  <1>3. ASSUME NEW r \in Requests, Deliver(r) PROVE SurviveInv'
    BY <1>3 DEF Deliver, SurviveInv, InInv, RowsInv, OwnersExist, CallersExist,
                NewAccounts, CopiesExist, FactsOfRows, RowsWhole, WroteInv,
                CopyInv, ChangesSurvive, Holding, At, Excused, tables, stale
  <1>4. CASE Crash
    <2>1. /\ UNCHANGED <<users, passwords, in, copy, facts, held, wrote>>
          /\ \A q \in Requests :
               pc'[q] = pc[q] \/ (pc[q] # "idle" /\ pc'[q] = "done")
          /\ \A q \in wrote : q \in Requests
      BY <1>4 DEF Crash, Open, tables, stale, TypeInv, TypeOK
    <2>2. \A q \in Requests : Holding(q)' => Holding(q)
      BY <2>1 DEF Holding, At
    <2>3. \A f : Excused(f)' <=> Excused(f)
      BY <2>1 DEF Excused
    <2>4. InInv' /\ WroteInv'
      BY <2>1 DEF SurviveInv, InInv, WroteInv
    <2>5. CopyInv' /\ ChangesSurvive'
      BY <2>1, <2>2, <2>3 DEF SurviveInv, CopyInv, ChangesSurvive, Holds
    <2>6. CopiesExist'
      BY <2>1, <2>2 DEF SurviveInv, RowsInv, CopiesExist, At
    <2>7. OwnersExist' /\ FactsOfRows' /\ RowsWhole'
      BY <2>1 DEF SurviveInv, RowsInv, OwnersExist, FactsOfRows, RowsWhole
    <2>8. CallersExist' /\ NewAccounts'
      BY <2>1 DEF SurviveInv, RowsInv, CallersExist, NewAccounts
    <2>9. QED
      BY <2>4, <2>5, <2>6, <2>7, <2>8 DEF SurviveInv, RowsInv
  <1>5. CASE UNCHANGED vars
    BY <1>5 DEF vars, SurviveInv, InInv, RowsInv, OwnersExist, CallersExist,
                NewAccounts, CopiesExist, FactsOfRows, RowsWhole, WroteInv,
                CopyInv, ChangesSurvive, Holding, At, Excused
  <1>6. QED
    BY <1>1, <1>2, <1>3, <1>4, <1>5 DEF Next

(* What was given to a user is undone by stale copies only.                *)
THEOREM ChangesAlwaysSurvive == Spec => []ChangesSurvive
  <1>1. SurviveInv => ChangesSurvive
    BY DEF SurviveInv
  <1>2. QED
    BY <1>1, InitSurvive, NextSurvive, TypesHold, PTL DEF Spec

-------------------------------------------------------------------------------
(* The steps of an invitation, a sign-up and a login.                      *)

LEMMA InviteSteps ==
  ASSUME TypeInv, NEW r \in Requests, Step(r), in[r].op = "invite"
  PROVE \/ Context(r) \/ Organization(r) \/ StatementFails(r)
        \/ LookUp(r) \/ InviteUser(r) \/ Queue(r)
  <1>1. pc[r] \in {"context", "organization", "lookup", "invite", "queue"}
    BY StepMoves DEF TypeInv, PathInv, Path
  <1>2. QED
    BY <1>1
       DEF Step, InsertOrganization, UpdateOrganization, DeleteOrganization,
           Reread, WriteUser, InsertAccount, InsertPassword, InsertToken,
           CheckPassword, ReplacePassword, Exchange, GetOrCreateUser,
           FetchCurrentUser, ListOrganizationUsers, EditNothing, Refuse,
           Replies, At

LEMMA SignUpSteps ==
  ASSUME TypeInv, NEW r \in Requests, Step(r), in[r].op = "signup"
  PROVE \/ InsertOrganization(r) \/ InsertAccount(r) \/ InsertPassword(r)
        \/ InsertToken(r) \/ Queue(r) \/ Refuse(r) \/ StatementFails(r)
  <1>1. pc[r] \in {"insert", "account", "password", "token", "queue", "refuse"}
    BY StepMoves DEF TypeInv, PathInv, Path
  <1>2. QED
    BY <1>1
       DEF Step, Context, Organization, UpdateOrganization,
           DeleteOrganization, Reread, WriteUser, LookUp, CheckPassword,
           ReplacePassword, Exchange, GetOrCreateUser, InviteUser,
           FetchCurrentUser, ListOrganizationUsers, EditNothing, Replies, At

LEMMA LoginSteps ==
  ASSUME TypeInv, NEW r \in Requests, Step(r), in[r].op = "login"
  PROVE LookUp(r) \/ CheckPassword(r) \/ StatementFails(r)
  <1>1. pc[r] \in {"lookup", "check"}
    BY StepMoves DEF TypeInv, PathInv, Path
  <1>2. QED
    BY <1>1
       DEF Step, Context, Organization, InsertOrganization,
           UpdateOrganization, DeleteOrganization, Reread, WriteUser,
           InsertAccount, InsertPassword, InsertToken, Queue,
           ReplacePassword, Exchange, GetOrCreateUser, InviteUser,
           FetchCurrentUser, ListOrganizationUsers, EditNothing, Refuse,
           Replies, At

-------------------------------------------------------------------------------
(* Invitations.                                                            *)

(* An invitation found no account, and when it comes to its mail the       *)
(* account is there, or a statement failed.                                *)
Met(r) == \/ <<in[r].target, org[r]>> \in facts
          \/ r \in hit
          \/ ~copy[r].exists /\ users[in[r].target].exists
Invited(r) == \/ At(r, "queue")
              \/ At(r, "done") /\ answer[r] = 200

InviteInv ==
  \A r \in Requests :
    in[r].op = "invite" => /\ At(r, "invite") => ~copy[r].exists
                           /\ Invited(r) => Met(r)

LEMMA InitInvites == Init => InviteInv
  BY DEF Init, InviteInv, Invited, At

LEMMA StepInvites ==
  ASSUME TypeInv, RowsInv, InviteInv, NEW r \in Requests, Step(r)
  PROVE InviteInv'
  <1>1. /\ TypeOK /\ Moves(r) /\ in' = in /\ Held
        /\ pc[r] \notin {"idle", "done"}
        /\ hit \subseteq hit' /\ facts \subseteq facts'
    BY StepMoves, FactsStay DEF TypeInv, TypeOK, Held, NoFault, Fault
  <1>2. \A q \in Requests : in[q].target \in Users
    BY <1>1 DEF TypeOK, Input
  <1>3. ASSUME NEW q \in Requests, q # r, in'[q].op = "invite"
        PROVE /\ At(q, "invite")' => ~copy'[q].exists
              /\ Invited(q)' => Met(q)'
    <2>1. /\ pc'[q] = pc[q] /\ answer'[q] = answer[q]
          /\ copy'[q] = copy[q] /\ org'[q] = org[q]
      BY <1>1, <1>3, OthersStay, StepOthers
    <2>2. Met(q) => Met(q)'
      BY <1>1, <1>2, <2>1, UsersGrow DEF Met
    <2>3. QED
      BY <1>1, <1>3, <2>1, <2>2 DEF InviteInv, Invited, At
  <1>4. ASSUME in[r].op = "invite"
        PROVE /\ At(r, "invite")' => ~copy'[r].exists
              /\ Invited(r)' => Met(r)'
    <2>0. /\ pc \in [Requests -> Steps] /\ answer \in [Requests -> Codes]
          /\ users \in [Users -> UserRow] /\ First(in[r]) = "lookup"
      BY <1>1, <1>4 DEF TypeOK, First, Valid
    <2>1. CASE Context(r)
      <3>1. \A x, y : Refusal(x, y) # 200
        BY DEF Refusal
      <3>2. QED
        BY <1>1, <1>4, <2>0, <2>1, <3>1
           DEF Context, Goto, Answer, Invited, At
    <2>2. CASE Organization(r)
      <3>1. \A x : GateRefusal(x) # 200
        BY DEF GateRefusal
      <3>2. QED
        BY <1>1, <1>4, <2>0, <2>2, <3>1
           DEF Organization, Goto, Answer, Invited, At
    <2>3. CASE StatementFails(r)
      BY <1>1, <1>4, <2>0, <2>3 DEF StatementFails, Fault, Answer, Invited,
                                    Met, At
    <2>4. CASE LookUp(r)
      <3>1. copy'[r] = users[in[r].target]
        BY <1>1, <2>4 DEF LookUp, Held
      <3>2. \/ Answer(r, 409)
            \/ ~users[in[r].target].exists /\ Goto(r, "invite")
        BY <1>4, <2>4 DEF LookUp
      <3>3. QED
        BY <1>1, <2>0, <3>1, <3>2 DEF Goto, Answer, Invited, At
    <2>5. CASE InviteUser(r)
      <3>1. pc'[r] = "queue" /\ org' = org /\ copy' = copy /\ ~copy[r].exists
        BY <1>4, <2>0, <2>5 DEF InviteUser, Goto, InviteInv
      <3>2. \/ <<in[r].target, org[r]>> \in facts'
            \/ r \in hit'
            \/ users[in[r].target].exists /\ users' = users
        BY <2>5 DEF InviteUser, Land, Fault
      <3>3. QED
        BY <1>1, <3>1, <3>2 DEF Met, At
    <2>6. CASE Queue(r)
      <3>1. At(r, "queue") /\ pc'[r] = "done" /\ org' = org /\ copy' = copy
        BY <2>0, <2>6 DEF Queue, Succeeds, Answer
      <3>2. Met(r)
        BY <1>4, <3>1 DEF InviteInv, Invited
      <3>3. Met(r)'
        BY <1>1, <1>2, <3>1, <3>2, UsersGrow DEF Met
      <3>4. QED
        BY <3>1, <3>3 DEF At
    <2>7. QED
      BY <1>4, <2>1, <2>2, <2>3, <2>4, <2>5, <2>6, InviteSteps
  <1>5. QED
    BY <1>1, <1>3, <1>4 DEF InviteInv

LEMMA NextInvites ==
  TypeInv /\ RowsInv /\ InviteInv /\ [Next]_vars => InviteInv'
  <1> SUFFICES ASSUME TypeInv, RowsInv, InviteInv, [Next]_vars PROVE InviteInv'
    OBVIOUS
  <1>1. ASSUME NEW r \in Requests, NEW i \in Inputs, Arrive(r, i)
        PROVE InviteInv'
    <2>1. /\ UNCHANGED <<users, org, copy, facts, hit, answer>>
          /\ \A q \in Requests : q # r => pc'[q] = pc[q] /\ in'[q] = in[q]
      BY <1>1 DEF Arrive, Goto, tables, stale, TypeInv, TypeOK
    <2>2. pc'[r] \notin {"invite", "queue", "done"}
      BY <1>1, FirstOnPath, InputsTyped DEF Arrive, Goto, TypeInv, TypeOK
    <2>3. ASSUME NEW q \in Requests, q # r
          PROVE (Invited(q)' <=> Invited(q)) /\ (Met(q)' <=> Met(q))
      BY <2>1, <2>3 DEF Invited, Met, At
    <2>4. QED
      BY <2>1, <2>2, <2>3 DEF InviteInv, Invited, At
  <1>2. ASSUME NEW r \in Requests, Step(r) PROVE InviteInv'
    BY <1>2, StepInvites
  <1>3. ASSUME NEW r \in Requests, Deliver(r) PROVE InviteInv'
    <2>1. UNCHANGED <<users, org, copy, facts, hit, answer, pc, in>>
      BY <1>3 DEF Deliver, NoFault, tables, stale
    <2>2. QED
      BY <2>1 DEF InviteInv, Invited, Met, At
  <1>4. CASE Crash
    <2>1. /\ UNCHANGED <<users, org, copy, facts, answer, in>>
          /\ hit' = hit \union Open
          /\ \A q \in Requests :
               pc'[q] = IF q \in Open THEN "done" ELSE pc[q]
      BY <1>4 DEF Crash, tables, stale
    <2>2. ASSUME NEW q \in Requests, in'[q].op = "invite"
          PROVE /\ At(q, "invite")' => ~copy'[q].exists
                /\ Invited(q)' => Met(q)'
      BY <2>1, <2>2 DEF InviteInv, Invited, Met, At, Open
    <2>3. QED
      BY <2>2 DEF InviteInv
  <1>5. CASE UNCHANGED vars
    BY <1>5 DEF vars, InviteInv, Invited, Met, At
  <1>6. QED
    BY <1>1, <1>2, <1>3, <1>4, <1>5 DEF Next

(* Whoever an answered invitation names joins the organization, unless a   *)
(* statement failed or the account was made in between.                    *)
THEOREM InvitedUsersJoin == Spec => []InvitedJoins
  <1>1. InviteInv => InvitedJoins
    BY DEF InviteInv, Invited, Met, InvitedJoins
  <1>2. SurviveInv => RowsInv
    BY DEF SurviveInv
  <1>3. QED
    BY <1>1, <1>2, InitSurvive, NextSurvive, InitInvites, NextInvites,
       TypesHold, PTL DEF Spec

-------------------------------------------------------------------------------
(* Logins after a sign-up.                                                 *)

(* A user whose sign-up was answered, or is about to be, has a password    *)
(* and a row with metadata, and a login that began afterwards finds them.  *)
CanLogIn(u) == u \in passwords /\ users[u].exists /\ users[u].meta

ReadyInv == \A u \in ready : CanLogIn(u)
BeganInv == \A r \in Requests : began[r] \subseteq ready
SignUpInv ==
  \A r \in Requests :
    in[r].op = "signup" /\ pc[r] \in {"token", "queue"}
      => CanLogIn(in[r].user)
CheckInv ==
  \A r \in Requests :
    in[r].op = "login" /\ At(r, "check") /\ in[r].user \in began[r]
      => copy[r].meta

LoginInv == /\ ReadyInv /\ BeganInv /\ SignUpInv /\ CheckInv
            /\ LoginAfterSignUp

LEMMA InitLogins == Init => LoginInv
  BY DEF Init, LoginInv, ReadyInv, BeganInv, SignUpInv, CheckInv,
         LoginAfterSignUp, At

(* Nobody loses what a login takes.                                        *)
LEMMA CanLogInStays ==
  ASSUME TypeInv, RowsInv, NEW r \in Requests, Step(r), NEW u \in Users,
         CanLogIn(u)
  PROVE CanLogIn(u)'
  BY RowsStay, UsersGrow DEF CanLogIn

(* A sign-up is answered as done by its last step.                         *)
LEMMA ReadyFrom ==
  ASSUME TypeInv, NEW r \in Requests, Step(r), ready' # ready
  PROVE /\ in[r].op = "signup" /\ At(r, "queue")
        /\ ready' = ready \union {in[r].user}
  <1>1. Moves(r)
    BY StepMoves
  <1>2. Answer(r, 200) /\ in[r].op = "signup"
    BY <1>1 DEF Moves, Goto, Answer
  <1>3. answer'[r] = 200 /\ pc'[r] = "done"
    BY <1>2 DEF Answer, TypeInv, TypeOK
  <1>4. answer \in [Requests -> Codes] /\ pc \in [Requests -> Steps]
    BY DEF TypeInv, TypeOK
  <1>5. ~InsertOrganization(r)
    BY <1>2, <1>3, <1>4 DEF InsertOrganization, Goes, Goto, Answer
  <1>6. ~InsertAccount(r) /\ ~InsertPassword(r) /\ ~InsertToken(r)
    BY <1>3, <1>4 DEF InsertAccount, InsertPassword, InsertToken, Goes, Goto,
                      Answer
  <1>7. ~Refuse(r) /\ ~StatementFails(r)
    BY <1>3, <1>4 DEF Refuse, StatementFails, Answer
  <1>8. Queue(r)
    BY <1>2, <1>5, <1>6, <1>7, SignUpSteps
  <1>9. QED
    BY <1>2, <1>8 DEF Queue, Answer

(* What a sign-up has stored by the time it comes to its token.            *)
LEMMA TokenFrom ==
  ASSUME TypeInv, RowsInv, SignUpInv, NEW r \in Requests, Step(r),
         in[r].op = "signup", pc'[r] \in {"token", "queue"}
  PROVE CanLogIn(in[r].user)'
  <1>1. /\ pc \in [Requests -> Steps] /\ in[r].user \in Users
    BY DEF TypeInv, TypeOK, Input
  <1>2. ~InsertOrganization(r) /\ ~InsertAccount(r)
    BY <1>1 DEF InsertOrganization, InsertAccount, Goes, Goto, Answer
  <1>3. ~Queue(r) /\ ~Refuse(r) /\ ~StatementFails(r)
    BY <1>1 DEF Queue, Refuse, StatementFails, Succeeds, Answer
  <1>4. CASE InsertPassword(r)
    <2>1. users[in[r].user].exists /\ users[in[r].user].meta
      BY <1>4 DEF InsertPassword, At, RowsInv, NewAccounts
    <2>2. in[r].user \in passwords'
      BY <1>4 DEF InsertPassword
    <2>3. in' = in
      BY StepMoves
    <2>4. QED
      BY <1>1, <2>1, <2>2, <2>3, UsersGrow DEF CanLogIn
  <1>5. CASE InsertToken(r)
    <2>1. CanLogIn(in[r].user)
      BY <1>5 DEF InsertToken, At, SignUpInv
    <2>2. in' = in
      BY StepMoves
    <2>3. CanLogIn(in[r].user)'
      BY <1>1, <2>1, <2>2, CanLogInStays DEF CanLogIn
    <2>4. QED
      BY <2>3
  <1>6. QED
    BY <1>2, <1>3, <1>4, <1>5, SignUpSteps

(* A login of a user who is ready finds the row, the password and the      *)
(* metadata.                                                               *)
LEMMA StepLogin ==
  ASSUME TypeInv, RowsInv, InInv, LoginInv, NEW r \in Requests, Step(r),
         in[r].op = "login", in[r].user \in began[r]
  PROVE /\ pc'[r] = "check" => copy'[r].meta
        /\ pc'[r] = "done" => answer'[r] = 200 \/ r \in hit'
  <1>1. /\ pc \in [Requests -> Steps] /\ answer \in [Requests -> Codes]
        /\ Held
    BY DEF TypeInv, TypeOK, Held
  <1>2. in[r].target = in[r].user
    BY AccountsAssumption DEF InInv
  <1>3. CanLogIn(in[r].user)
    BY DEF LoginInv, ReadyInv, BeganInv
  <1>4. CASE LookUp(r)
    <2>1. copy'[r] = users[in[r].user]
      BY <1>1, <1>2, <1>4 DEF LookUp, Held
    <2>2. Goto(r, "check")
      BY <1>2, <1>3, <1>4 DEF LookUp, CanLogIn
    <2>3. QED
      BY <1>1, <1>3, <2>1, <2>2 DEF Goto, CanLogIn
  <1>5. CASE CheckPassword(r)
    <2>1. copy[r].meta
      BY <1>5 DEF CheckPassword, LoginInv, CheckInv
    <2>2. Answer(r, 200)
      BY <1>3, <1>5, <2>1 DEF CheckPassword, CanLogIn, TokenFor
    <2>3. QED
      BY <1>1, <2>2 DEF Answer
  <1>6. CASE StatementFails(r)
    BY <1>1, <1>6 DEF StatementFails, Fault, Answer
  <1>7. QED
    BY <1>4, <1>5, <1>6, LoginSteps

LEMMA StepLogins ==
  ASSUME TypeInv, RowsInv, InInv, LoginInv, NEW r \in Requests, Step(r)
  PROVE LoginInv'
  <1>1. /\ TypeOK /\ Moves(r) /\ in' = in /\ began' = began
        /\ hit \subseteq hit' /\ pc[r] \notin {"idle", "done"}
    BY StepMoves DEF TypeInv, NoFault, Fault
  <1>2. \A q \in Requests : in[q].user \in Users
    BY <1>1 DEF TypeOK, Input
  <1>3. ready \subseteq ready'
    BY ReadyFrom
  <1>4. ASSUME NEW u \in ready' PROVE CanLogIn(u)'
    <2>1. CanLogIn(u) /\ u \in Users
      <3>1. CASE u \in ready
        BY <1>1, <3>1 DEF LoginInv, ReadyInv, TypeOK
      <3>2. CASE u \notin ready
        <4>1. in[r].op = "signup" /\ At(r, "queue") /\ u = in[r].user
          BY <1>4, <3>2, ReadyFrom
        <4>2. QED
          BY <1>2, <4>1 DEF LoginInv, SignUpInv, At
      <3>3. QED
        BY <3>1, <3>2
    <2>2. QED
      BY <2>1, CanLogInStays
  <1>5. BeganInv'
    BY <1>1, <1>3 DEF LoginInv, BeganInv
  <1>6. ASSUME NEW q \in Requests, in'[q].op = "signup",
               pc'[q] \in {"token", "queue"}
        PROVE CanLogIn(in[q].user)'
    <2>1. CASE q = r
      BY <1>1, <1>6, <2>1, TokenFrom DEF LoginInv
    <2>2. CASE q # r
      <3>1. CanLogIn(in[q].user)
        BY <1>1, <1>6, <2>2, OthersStay DEF LoginInv, SignUpInv
      <3>2. users'[in'[q].user] = users'[in[q].user] /\ in'[q].user = in[q].user
        BY <1>1
      <3>3. QED
        BY <1>2, <3>1, <3>2, RowsStay, UsersGrow DEF CanLogIn
    <2>3. QED
      BY <2>1, <2>2
  <1>7. ASSUME NEW q \in Requests, in'[q].op = "login", At(q, "check")',
               in'[q].user \in began'[q]
        PROVE copy'[q].meta
    <2>1. CASE q = r
      BY <1>1, <1>7, <2>1, StepLogin DEF At
    <2>2. CASE q # r
      BY <1>1, <1>7, <2>2, OthersStay, StepOthers DEF LoginInv, CheckInv, At
    <2>3. QED
      BY <2>1, <2>2
  <1>8. ASSUME NEW q \in Requests, At(q, "done")', in'[q].op = "login",
               in'[q].user \in began'[q]
        PROVE answer'[q] = 200 \/ q \in hit'
    <2>1. CASE q = r
      BY <1>1, <1>8, <2>1, StepLogin DEF At
    <2>2. CASE q # r
      BY <1>1, <1>8, <2>2, OthersStay DEF LoginInv, LoginAfterSignUp, At
    <2>3. QED
      BY <2>1, <2>2
  <1>9. ReadyInv'
    BY <1>4 DEF ReadyInv
  <1>10. SignUpInv'
    BY <1>1, <1>6 DEF SignUpInv
  <1>11. CheckInv' /\ LoginAfterSignUp'
    BY <1>7, <1>8 DEF CheckInv, LoginAfterSignUp
  <1>12. QED
    BY <1>5, <1>9, <1>10, <1>11 DEF LoginInv

LEMMA NextLogins ==
  TypeInv /\ RowsInv /\ InInv /\ LoginInv /\ [Next]_vars => LoginInv'
  <1> SUFFICES ASSUME TypeInv, RowsInv, InInv, LoginInv, [Next]_vars
               PROVE LoginInv'
    OBVIOUS
  <1>1. ASSUME NEW r \in Requests, NEW i \in Inputs, Arrive(r, i)
        PROVE LoginInv'
    <2>1. /\ UNCHANGED <<users, passwords, copy, hit, answer, ready>>
          /\ \A q \in Requests : q # r => /\ pc'[q] = pc[q]
                                          /\ in'[q] = in[q]
                                          /\ began'[q] = began[q]
          /\ began'[r] = ready /\ in'[r] = i
      BY <1>1 DEF Arrive, Goto, tables, stale, TypeInv, TypeOK
    <2>2. /\ pc'[r] \notin {"token", "queue", "done"}
          /\ i.op = "login" => pc'[r] # "check"
      <3>1. First(i) \notin {"token", "queue", "done"}
        BY FirstOnPath, InputsTyped
      <3>2. i.op = "login" => First(i) = "lookup"
        BY DEF First, Valid
      <3>3. QED
        BY <1>1, <3>1, <3>2 DEF Arrive, RouteOf, Goto, TypeInv, TypeOK
    <2>3. \A u : CanLogIn(u)' <=> CanLogIn(u)
      BY <2>1 DEF CanLogIn
    <2>4. ReadyInv' /\ BeganInv'
      BY <2>1, <2>3 DEF LoginInv, ReadyInv, BeganInv
    <2>5. SignUpInv'
      BY <2>1, <2>2 DEF LoginInv, SignUpInv, CanLogIn
    <2>6. CheckInv' /\ LoginAfterSignUp'
      BY <2>1, <2>2 DEF LoginInv, CheckInv, LoginAfterSignUp, At
    <2>7. QED
      BY <2>4, <2>5, <2>6 DEF LoginInv
  <1>2. ASSUME NEW r \in Requests, Step(r) PROVE LoginInv'
    BY <1>2, StepLogins
  <1>3. ASSUME NEW r \in Requests, Deliver(r) PROVE LoginInv'
    <2>1. /\ UNCHANGED <<users, passwords, copy, hit, answer, ready, pc, in,
                         began>>
      BY <1>3 DEF Deliver, NoFault, tables, stale
    <2>2. QED
      BY <2>1 DEF LoginInv, ReadyInv, BeganInv, SignUpInv, CheckInv,
                  LoginAfterSignUp, CanLogIn, At
  <1>4. CASE Crash
    <2>1. /\ UNCHANGED <<users, passwords, copy, answer, ready, in, began>>
          /\ hit' = hit \union Open
          /\ \A q \in Requests :
               pc'[q] = IF q \in Open THEN "done" ELSE pc[q]
      BY <1>4 DEF Crash, tables, stale
    <2>2. ReadyInv' /\ BeganInv' /\ SignUpInv'
      BY <2>1 DEF LoginInv, ReadyInv, BeganInv, SignUpInv, CanLogIn
    <2>3. CheckInv' /\ LoginAfterSignUp'
      BY <2>1 DEF LoginInv, CheckInv, LoginAfterSignUp, At
    <2>4. QED
      BY <2>2, <2>3 DEF LoginInv
  <1>5. CASE UNCHANGED vars
    BY <1>5 DEF vars, LoginInv, ReadyInv, BeganInv, SignUpInv, CheckInv,
                LoginAfterSignUp, CanLogIn, At
  <1>6. QED
    BY <1>1, <1>2, <1>3, <1>4, <1>5 DEF Next

(* A user whose sign-up was answered as done can log in.                   *)
THEOREM SignedUpUsersLogIn == Spec => []LoginAfterSignUp
  <1>1. LoginInv => LoginAfterSignUp
    BY DEF LoginInv
  <1>2. SurviveInv => RowsInv /\ InInv
    BY DEF SurviveInv
  <1>3. QED
    BY <1>1, <1>2, InitSurvive, NextSurvive, InitLogins, NextLogins,
       TypesHold, PTL DEF Spec
===============================================================================
