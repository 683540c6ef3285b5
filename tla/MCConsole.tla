------------------------------- MODULE MCConsole -------------------------------
(* The instance of Console for TLC: u1 has two organizations, u2 one, u3   *)
(* none, and u4 a deleted one and one without a subscription.              *)
EXTENDS Console

CONSTANTS c1, u1, u2, u3, u4

MCMine == [u \in Users |-> CASE u = u1 -> {1, 2} [] u = u2 -> {1}
                             [] u = u3 -> {}     [] u = u4 -> {3, 4}]

Row(kind, o, at, hit) ==
  [kind |-> kind, org |-> o, at |-> at, actor |-> "other", hit |-> hit,
   fresh |-> at > 1]

(* Four events of one organization, two of them of one instant.            *)
MCData == <<Row("event", 1, 1, TRUE), Row("event", 1, 2, TRUE),
            [Row("event", 1, 3, TRUE) EXCEPT !.actor = u1],
            Row("event", 1, 3, FALSE), Row("event", 2, 2, TRUE),
            [Row("session", 1, 2, TRUE) EXCEPT !.actor = u1],
            Row("audit", 2, 2, TRUE), Row("key", 1, 2, TRUE)>>

By(rt, u, o) == [route |-> rt, user |-> u, selected |-> o, ref |-> 1,
                 page |-> 0, perPage |-> 0, filter |-> "none", name |-> "",
                 features |-> FALSE]
For(handler, u, o) == By(CHOOSE rt \in Routes : rt.handler = handler, u, o)
Events(u, o) == By(R("GET", <<"events">>, "event.ListAll"), u, o)

(* Every route for u1; every route that has a user for u3.                 *)
MCInputs ==
  {By(rt, u1, 1) : rt \in Routes \ ByKey}
  \union {By(rt, u3, None) : rt \in Gated \union Ungated}
  \union {[By(rt, Nobody, None) EXCEPT !.ref = r] : rt \in ByKey, r \in {1, 8}}
  \union {Events(u, o) : u \in {u1, u2}, o \in {None, 2, 3}}
  \union {Events(u4, 3), Events(u4, 4), Events(Nobody, None)}
  \union {[Events(u1, 1) EXCEPT !.perPage = 1],
          [Events(u1, 1) EXCEPT !.perPage = 1, !.filter = "hit"],
          [Events(u1, 1) EXCEPT !.filter = "bad"],
          [Events(u1, 1) EXCEPT !.page = -1],
          [Events(u1, 1) EXCEPT !.page = 2],
          [For("session.ListAll", u1, 1) EXCEPT !.perPage = 1],
          [For("session.List", u1, 1) EXCEPT !.ref = 6],
          [For("auditLog.List", u1, 1) EXCEPT !.ref = 7],
          [For("plan.Create", u1, 1) EXCEPT !.name = "n1", !.features = TRUE],
          [For("plan.Create", u1, 1) EXCEPT !.name = "n2"],
          [For("plan.Create", u1, 1) EXCEPT !.name = Blank],
          [For("plan.Update", u1, 1) EXCEPT !.name = "n2"],
          [For("plan.Update", u1, 1) EXCEPT !.name = Blank],
          [For("invitation.Create", u1, 1) EXCEPT !.name = "n1"],
          [For("invitation.Create", u1, 2) EXCEPT !.name = "n1"],
          For("invitation.Delete", u2, 1)}

(* The events of the first organization appear during a run, and before    *)
(* any plan or invitation.                                                 *)
MCInit == Init /\ {5, 6, 7, 8} \subseteq visible

MCNext == Next /\ (visible = Rows \/ UNCHANGED <<plans, invitations>>)

MCSpec == MCInit /\ [][MCNext]_vars
===============================================================================
