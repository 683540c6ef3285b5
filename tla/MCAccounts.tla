------------------------------ MODULE MCAccounts -------------------------------
(* The instance of Accounts for TLC.                                       *)
EXTENDS Accounts

CONSTANTS u1, u2

By(op, u) == [op |-> op, user |-> u, target |-> u, selected |-> None,
              name |-> "", password |-> FALSE, field |-> FALSE,
              active |-> "unsaid"]

(* u1 makes the requests that need a session; u2 signs up, logs in, signs  *)
(* in with Google, resets its password, is invited and revoked.            *)
MCInputs ==
  {By(op, u1) : op \in {"me", "users", "edit", "delete"}}
  \union {By(op, u2) : op \in {"google", "login", "forgot", "reset"}}
  \union {[By("signup", u2) EXCEPT !.name = "n1"],
          [By("signup", u2) EXCEPT !.name = Blank],
          [By("createOrg", u1) EXCEPT !.name = "n2"],
          [By("edit", u1) EXCEPT !.password = TRUE, !.field = TRUE],
          [By("revoke", u1) EXCEPT !.selected = 1],
          [By("revoke", u1) EXCEPT !.target = u2],
          [By("invite", u1) EXCEPT !.target = u2],
          [By("patch", u1) EXCEPT !.name = "n2"],
          [By("patch", u1) EXCEPT !.selected = 2, !.active = "yes"]}

(* An administrator who withdraws the subscription, and other requests.    *)
MCWithdrawals ==
  {[By("patch", u1) EXCEPT !.active = "no"],
   [By("patch", u1) EXCEPT !.name = "n2"],
   By("users", u1), By("delete", u1)}

(* Nobody at first, or u1 with an organization.                            *)
MCInit == Init /\ ~users[u2].exists
               /\ orgs[1].name \in {"", "n1"}

(* Requests that change nothing come last.                                 *)
ReadOnly == {"me", "users", "nothing", "refuse"}
MCNext == /\ Next
          /\ \A r \in Requests \ {MaxRequests} :
               in'[r] = in[r] \/ First(in'[r]) \notin ReadOnly

MCSpec == MCInit /\ [][MCNext]_vars
===============================================================================
