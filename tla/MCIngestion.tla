------------------------------ MODULE MCIngestion ------------------------------
(* Instances of Ingestion for TLC.                                         *)
EXTENDS Ingestion, TLC

CONSTANTS i1, i2, e1, a1, s1, x1

Body(topic, uid, name, token) ==
  [topic |-> topic, org |-> "o", uid |-> uid, name |-> name,
   token |-> token, wellFormed |-> TRUE]

(* An event of user u1, an audit log that gives a username only, and a     *)
(* session that names u1 by id; x1 is an event that names nobody.          *)
AllCalls == (e1 :> Body("save_event", "u1", "n1", "")) @@
            (a1 :> Body("save_audit_log", "", "n2", "")) @@
            (s1 :> Body("save_session", "u1", "n3", "tok")) @@
            (x1 :> Body("save_event", "", "", ""))

MCCall == [r \in Requests |-> AllCalls[r]]
===============================================================================
