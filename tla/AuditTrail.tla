------------------------------ MODULE AuditTrail ------------------------------
(***************************************************************************)
(* What the ingestion pipeline promises of the audit trail, with the HTTP  *)
(* handlers, the Redis stream and the consumers left out.  A record is     *)
(* admitted at most once, it is answered at most once, only an admitted    *)
(* record is answered "accepted", only an admitted record reaches the      *)
(* trail or the dead letters, and nothing ever leaves either of them.      *)
(*                                                                         *)
(* The pipeline has no consumer group, so every site (server process)      *)
(* keeps its own copies: trail[r][s] counts the rows site s wrote for r.   *)
(***************************************************************************)
EXTENDS Naturals

CONSTANTS Records,   \* one per ingestion call
          Sites      \* the processes that consume the stream

VARIABLES admitted,  \* records on the stream
          answer,    \* what the caller was told
          trail,     \* rows per record and site
          dead       \* <<site, record>>: dead-lettered by that site

avars == <<admitted, answer, trail, dead>>

Answers == {"none", "accepted", "refused"}

ATypeOK == /\ admitted \subseteq Records
           /\ answer \in [Records -> Answers]
           /\ trail \in [Records -> [Sites -> Nat]]
           /\ dead \subseteq Sites \X Records

AInit == /\ admitted = {}
         /\ answer = [r \in Records |-> "none"]
         /\ trail = [r \in Records |-> [s \in Sites |-> 0]]
         /\ dead = {}

(* A record joins the stream and its caller is answered in the same step;  *)
(* a caller whose publish failed after it took effect is refused although  *)
(* the record is admitted.                                                 *)
Admit(r) == /\ r \notin admitted
            /\ answer[r] = "none"
            /\ admitted' = admitted \union {r}
            /\ \E a \in {"accepted", "refused"} :
                  answer' = [answer EXCEPT ![r] = a]
            /\ UNCHANGED <<trail, dead>>

(* Any number of unanswered calls end without admission: one error answer, *)
(* or every call a dying process was serving.                              *)
Refuse(R) == /\ \A r \in R : answer[r] = "none"
             /\ answer' = [r \in Records |->
                              IF r \in R THEN "refused" ELSE answer[r]]
             /\ UNCHANGED <<admitted, trail, dead>>

Store(r, s) == /\ r \in admitted
               /\ trail' = [trail EXCEPT ![r][s] = @ + 1]
               /\ UNCHANGED <<admitted, answer, dead>>

Bury(r, s) == /\ r \in admitted
              /\ dead' = dead \union {<<s, r>>}
              /\ UNCHANGED <<admitted, answer, trail>>

ANext == \/ \E r \in Records : Admit(r)
         \/ \E R \in SUBSET Records : Refuse(R)
         \/ \E r \in Records, s \in Sites : Store(r, s) \/ Bury(r, s)

ASpec == AInit /\ [][ANext]_avars
===============================================================================
