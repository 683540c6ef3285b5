-------------------------------- MODULE MailRun --------------------------------
(***************************************************************************)
(* What a run of the "cron users" command promises, without offsets,       *)
(* workers, retries or channels: it takes jobs a batch at a time, every    *)
(* job of a batch is settled once and counted once before the next batch   *)
(* is taken, and the run ends clean exactly when no job failed.            *)
(***************************************************************************)
EXTENDS Naturals

CONSTANT Users

VARIABLES run,       \* "idle", "open", "clean" or "failed"
          jobs,      \* the batch being mailed
          outcome,   \* outcome[u]: "none", "sent" or "failed"
          sent,
          failed

vars == <<run, jobs, outcome, sent, failed>>

Nothing == [u \in Users |-> "none"]

Init == /\ run = "idle"
        /\ jobs = {}
        /\ outcome = Nothing
        /\ sent = 0
        /\ failed = 0

Open == /\ run # "open"
        /\ run' = "open"
        /\ jobs' = {}
        /\ outcome' = Nothing
        /\ sent' = 0
        /\ failed' = 0

Take(B) == /\ run = "open"
           /\ jobs = {}
           /\ B # {}
           /\ jobs' = B
           /\ UNCHANGED <<run, outcome, sent, failed>>

Settle(u) == /\ u \in jobs
             /\ outcome[u] = "none"
             /\ \/ /\ outcome' = [outcome EXCEPT ![u] = "sent"]
                   /\ sent' = sent + 1
                   /\ UNCHANGED failed
                \/ /\ outcome' = [outcome EXCEPT ![u] = "failed"]
                   /\ failed' = failed + 1
                   /\ UNCHANGED sent
             /\ UNCHANGED <<run, jobs>>

Clear == /\ jobs # {}
         /\ \A u \in jobs : outcome[u] # "none"
         /\ jobs' = {}
         /\ outcome' = Nothing
         /\ UNCHANGED <<run, sent, failed>>

Close == /\ run = "open"
         /\ jobs = {}
         /\ run' = IF failed > 0 THEN "failed" ELSE "clean"
         /\ UNCHANGED <<jobs, outcome, sent, failed>>

(* A run gives up only between batches, so that no mail is on its way.     *)
Abort == /\ run = "open"
         /\ jobs = {}
         /\ run' = "failed"
         /\ UNCHANGED <<jobs, outcome, sent, failed>>

(* The process dies.                                                       *)
Kill == /\ run = "open"
        /\ run' = "idle"
        /\ jobs' = {}
        /\ outcome' = Nothing
        /\ UNCHANGED <<sent, failed>>

Next == \/ Open \/ Clear \/ Close \/ Abort \/ Kill
        \/ \E B \in SUBSET Users : Take(B)
        \/ \E u \in Users : Settle(u)

Spec == Init /\ [][Next]_vars
===============================================================================
