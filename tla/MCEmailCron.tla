------------------------------ MODULE MCEmailCron ------------------------------
(* The instance of EmailCron for TLC: two of the three rows are there at   *)
(* first, so that the third can only become visible between them.          *)
EXTENDS EmailCron

(* One worker without retries, or two with a retry.                        *)
MCFlags == {[batch |-> 2, workers |-> 1, retries |-> 0],
            [batch |-> 2, workers |-> 2, retries |-> 1]}

MCInit == Init /\ visible = Users \ {2}

MCSpec == MCInit /\ [][Next]_vars /\ Fairness
===============================================================================
