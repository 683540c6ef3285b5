---------------------------- MODULE EmailCronProofs ----------------------------
(***************************************************************************)
(* Proofs about EmailCron for every number of users, batch size, pool,     *)
(* retry limit, fault and run: type correctness, that every mail is paid   *)
(* for by a fetch or a lying send, that a mailed user has a token, that    *)
(* the channel keeps its bound, that the counters agree with the mails,    *)
(* and that a run implements MailRun.                                      *)
(***************************************************************************)
EXTENDS EmailCron, FiniteSetTheorems, TLAPS

(* Every action by name, for the case splits.                              *)
LEMMA NextCases ==
  ASSUME Next
  PROVE \/ Start \/ Kill \/ Fetch \/ End \/ FetchFails \/ Collect
        \/ \E u \in Users :
             \/ Appear(u) \/ Verify(u)
             \/ Store(u) \/ StoreFails(u) \/ Dispatch(u)
             \/ SendSucceeds(u) \/ SendFails(u) \/ Count(u) \/ Report(u)
  BY DEF Next, Run, Environment, Worker

LEMMA UsersFinite ==
  \A S \in SUBSET Users : IsFiniteSet(S) /\ Cardinality(S) \in Nat
  <1>1. IsFiniteSet(Users)
    BY FS_Interval, EmailCronAssumption DEF Users
  <1>2. QED
    BY <1>1, FS_Subset, FS_CardinalityType

-------------------------------------------------------------------------------
(* Type correctness.                                                       *)

LEMMA InitTypeOK == Init => TypeOK
  BY EmailCronAssumption DEF Init, TypeOK, Zero, Stages, Phases

LEMMA PageType == ASSUME TypeOK PROVE Page \in SUBSET Users
  BY DEF TypeOK, Page, Pending

LEMMA NextTypeOK == TypeOK /\ [Next]_vars => TypeOK'
  <1> SUFFICES ASSUME TypeOK, [Next]_vars PROVE TypeOK'
    OBVIOUS
  <1>1. CASE Start
    BY <1>1 DEF TypeOK, Start, Zero, Pending, Phases, Honest
  <1>2. CASE Kill
    BY <1>2 DEF TypeOK, Kill, Phases, users, metrics, process, fetched
  <1>3. CASE Fetch
    <2>1. Page \in SUBSET Users
      BY PageType
    <2>2. QED
      BY <1>3, <2>1 DEF TypeOK, Fetch, Zero, Phases, Stages, users, metrics,
                        process
  <1>4. CASE End
    BY <1>4 DEF TypeOK, End, Phases, users, metrics, process, fetched
  <1>5. CASE FetchFails
    BY <1>5 DEF TypeOK, FetchFails, Fault, Phases, users, metrics, process,
                fetched
  <1>6. CASE Collect
    <2>1. Cardinality(batch) \in Nat
      BY UsersFinite DEF TypeOK
    <2>2. QED
      BY <1>6, <2>1 DEF TypeOK, Collect, Phases, users, metrics, process,
                        fetched
  <1>7. ASSUME NEW u \in Users, Appear(u) PROVE TypeOK'
    BY <1>7 DEF TypeOK, Appear, metrics, process, fetched
  <1>8. ASSUME NEW u \in Users, Verify(u) PROVE TypeOK'
    BY <1>8 DEF TypeOK, Verify, metrics, process, fetched
  <1>9. ASSUME NEW u \in Users, Store(u) PROVE TypeOK'
    <2>1. Cardinality(batch) \in Nat
      BY UsersFinite DEF TypeOK
    <2>2. QED
      BY <1>9, <2>1 DEF TypeOK, Store, Phases, Stages, users, metrics, process,
                        fetched
  <1>10. ASSUME NEW u \in Users, StoreFails(u) PROVE TypeOK'
    BY <1>10 DEF TypeOK, StoreFails, Fault, Phases, users, metrics, process,
                 fetched
  <1>11. ASSUME NEW u \in Users, Dispatch(u) PROVE TypeOK'
    BY <1>11 DEF TypeOK, Dispatch, Stages, users, metrics, process, fetched
  <1>12. ASSUME NEW u \in Users, SendSucceeds(u) PROVE TypeOK'
    BY <1>12 DEF TypeOK, SendSucceeds, Stages, users, metrics, process, fetched
  <1>13. ASSUME NEW u \in Users, SendFails(u) PROVE TypeOK'
    BY <1>13 DEF TypeOK, SendFails, Fault, Stages, users, metrics, process,
                 fetched
  <1>14. ASSUME NEW u \in Users, Count(u) PROVE TypeOK'
    BY <1>14 DEF TypeOK, Count, Stages, users, metrics, process, fetched
  <1>15. ASSUME NEW u \in Users, Report(u) PROVE TypeOK'
    BY <1>15 DEF TypeOK, Report, Stages, users, metrics, process, fetched
  <1>16. CASE UNCHANGED vars
    BY <1>16 DEF TypeOK, vars, metrics, process
  <1>17. QED
    BY <1>1, <1>2, <1>3, <1>4, <1>5, <1>6, <1>7, <1>8, <1>9, <1>10, <1>11,
       <1>12, <1>13, <1>14, <1>15, <1>16, NextCases

(* Every variable keeps its type.                                          *)
THEOREM TypeCorrect == Spec => []TypeOK
  BY InitTypeOK, NextTypeOK, PTL DEF Spec

-------------------------------------------------------------------------------
(* Mails and tokens.                                                       *)

Mailing == phase \in {"tokens", "mail"}
Owed(u) == Mailing /\ stage[u] \in {"fetched", "job", "sending"}

(* The mail of a fetch that is still owed is paid for already.             *)
PaidInv == \A u \in Users :
             mails[u] + (IF Owed(u) THEN 1 ELSE 0) <= takes[u] + lies[u]

(* The token of a job was stored when it became one.                       *)
TokenInv == \A u \in Users :
              mails[u] > 0 \/ (Mailing /\ stage[u] \in {"job", "sending"})
                => tokens[u] > 0

LEMMA InitMails == Init => PaidInv /\ TokenInv
  BY DEF Init, PaidInv, TokenInv, Owed, Mailing, Zero

LEMMA NextMails ==
  TypeOK /\ PaidInv /\ TokenInv /\ [Next]_vars => PaidInv' /\ TokenInv'
  <1> SUFFICES ASSUME TypeOK, PaidInv, TokenInv, [Next]_vars, NEW v \in Users
               PROVE /\ mails'[v] + (IF Owed(v)' THEN 1 ELSE 0)
                          <= takes'[v] + lies'[v]
                     /\ mails'[v] > 0
                          \/ (Mailing' /\ stage'[v] \in {"job", "sending"})
                        => tokens'[v] > 0
    BY DEF PaidInv, TokenInv
  <1>0. /\ mails[v] \in Nat /\ takes[v] \in Nat /\ lies[v] \in Nat
        /\ tokens[v] \in Nat
        /\ mails[v] + (IF Owed(v) THEN 1 ELSE 0) <= takes[v] + lies[v]
        /\ mails[v] > 0 \/ (Mailing /\ stage[v] \in {"job", "sending"})
             => tokens[v] > 0
    BY DEF TypeOK, PaidInv, TokenInv
  <1>a. /\ mails \in [Users -> Nat] /\ takes \in [Users -> Nat]
        /\ lies \in [Users -> Nat] /\ tokens \in [Users -> Nat]
        /\ stage \in [Users -> Stages]
    BY DEF TypeOK
  <1>1. CASE Start
    BY <1>0, <1>1 DEF Start, Owed, Mailing
  <1>2. CASE Kill
    BY <1>0, <1>2 DEF Kill, Owed, Mailing, fetched
  <1>3. CASE Fetch
    BY <1>0, <1>3 DEF Fetch, Owed, Mailing
  <1>4. CASE End
    BY <1>0, <1>4 DEF End, Owed, Mailing, fetched
  <1>5. CASE FetchFails
    BY <1>0, <1>5 DEF FetchFails, Owed, Mailing, fetched
  <1>6. CASE Collect
    BY <1>0, <1>6 DEF Collect, Owed, Mailing, fetched
  <1>7. ASSUME NEW u \in Users, Appear(u) \/ Verify(u) \/ Count(u) \/ Report(u)
                                \/ Dispatch(u)
        PROVE /\ mails' = mails /\ takes' = takes /\ lies' = lies
              /\ tokens' = tokens /\ phase' = phase
              /\ \/ stage'[v] = stage[v]
                 \/ (stage[v] = "job" /\ stage'[v] = "sending")
                 \/ stage'[v] \in {"counted", "left"}
    BY <1>7, <1>a DEF Appear, Verify, Count, Report, Dispatch, First, fetched
  <1>8. ASSUME NEW u \in Users, Store(u)
        PROVE /\ mails' = mails /\ takes' = takes /\ lies' = lies
              /\ Mailing /\ Mailing'
              /\ u # v => stage'[v] = stage[v] /\ tokens'[v] = tokens[v]
              /\ u = v => /\ stage[v] = "fetched" /\ stage'[v] = "job"
                          /\ tokens'[v] = tokens[v] + 1
    BY <1>8, <1>a DEF Store, First, fetched, Mailing
  <1>9. ASSUME NEW u \in Users, StoreFails(u)
        PROVE /\ mails' = mails /\ takes' = takes /\ lies' = lies
              /\ ~Mailing' /\ tokens'[v] >= tokens[v]
    BY <1>9, <1>a DEF StoreFails, fetched, Mailing
  <1>10. ASSUME NEW u \in Users, SendSucceeds(u)
         PROVE /\ takes' = takes /\ lies' = lies /\ tokens' = tokens
               /\ Mailing /\ Mailing'
               /\ u # v => stage'[v] = stage[v] /\ mails'[v] = mails[v]
               /\ u = v => /\ stage[v] = "sending" /\ stage'[v] = "settled"
                           /\ mails'[v] = mails[v] + 1
    BY <1>10, <1>a DEF SendSucceeds, fetched, Mailing
  <1>11. ASSUME NEW u \in Users, SendFails(u)
         PROVE /\ takes' = takes /\ tokens' = tokens
               /\ Mailing /\ Mailing'
               /\ u # v => /\ stage'[v] = stage[v] /\ mails'[v] = mails[v]
                           /\ lies'[v] = lies[v]
               /\ u = v => /\ stage[v] = "sending"
                           /\ stage'[v] \in {"sending", "settled"}
                           /\ \/ mails'[v] = mails[v] /\ lies'[v] = lies[v]
                              \/ /\ mails'[v] = mails[v] + 1
                                 /\ lies'[v] = lies[v] + 1
    BY <1>11, <1>a DEF SendFails, fetched, Mailing
  <1>12. CASE UNCHANGED vars
    BY <1>0, <1>12 DEF vars, Owed, Mailing
  <1>13. ASSUME NEW u \in Users, Appear(u) \/ Verify(u) \/ Count(u) \/ Report(u)
                                 \/ Dispatch(u)
         PROVE /\ mails'[v] + (IF Owed(v)' THEN 1 ELSE 0)
                    <= takes'[v] + lies'[v]
               /\ mails'[v] > 0
                    \/ (Mailing' /\ stage'[v] \in {"job", "sending"})
                  => tokens'[v] > 0
    BY <1>0, <1>7, <1>13 DEF Owed, Mailing
  <1>14. ASSUME NEW u \in Users,
                Store(u) \/ StoreFails(u) \/ SendSucceeds(u) \/ SendFails(u)
         PROVE /\ mails'[v] + (IF Owed(v)' THEN 1 ELSE 0)
                    <= takes'[v] + lies'[v]
               /\ mails'[v] > 0
                    \/ (Mailing' /\ stage'[v] \in {"job", "sending"})
                  => tokens'[v] > 0
    <2>1. CASE Store(u)
      BY <1>0, <1>8, <2>1 DEF Owed
    <2>2. CASE StoreFails(u)
      <3>1. tokens'[v] \in Nat
        BY <2>2, NextTypeOK DEF TypeOK
      <3>2. QED
        BY <1>0, <1>9, <2>2, <3>1 DEF Owed
    <2>3. CASE SendSucceeds(u)
      BY <1>0, <1>10, <2>3 DEF Owed
    <2>4. CASE SendFails(u)
      BY <1>0, <1>11, <2>4 DEF Owed
    <2>5. QED
      BY <1>14, <2>1, <2>2, <2>3, <2>4
  <1>15. QED
    BY <1>1, <1>2, <1>3, <1>4, <1>5, <1>6, <1>12, <1>13, <1>14, NextCases

(* No user is mailed more often than fetched, but for sends that went out  *)
(* and reported an error.                                                  *)
THEOREM MailsArePaid == Spec => []MailsPaid
  <1>1. TypeOK /\ PaidInv => MailsPaid
    BY DEF TypeOK, PaidInv, MailsPaid, Owed
  <1>2. QED
    BY <1>1, InitTypeOK, NextTypeOK, InitMails, NextMails, PTL DEF Spec

(* Whoever was mailed has a stored token, also after a kill or a failure.  *)
THEOREM MailedUsersHaveTokens == Spec => []MailedHaveTokens
  <1>1. TokenInv => MailedHaveTokens
    BY DEF TokenInv, MailedHaveTokens
  <1>2. QED
    BY <1>1, InitTypeOK, NextTypeOK, InitMails, NextMails, PTL DEF Spec

-------------------------------------------------------------------------------
(* The channel and the counters.                                           *)

MailStages == {"job", "sending", "settled", "counted", "left"}
Uncounted == {u \in batch : stage[u] \in {"job", "sending", "settled"}}

(* The tokens come before the mails, and the channel holds the results of  *)
(* the jobs that left the pool.                                            *)
JobsInv ==
  /\ phase = "tokens" => \A u \in batch : stage[u] \in {"fetched", "job"}
  /\ phase = "mail" => \A u \in batch : stage[u] \in MailStages
  /\ Mailing => \A u \in Users \ batch : stage[u] = "none"
  /\ results = IF phase = "mail" THEN {u \in batch : stage[u] = "left"} ELSE {}

(* What was taken was counted, but for the jobs of the batch that are not. *)
CountInv ==
  /\ phase \in {"fetch", "tokens", "failed"} => sent + failed = total
  /\ phase = "mail" => sent + failed + Cardinality(Uncounted) = total
  /\ phase = "clean" => failed = 0 /\ sent = total

(* What a step within a batch does to it.                                  *)
LEMMA StoreStep ==
  ASSUME TypeOK, JobsInv, NEW u \in Users, Store(u)
  PROVE /\ phase = "tokens" /\ batch' = batch /\ results' = results
        /\ results = {}
        /\ sent' = sent /\ failed' = failed /\ flags' = flags
        /\ \/ /\ phase' = "tokens" /\ total' = total
              /\ \A v \in batch : stage'[v] \in {"fetched", "job"}
           \/ /\ phase' = "mail" /\ total' = total + Cardinality(batch)
              /\ \A v \in batch : stage'[v] = "job"
        /\ \A v \in Users \ batch : stage'[v] = "none"
  BY DEF TypeOK, JobsInv, Mailing, Store, First, process

LEMMA JobsStep ==
  ASSUME TypeOK, JobsInv, NEW u \in Users,
         \/ Dispatch(u) \/ SendSucceeds(u) \/ SendFails(u)
         \/ Count(u) \/ Report(u)
  PROVE /\ phase = "mail" /\ phase' = "mail" /\ batch' = batch
        /\ flags' = flags /\ total' = total
        /\ u \in batch
        /\ \A v \in Users \ {u} : stage'[v] = stage[v]
        /\ stage'[u] \in MailStages
        /\ stage'[u] = "left" <=> Report(u)
  <1>1. stage \in [Users -> Stages]
    BY DEF TypeOK
  <1>2. stage[u] # "none" /\ phase = "mail" => u \in batch
    BY DEF JobsInv, Mailing
  <1>3. CASE Dispatch(u)
    BY <1>1, <1>3 DEF Dispatch, First, MailStages, process, metrics, Report
  <1>4. CASE SendSucceeds(u)
    BY <1>1, <1>2, <1>4 DEF SendSucceeds, MailStages, process, metrics, Report
  <1>5. CASE SendFails(u)
    BY <1>1, <1>2, <1>5 DEF SendFails, MailStages, process, metrics, Report
  <1>6. CASE Count(u)
    BY <1>1, <1>2, <1>6 DEF Count, MailStages, process, metrics, Report
  <1>7. CASE Report(u)
    BY <1>1, <1>2, <1>7 DEF Report, MailStages, process, metrics
  <1>8. QED
    BY <1>3, <1>4, <1>5, <1>6, <1>7

LEMMA InitJobs == Init => JobsInv /\ CountInv
  BY DEF Init, JobsInv, Mailing, CountInv

LEMMA NextJobs == TypeOK /\ JobsInv /\ [Next]_vars => JobsInv'
  <1> SUFFICES ASSUME TypeOK, JobsInv, [Next]_vars PROVE JobsInv'
    OBVIOUS
  <1>1. CASE Start \/ Kill \/ End \/ FetchFails \/ Collect
    BY <1>1 DEF JobsInv, Mailing, Start, Kill, End, FetchFails, Collect, Running
  <1>2. CASE Fetch
    BY <1>2, PageType DEF JobsInv, Mailing, Fetch
  <1>3. ASSUME NEW u \in Users, Appear(u) \/ Verify(u) PROVE JobsInv'
    BY <1>3 DEF JobsInv, Mailing, Appear, Verify
  <1>4. ASSUME NEW u \in Users, StoreFails(u) PROVE JobsInv'
    BY <1>4 DEF JobsInv, Mailing, StoreFails
  <1>5. ASSUME NEW u \in Users, Store(u) PROVE JobsInv'
    BY <1>5, StoreStep DEF JobsInv, Mailing, MailStages, TypeOK
  <1>6. ASSUME NEW u \in Users,
               \/ Dispatch(u) \/ SendSucceeds(u) \/ SendFails(u) \/ Count(u)
               \/ Report(u)
        PROVE JobsInv'
    <2>1. batch \subseteq Users /\ stage \in [Users -> Stages]
      BY DEF TypeOK
    <2>2. CASE Report(u)
      <3>1. results' = results \union {u} /\ u \in Users
        BY <2>2 DEF Report
      <3>2. stage[u] = "counted" /\ stage'[u] = "left"
        BY <2>1, <2>2 DEF Report
      <3>3. QED
        BY <2>1, <2>2, <3>1, <3>2, JobsStep DEF JobsInv, Mailing
    <2>3. CASE ~Report(u)
      <3>1. results' = results /\ stage[u] # "left"
        BY <1>6, <2>3 DEF Dispatch, First, SendSucceeds, SendFails, Count
      <3>2. stage'[u] # "left"
        BY <1>6, <2>3, JobsStep
      <3>3. QED
        BY <1>6, <2>1, <3>1, <3>2, JobsStep DEF JobsInv, Mailing
    <2>4. QED
      BY <2>2, <2>3
  <1>7. CASE UNCHANGED vars
    BY <1>7 DEF JobsInv, Mailing, vars
  <1>8. QED
    BY <1>1, <1>2, <1>3, <1>4, <1>5, <1>6, <1>7, NextCases

LEMMA NextCounts ==
  TypeOK /\ JobsInv /\ CountInv /\ [Next]_vars => CountInv'
  <1> SUFFICES ASSUME TypeOK, JobsInv, CountInv, [Next]_vars PROVE CountInv'
    OBVIOUS
  <1>0. /\ total \in Nat /\ sent \in Nat /\ failed \in Nat
        /\ batch \subseteq Users /\ stage \in [Users -> Stages]
        /\ IsFiniteSet(batch) /\ Cardinality(batch) \in Nat
        /\ IsFiniteSet(Uncounted) /\ Cardinality(Uncounted) \in Nat
    BY UsersFinite DEF TypeOK, Uncounted
  <1>1. CASE Start \/ Kill \/ FetchFails
    BY <1>1 DEF CountInv, Start, Kill, FetchFails, metrics
  <1>2. CASE Fetch
    BY <1>2 DEF CountInv, Fetch, metrics
  <1>3. CASE End
    BY <1>0, <1>3 DEF CountInv, End, metrics
  <1>4. CASE Collect
    <2>1. Uncounted = {}
      BY <1>4 DEF Collect, Uncounted
    <2>2. sent + failed = total
      BY <1>0, <1>4, <2>1, FS_EmptySet DEF CountInv, Collect
    <2>3. QED
      BY <1>4, <2>2 DEF CountInv, Collect, metrics
  <1>5. ASSUME NEW u \in Users, Appear(u) \/ Verify(u) PROVE CountInv'
    BY <1>5 DEF CountInv, Appear, Verify, Uncounted, metrics
  <1>6. ASSUME NEW u \in Users, StoreFails(u) PROVE CountInv'
    BY <1>6 DEF CountInv, StoreFails, metrics
  <1>7. ASSUME NEW u \in Users, Store(u) PROVE CountInv'
    <2>1. sent + failed = total
      BY <1>7, StoreStep DEF CountInv
    <2>2. CASE phase' = "tokens"
      BY <1>7, <2>1, <2>2, StoreStep DEF CountInv
    <2>3. CASE phase' = "mail"
      <3>1. Uncounted' = batch
        BY <1>7, <2>3, StoreStep DEF Uncounted
      <3>2. QED
        BY <1>0, <1>7, <2>1, <2>3, <3>1, StoreStep DEF CountInv
    <2>4. QED
      BY <1>7, <2>2, <2>3, StoreStep
  <1>8. ASSUME NEW u \in Users, Dispatch(u) \/ SendSucceeds(u) \/ SendFails(u)
        PROVE CountInv'
    <2>1. /\ stage[u] \in {"job", "sending"}
          /\ stage'[u] \in {"sending", "settled"}
          /\ sent' = sent /\ failed' = failed
      BY <1>0, <1>8 DEF Dispatch, First, SendSucceeds, SendFails, metrics
    <2>2. Uncounted' = Uncounted
      BY <1>0, <1>8, <2>1, JobsStep DEF Uncounted
    <2>3. QED
      BY <1>8, <2>1, <2>2, JobsStep DEF CountInv
  <1>9. ASSUME NEW u \in Users, Count(u) PROVE CountInv'
    <2>1. stage[u] = "settled" /\ stage'[u] = "counted"
      BY <1>0, <1>9 DEF Count
    <2>2. sent' + failed' = sent + failed + 1
      BY <1>0, <1>9 DEF Count
    <2>3. u \in Uncounted /\ Uncounted' = Uncounted \ {u}
      BY <1>0, <1>9, <2>1, JobsStep DEF Uncounted
    <2>4. Cardinality(Uncounted \ {u}) = Cardinality(Uncounted) - 1
      BY <1>0, <2>3, FS_RemoveElement
    <2>5. sent' \in Nat /\ failed' \in Nat
      BY <1>0, <1>9 DEF Count
    <2>6. /\ phase = "mail" /\ phase' = "mail" /\ total' = total
          /\ Cardinality(Uncounted') = Cardinality(Uncounted) - 1
      BY <1>9, <2>3, <2>4, JobsStep
    <2>7. sent + failed + Cardinality(Uncounted) = total
      BY <2>6 DEF CountInv
    <2>8. sent' + failed' + Cardinality(Uncounted') = total'
      <3>1. sent' + failed' = sent + failed + 1
        BY <2>2
      <3>2. Cardinality(Uncounted') = Cardinality(Uncounted) - 1
        BY <2>6
      <3>3. total' = sent + failed + Cardinality(Uncounted)
        BY <2>6, <2>7
      <3>4. sent + failed + 1 + (Cardinality(Uncounted) - 1) = total'
        BY <1>0, <3>3
      <3>5. QED
        BY <3>1, <3>2, <3>4
    <2>9. QED
      BY <2>6, <2>8 DEF CountInv
  <1>10. ASSUME NEW u \in Users, Report(u) PROVE CountInv'
    <2>1. /\ stage[u] = "counted" /\ stage'[u] = "left"
          /\ sent' = sent /\ failed' = failed
      BY <1>0, <1>10 DEF Report, metrics
    <2>2. Uncounted' = Uncounted
      BY <1>0, <1>10, <2>1, JobsStep DEF Uncounted
    <2>3. QED
      BY <1>10, <2>1, <2>2, JobsStep DEF CountInv
  <1>11. CASE UNCHANGED vars
    BY <1>11 DEF CountInv, Uncounted, vars, metrics
  <1>12. QED
    BY <1>1, <1>2, <1>3, <1>4, <1>5, <1>6, <1>7, <1>8, <1>9, <1>10, <1>11,
       NextCases

(* Each job that was settled by a successful send, and is not yet counted, *)
(* has its mail among the delivered ones already.                          *)
Won == {u \in batch : stage[u] = "settled" /\ ~Exhausted(u)}

(* The jobs still to be sent have attempts left, so that one settled in a  *)
(* failing send is the only one that is exhausted.                         *)
TriesInv == Mailing => \A u \in Users :
                          /\ stage[u] \in {"fetched", "job"} => attempts[u] = 0
                          /\ stage[u] = "sending" => ~Exhausted(u)

MailsInv == \A u \in Users : lies[u] <= mails[u] /\ before[u] <= Honest(u)

DeliveredInv ==
  /\ IsFiniteSet(Delivered)
  /\ phase \in {"fetch", "tokens", "failed", "clean"} =>
       sent = Cardinality(Delivered)
  /\ phase = "mail" => sent + Cardinality(Won) = Cardinality(Delivered)

SentInv == TriesInv /\ MailsInv /\ DeliveredInv

LEMMA NextTries == TypeOK /\ JobsInv /\ TriesInv /\ [Next]_vars => TriesInv'
  <1> SUFFICES ASSUME TypeOK, JobsInv, TriesInv, [Next]_vars PROVE TriesInv'
    OBVIOUS
  <1>0. /\ stage \in [Users -> Stages] /\ attempts \in [Users -> Nat]
        /\ flags.retries \in Nat
    BY EmailCronAssumption DEF TypeOK
  <1>1. CASE Start \/ Kill \/ End \/ FetchFails \/ Collect
    BY <1>1 DEF TriesInv, Mailing, Start, Kill, End, FetchFails, Collect
  <1>2. CASE Fetch
    BY <1>2 DEF TriesInv, Fetch, Zero
  <1>3. ASSUME NEW u \in Users, Appear(u) \/ Verify(u) PROVE TriesInv'
    BY <1>3 DEF TriesInv, Mailing, Exhausted, Appear, Verify, process
  <1>4. ASSUME NEW u \in Users, StoreFails(u) PROVE TriesInv'
    BY <1>4 DEF TriesInv, Mailing, StoreFails
  <1>5. ASSUME NEW u \in Users, Store(u) PROVE TriesInv'
    BY <1>0, <1>5 DEF TriesInv, Mailing, Exhausted, Store, First, process
  <1>6. ASSUME NEW u \in Users, Dispatch(u) PROVE TriesInv'
    BY <1>0, <1>6 DEF TriesInv, Mailing, Exhausted, Dispatch, First, process
  <1>7. ASSUME NEW u \in Users, SendSucceeds(u) \/ Count(u) \/ Report(u)
        PROVE TriesInv'
    BY <1>0, <1>7 DEF TriesInv, Mailing, Exhausted, SendSucceeds, Count,
                      Report, process
  <1>8. ASSUME NEW u \in Users, SendFails(u) PROVE TriesInv'
    <2>1. /\ attempts[u] <= flags.retries
          /\ attempts'[u] = attempts[u] + 1 /\ flags' = flags
          /\ stage'[u] = IF attempts[u] = flags.retries
                         THEN "settled" ELSE "sending"
          /\ phase = "mail" /\ phase' = "mail"
          /\ \A v \in Users \ {u} : /\ stage'[v] = stage[v]
                                    /\ attempts'[v] = attempts[v]
      BY <1>0, <1>8 DEF SendFails, TriesInv, Mailing, Exhausted, process
    <2>2. \A v \in Users \ {u} :
             /\ stage'[v] \in {"fetched", "job"} => attempts'[v] = 0
             /\ stage'[v] = "sending" => ~Exhausted(v)'
      BY <2>1 DEF TriesInv, Mailing, Exhausted
    <2>3. stage'[u] = "sending" => ~Exhausted(u)'
      BY <1>0, <2>1 DEF Exhausted
    <2>4. QED
      BY <2>1, <2>2, <2>3 DEF TriesInv
  <1>9. CASE UNCHANGED vars
    BY <1>9 DEF TriesInv, Mailing, Exhausted, vars, process
  <1>10. QED
    BY <1>1, <1>2, <1>3, <1>4, <1>5, <1>6, <1>7, <1>8, <1>9, NextCases

(* Only a start and a successful send change which mails are delivered.    *)
LEMMA OtherMailSteps ==
  ASSUME TypeOK, MailsInv, [Next]_vars, ~Start,
         \A u \in Users : ~SendSucceeds(u)
  PROVE MailsInv' /\ Delivered' = Delivered
  <1>0. mails \in [Users -> Nat] /\ lies \in [Users -> Nat]
        /\ before \in [Users -> Int]
    BY DEF TypeOK
  <1>1. ASSUME NEW u \in Users, SendFails(u)
        PROVE /\ before' = before
              /\ \A v \in Users : /\ Honest(v)' = Honest(v)
                                  /\ lies'[v] <= mails'[v]
    <2>1. before' = before
      BY <1>1 DEF SendFails, fetched
    <2>2. ASSUME NEW v \in Users
          PROVE \/ mails'[v] = mails[v] /\ lies'[v] = lies[v]
                \/ mails'[v] = mails[v] + 1 /\ lies'[v] = lies[v] + 1
      BY <1>0, <1>1 DEF SendFails
    <2>3. QED
      BY <1>0, <2>1, <2>2 DEF Honest, MailsInv
  <1>2. ASSUME UNCHANGED <<mails, lies, before>>
        PROVE /\ before' = before
              /\ \A v \in Users : /\ Honest(v)' = Honest(v)
                                  /\ lies'[v] <= mails'[v]
    BY <1>2 DEF Honest, MailsInv
  <1>3. /\ before' = before
        /\ \A v \in Users : Honest(v)' = Honest(v) /\ lies'[v] <= mails'[v]
    <2>1. CASE Kill \/ Fetch \/ End \/ FetchFails \/ Collect
      BY <1>2, <2>1 DEF Kill, Fetch, End, FetchFails, Collect, fetched
    <2>2. ASSUME NEW u \in Users,
                 \/ Appear(u) \/ Verify(u) \/ Store(u) \/ StoreFails(u)
                 \/ Dispatch(u) \/ Count(u) \/ Report(u)
          PROVE UNCHANGED <<mails, lies, before>>
      BY <2>2 DEF Appear, Verify, Store, StoreFails, Dispatch, Count, Report,
                  fetched
    <2>3. CASE UNCHANGED vars
      BY <1>2, <2>3 DEF vars
    <2>4. QED
      BY <1>1, <1>2, <2>1, <2>2, <2>3, NextCases
  <1>4. MailsInv'
    BY <1>3 DEF MailsInv
  <1>5. \A v \in Users : before'[v] + 1 .. Honest(v)' = before[v] + 1 .. Honest(v)
    BY <1>3
  <1>6. Delivered' = Delivered
    BY <1>5 DEF Delivered
  <1>7. QED
    BY <1>4, <1>6

(* A start counts from what was delivered before.                          *)
LEMMA StartDelivers ==
  ASSUME TypeOK, MailsInv, Start
  PROVE MailsInv' /\ Delivered' = {}
  <1>1. \A u \in Users : /\ before'[u] = Honest(u) /\ Honest(u)' = Honest(u)
                         /\ lies'[u] <= mails'[u] /\ Honest(u) \in Int
    BY DEF TypeOK, MailsInv, Start, Honest
  <1>2. \A u \in Users : before'[u] + 1 .. Honest(u)' = {}
    BY <1>1
  <1>3. Delivered' = {}
    BY <1>2 DEF Delivered
  <1>4. MailsInv'
    BY <1>1 DEF MailsInv
  <1>5. QED
    BY <1>3, <1>4

(* A successful send delivers one mail more.                               *)
LEMMA SendDelivers ==
  ASSUME TypeOK, MailsInv, NEW u \in Users, SendSucceeds(u)
  PROVE /\ MailsInv'
        /\ <<u, Honest(u) + 1>> \notin Delivered
        /\ Delivered' = Delivered \union {<<u, Honest(u) + 1>>}
  <1>1. /\ before' = before
        /\ \A v \in Users :
              /\ mails[v] \in Nat /\ lies[v] \in Nat /\ before[v] \in Int
              /\ lies[v] <= mails[v] /\ before[v] <= Honest(v)
              /\ lies'[v] = lies[v]
              /\ mails'[v] = IF v = u THEN mails[v] + 1 ELSE mails[v]
    BY DEF TypeOK, MailsInv, SendSucceeds, fetched
  <1>2. /\ Honest(u)' = Honest(u) + 1 /\ Honest(u) \in Nat
        /\ \A v \in Users \ {u} : Honest(v)' = Honest(v)
    BY <1>1 DEF Honest
  <1>3. MailsInv'
    BY <1>1, <1>2 DEF MailsInv, Honest
  <1>4. <<u, Honest(u) + 1>> \notin Delivered
    BY <1>2 DEF Delivered
  <1>5. ASSUME NEW v \in Users
        PROVE before'[v] + 1 .. Honest(v)' =
                (before[v] + 1 .. Honest(v))
                  \union IF v = u THEN {Honest(u) + 1} ELSE {}
    <2>1. CASE v = u
      BY <1>1, <1>2, <2>1
    <2>2. CASE v # u
      BY <1>1, <1>2, <2>2
    <2>3. QED
      BY <2>1, <2>2
  <1>6. Delivered' = Delivered \union {<<u, Honest(u) + 1>>}
    BY <1>5 DEF Delivered
  <1>7. QED
    BY <1>3, <1>4, <1>6

LEMMA InitSent == Init => SentInv
  <1> SUFFICES ASSUME Init PROVE SentInv
    OBVIOUS
  <1>1. TriesInv
    BY DEF Init, TriesInv, Mailing
  <1>2. \A u \in Users : before[u] = 0 /\ Honest(u) = 0 /\ lies[u] <= mails[u]
    BY DEF Init, Zero, Honest
  <1>3. \A u \in Users : before[u] + 1 .. Honest(u) = {}
    BY <1>2
  <1>4. Delivered = {}
    BY <1>3 DEF Delivered
  <1>5. DeliveredInv
    BY <1>4, FS_EmptySet DEF Init, DeliveredInv
  <1>6. QED
    BY <1>1, <1>2, <1>5 DEF SentInv, MailsInv

LEMMA WonFinite ==
  ASSUME TypeOK PROVE IsFiniteSet(Won) /\ Cardinality(Won) \in Nat
  BY UsersFinite DEF TypeOK, Won

(* Steps that neither start a run nor settle or count a job.               *)
LEMMA OtherSentSteps ==
  ASSUME TypeOK, JobsInv, SentInv, [Next]_vars, ~Start,
         \A u \in Users : ~SendSucceeds(u) /\ ~Count(u)
  PROVE DeliveredInv'
  <1>0. Delivered' = Delivered
    BY OtherMailSteps DEF SentInv
  <1>1. ASSUME phase' = phase, sent' = sent, phase = "mail" => Won' = Won
        PROVE DeliveredInv'
    BY <1>0, <1>1 DEF SentInv, DeliveredInv
  <1>2. ASSUME phase \in {"fetch", "tokens"}, sent' = sent,
               phase' \in {"fetch", "tokens", "failed", "clean"}
        PROVE DeliveredInv'
    BY <1>0, <1>2 DEF SentInv, DeliveredInv
  <1>3. CASE Fetch \/ End \/ FetchFails
    BY <1>2, <1>3 DEF Fetch, End, FetchFails, metrics
  <1>4. CASE Kill
    BY <1>0, <1>4 DEF Kill, SentInv, DeliveredInv
  <1>5. CASE Collect
    <2>1. Won = {}
      BY <1>5 DEF Collect, Won
    <2>2. sent \in Nat
      BY DEF TypeOK
    <2>3. sent = Cardinality(Delivered)
      BY <1>5, <2>1, <2>2, FS_EmptySet DEF Collect, SentInv, DeliveredInv
    <2>4. QED
      BY <1>0, <1>5, <2>3 DEF Collect, metrics, SentInv, DeliveredInv
  <1>6. ASSUME NEW u \in Users, Appear(u) \/ Verify(u) PROVE DeliveredInv'
    BY <1>1, <1>6 DEF Appear, Verify, Won, Exhausted, metrics, process
  <1>7. ASSUME NEW u \in Users, StoreFails(u) PROVE DeliveredInv'
    BY <1>2, <1>7 DEF StoreFails, metrics
  <1>8. ASSUME NEW u \in Users, Store(u) PROVE DeliveredInv'
    <2>1. CASE phase' = "tokens"
      BY <1>2, <1>8, <2>1, StoreStep
    <2>2. CASE phase' = "mail"
      <3>1. Won' = {}
        BY <1>8, <2>2, StoreStep DEF Won
      <3>2. sent' = Cardinality(Delivered) /\ sent \in Nat
        BY <1>8, StoreStep DEF SentInv, DeliveredInv, TypeOK
      <3>3. QED
        BY <1>0, <1>8, <2>2, <3>1, <3>2, StoreStep, FS_EmptySet
           DEF SentInv, DeliveredInv
    <2>3. QED
      BY <1>8, <2>1, <2>2, StoreStep
  <1>9. ASSUME NEW u \in Users, Dispatch(u) \/ Report(u) PROVE DeliveredInv'
    <2>1. stage[u] # "settled" /\ stage'[u] # "settled" /\ attempts' = attempts
          /\ sent' = sent
      BY <1>9 DEF Dispatch, First, Report, metrics, TypeOK
    <2>2. Won' = Won
      BY <1>9, <2>1, JobsStep DEF Won, Exhausted, TypeOK
    <2>3. QED
      BY <1>1, <1>9, <2>1, <2>2, JobsStep
  <1>10. ASSUME NEW u \in Users, SendFails(u) PROVE DeliveredInv'
    <2>1. /\ stage[u] = "sending" /\ sent' = sent
          /\ attempts'[u] = attempts[u] + 1
          /\ stage'[u] = IF attempts[u] = flags.retries
                         THEN "settled" ELSE "sending"
          /\ \A v \in Users \ {u} : attempts'[v] = attempts[v]
          /\ flags.retries \in Nat /\ flags' = flags
      BY <1>10, EmailCronAssumption DEF SendFails, metrics, process, TypeOK
    <2>2. stage'[u] = "settled" => Exhausted(u)'
      BY <2>1 DEF Exhausted
    <2>3. Won' = Won
      BY <1>10, <2>1, <2>2, JobsStep DEF Won, Exhausted, TypeOK
    <2>4. QED
      BY <1>1, <1>10, <2>1, <2>3, JobsStep
  <1>11. CASE UNCHANGED vars
    BY <1>1, <1>11 DEF vars, Won, Exhausted, metrics, process
  <1>12. QED
    BY <1>3, <1>4, <1>5, <1>6, <1>7, <1>8, <1>9, <1>10, <1>11, NextCases

LEMMA NextSent == TypeOK /\ JobsInv /\ SentInv /\ [Next]_vars => SentInv'
  <1> SUFFICES ASSUME TypeOK, JobsInv, SentInv, [Next]_vars PROVE SentInv'
    OBVIOUS
  <1>0. TriesInv'
    BY NextTries DEF SentInv
  <1>1. CASE Start
    <2>1. phase' = "fetch" /\ sent' = 0
      BY <1>1 DEF Start
    <2>2. QED
      BY <1>0, <1>1, <2>1, StartDelivers, FS_EmptySet DEF SentInv, DeliveredInv
  <1>2. ASSUME NEW u \in Users, SendSucceeds(u) PROVE SentInv'
    <2>1. /\ stage[u] = "sending" /\ stage'[u] = "settled" /\ sent' = sent
          /\ attempts' = attempts
      BY <1>2 DEF SendSucceeds, metrics, TypeOK
    <2>2. ~Exhausted(u) /\ u \notin Won
      BY <1>2, <2>1 DEF SentInv, TriesInv, Mailing, SendSucceeds, Won
    <2>3. Won' = Won \union {u}
      BY <1>2, <2>1, <2>2, JobsStep DEF Won, Exhausted, TypeOK
    <2>4. Cardinality(Won') = Cardinality(Won) + 1
      BY <2>2, <2>3, WonFinite, FS_AddElement
    <2>5. /\ IsFiniteSet(Delivered')
          /\ Cardinality(Delivered') = Cardinality(Delivered) + 1
      <3>1. IsFiniteSet(Delivered)
        BY DEF SentInv, DeliveredInv
      <3>2. /\ <<u, Honest(u) + 1>> \notin Delivered
            /\ Delivered' = Delivered \union {<<u, Honest(u) + 1>>}
        BY <1>2, SendDelivers DEF SentInv
      <3>3. QED
        BY <3>1, <3>2, FS_AddElement
    <2>6. DeliveredInv'
      <3>1. sent + Cardinality(Won) = Cardinality(Delivered) /\ phase' = "mail"
        BY <1>2, JobsStep DEF SentInv, DeliveredInv
      <3>2. sent \in Nat /\ Cardinality(Won) \in Nat
        BY WonFinite DEF TypeOK
      <3>3. sent' + Cardinality(Won') = Cardinality(Delivered')
        BY <2>1, <2>4, <2>5, <3>1, <3>2
      <3>4. QED
        BY <2>5, <3>1, <3>3 DEF DeliveredInv
    <2>7. QED
      BY <1>0, <1>2, <2>6, SendDelivers DEF SentInv
  <1>3. ASSUME NEW u \in Users, Count(u) PROVE SentInv'
    <2>1. Delivered' = Delivered /\ MailsInv'
      <3>1. mails' = mails /\ lies' = lies /\ before' = before
        BY <1>3 DEF Count, fetched
      <3>2. QED
        BY <3>1 DEF Delivered, Honest, SentInv, MailsInv
    <2>2. stage[u] = "settled" /\ stage'[u] = "counted" /\ attempts' = attempts
      BY <1>3 DEF Count, TypeOK
    <2>3. Won' = Won \ {u}
      BY <1>3, <2>2, JobsStep DEF Won, Exhausted, TypeOK
    <2>4. CASE Exhausted(u)
      <3>1. Won' = Won /\ sent' = sent
        BY <1>3, <2>3, <2>4 DEF Won, Count
      <3>2. DeliveredInv'
        BY <1>3, <2>1, <3>1, JobsStep DEF SentInv, DeliveredInv
      <3>3. QED
        BY <1>0, <2>1, <3>2 DEF SentInv
    <2>5. CASE ~Exhausted(u)
      <3>1. u \in Won /\ sent' = sent + 1
        BY <1>3, <2>2, <2>5, JobsStep DEF Won, Count
      <3>2. Cardinality(Won') = Cardinality(Won) - 1
        BY <2>3, <3>1, WonFinite, FS_RemoveElement
      <3>3. sent + Cardinality(Won) = Cardinality(Delivered) /\ phase' = "mail"
        BY <1>3, JobsStep DEF SentInv, DeliveredInv
      <3>4. sent \in Nat /\ Cardinality(Won) \in Nat
        BY WonFinite DEF TypeOK
      <3>5. sent' + Cardinality(Won') = Cardinality(Delivered)
        BY <3>1, <3>2, <3>3, <3>4
      <3>6. DeliveredInv'
        BY <2>1, <3>3, <3>5 DEF SentInv, DeliveredInv
      <3>7. QED
        BY <1>0, <2>1, <3>6 DEF SentInv
    <2>6. QED
      BY <2>4, <2>5
  <1>4. CASE ~Start /\ \A u \in Users : ~SendSucceeds(u) /\ ~Count(u)
    BY <1>0, <1>4, OtherMailSteps, OtherSentSteps DEF SentInv
  <1>5. QED
    BY <1>1, <1>2, <1>3, <1>4

(* Between batches and at the end, sent and failed are what was taken, and *)
(* sent is the number of mails of the run whose send reported success.     *)
THEOREM CountersAlwaysAgree == Spec => []CountersAgree
  <1>1. TypeOK /\ CountInv /\ SentInv => CountersAgree
    BY DEF TypeOK, CountInv, SentInv, DeliveredInv, CountersAgree
  <1>2. QED
    BY <1>1, InitTypeOK, NextTypeOK, InitJobs, NextJobs, NextCounts, InitSent,
       NextSent, PTL DEF Spec

(* A worker that counted its job finds room in the channel.                *)
THEOREM ResultsAlwaysFit == Spec => []ResultsFit
  <1>1. ASSUME TypeOK, JobsInv PROVE ResultsFit
    <2>1. batch \subseteq Users /\ IsFiniteSet(batch) /\ results \subseteq batch
      BY <1>1, UsersFinite DEF TypeOK, JobsInv
    <2>2. Cardinality(results) <= Cardinality(batch)
      BY <2>1, FS_Subset
    <2>3. ASSUME NEW u \in batch, phase = "mail", stage[u] = "counted"
          PROVE Cardinality(results) < Cardinality(batch)
      <3>1. results \subseteq batch \ {u}
        BY <1>1, <2>3 DEF JobsInv
      <3>2. /\ IsFiniteSet(batch \ {u})
            /\ Cardinality(batch \ {u}) = Cardinality(batch) - 1
        BY <2>1, FS_RemoveElement
      <3>3. Cardinality(results) <= Cardinality(batch \ {u})
        BY <3>1, <3>2, FS_Subset
      <3>4. Cardinality(results) \in Nat /\ Cardinality(batch) \in Nat
        BY <2>1, UsersFinite, <1>1 DEF TypeOK
      <3>5. QED
        BY <3>2, <3>3, <3>4
    <2>4. QED
      BY <2>2, <2>3 DEF ResultsFit, Capacity
  <1>2. QED
    BY <1>1, InitTypeOK, NextTypeOK, InitJobs, NextJobs, PTL DEF Spec

-------------------------------------------------------------------------------
(* A run is a MailRun.                                                     *)

BatchInv == Mailing => batch # {}

LEMMA InitBatch == Init => BatchInv
  BY DEF Init, BatchInv, Mailing

LEMMA NextBatch == BatchInv /\ [Next]_vars => BatchInv'
  <1> SUFFICES ASSUME BatchInv, [Next]_vars PROVE BatchInv'
    OBVIOUS
  <1>1. CASE Start \/ Kill \/ Fetch \/ End \/ FetchFails \/ Collect
    BY <1>1 DEF BatchInv, Mailing, Start, Kill, Fetch, End, FetchFails, Collect
  <1>2. ASSUME NEW u \in Users,
               \/ Appear(u) \/ Verify(u) \/ Store(u) \/ StoreFails(u)
               \/ Dispatch(u) \/ SendSucceeds(u) \/ SendFails(u) \/ Count(u)
               \/ Report(u)
        PROVE BatchInv'
    BY <1>2 DEF BatchInv, Mailing, Appear, Verify, Store, StoreFails, Dispatch,
                SendSucceeds, SendFails, Count, Report
  <1>3. CASE UNCHANGED vars
    BY <1>3 DEF BatchInv, Mailing, vars
  <1>4. QED
    BY <1>1, <1>2, <1>3, NextCases

(* What the mapping makes of a state.                                      *)
RunBar == IF Running THEN "open" ELSE phase
JobsBar == IF phase = "mail" THEN batch ELSE {}
OutcomeBar == [u \in Users |-> Outcome(u)]

LEMMA NoOutcome ==
  ASSUME phase # "mail" PROVE JobsBar = {} /\ OutcomeBar = MR!Nothing
  BY DEF JobsBar, OutcomeBar, Outcome, MR!Nothing

LEMMA NoOutcomePrimed ==
  ASSUME phase' # "mail" PROVE JobsBar' = {} /\ OutcomeBar' = MR!Nothing
  BY DEF JobsBar, OutcomeBar, Outcome, MR!Nothing

LEMMA InitRun == Init => MR!Init
  BY DEF Init, MR!Init, MR!Nothing, Running, Outcome

LEMMA NextRun ==
  TypeOK /\ JobsInv /\ BatchInv /\ [Next]_vars => [MR!Next]_(MR!vars)
  <1> SUFFICES ASSUME TypeOK, JobsInv, BatchInv, [Next]_vars
               PROVE MR!Next \/ UNCHANGED MR!vars
    OBVIOUS
  <1> USE DEF RunBar, JobsBar, OutcomeBar
  <1>0. batch \subseteq Users /\ stage \in [Users -> Stages]
        /\ attempts \in [Users -> Nat] /\ sent \in Nat /\ failed \in Nat
    BY DEF TypeOK
  <1>a. ASSUME JobsBar' = JobsBar, OutcomeBar' = OutcomeBar, RunBar' = RunBar,
               sent' = sent, failed' = failed
        PROVE UNCHANGED MR!vars
    BY <1>a DEF MR!vars
  <1>1. CASE Start
    <2>1. MR!Open
      BY <1>1, NoOutcomePrimed DEF Start, Running, MR!Open, TypeOK, Phases
    <2>2. QED
      BY <2>1 DEF MR!Next
  <1>2. CASE Kill
    <2>1. MR!Kill
      BY <1>2, NoOutcomePrimed DEF Kill, Running, metrics, MR!Kill
    <2>2. QED
      BY <2>1 DEF MR!Next
  <1>3. CASE Fetch
    BY <1>3, <1>a, NoOutcome, NoOutcomePrimed DEF Fetch, Running, metrics
  <1>4. CASE End
    <2>1. MR!Close
      BY <1>4, NoOutcome, NoOutcomePrimed DEF End, Running, metrics, MR!Close
    <2>2. QED
      BY <2>1 DEF MR!Next
  <1>5. CASE FetchFails
    <2>1. MR!Abort
      BY <1>5, NoOutcome, NoOutcomePrimed
         DEF FetchFails, Running, metrics, MR!Abort
    <2>2. QED
      BY <2>1 DEF MR!Next
  <1>6. CASE Collect
    <2>1. JobsBar = batch /\ batch # {}
      BY <1>6 DEF Collect, BatchInv, Mailing
    <2>2. \A u \in batch : OutcomeBar[u] # "none"
      BY <1>0, <1>6 DEF Collect, Outcome
    <2>3. MR!Clear
      BY <1>6, <2>1, <2>2, NoOutcomePrimed
         DEF Collect, Running, metrics, MR!Clear
    <2>4. QED
      BY <2>3 DEF MR!Next
  <1>7. ASSUME NEW u \in Users, Appear(u) \/ Verify(u)
        PROVE UNCHANGED MR!vars
    BY <1>7, <1>a DEF Appear, Verify, metrics, process, Running, Outcome
  <1>8. ASSUME NEW u \in Users, StoreFails(u) PROVE MR!Next
    <2>1. MR!Abort
      BY <1>8, NoOutcome, NoOutcomePrimed
         DEF StoreFails, Running, metrics, MR!Abort
    <2>2. QED
      BY <2>1 DEF MR!Next
  <1>9. ASSUME NEW u \in Users, Store(u) PROVE MR!Next \/ UNCHANGED MR!vars
    <2>1. CASE phase' = "tokens"
      BY <1>9, <1>a, <2>1, StoreStep, NoOutcome, NoOutcomePrimed DEF Running
    <2>2. CASE phase' = "mail"
      <3>1. JobsBar = {} /\ JobsBar' = batch /\ OutcomeBar = MR!Nothing
        BY <1>9, <2>2, StoreStep, NoOutcome
      <3>2. OutcomeBar' = MR!Nothing
        BY <1>0, <1>9, <2>2, StoreStep DEF Outcome, MR!Nothing
      <3>3. RunBar = "open" /\ RunBar' = "open" /\ batch # {}
        BY <1>9, <2>2, StoreStep DEF Running, BatchInv, Mailing
      <3>4. MR!Take(batch)
        BY <1>9, <3>1, <3>2, <3>3, StoreStep DEF MR!Take
      <3>5. QED
        BY <1>0, <3>4 DEF MR!Next
    <2>3. QED
      BY <1>9, <2>1, <2>2, StoreStep
  <1>10. ASSUME NEW u \in Users,
                Dispatch(u) \/ SendSucceeds(u) \/ SendFails(u) \/ Report(u)
         PROVE UNCHANGED MR!vars
    <2>1. /\ stage[u] \in {"job", "sending"} /\ stage'[u] \in {"sending", "settled"}
          \/ /\ stage[u] = "counted" /\ stage'[u] = "left"
             /\ attempts'[u] = attempts[u] /\ flags' = flags
      BY <1>0, <1>10
         DEF Dispatch, First, SendSucceeds, SendFails, Report, process
    <2>2. /\ sent' = sent /\ failed' = failed
          /\ \A v \in Users \ {u} : attempts'[v] = attempts[v]
      BY <1>0, <1>10 DEF Dispatch, SendSucceeds, SendFails, Report, metrics
    <2>3. \A v \in Users : Outcome(v)' = Outcome(v)
      BY <1>10, <2>1, <2>2, JobsStep DEF Outcome
    <2>4. OutcomeBar' = OutcomeBar
      BY <2>3
    <2>5. JobsBar' = JobsBar /\ RunBar' = RunBar
      BY <1>10, JobsStep DEF Running
    <2>6. QED
      BY <1>a, <2>2, <2>4, <2>5
  <1>11. ASSUME NEW u \in Users, Count(u) PROVE MR!Next
    <2>1. stage[u] = "settled" /\ stage'[u] = "counted" /\ attempts' = attempts
      BY <1>0, <1>11 DEF Count
    <2>2. /\ JobsBar' = JobsBar /\ RunBar' = RunBar /\ u \in JobsBar
          /\ phase = "mail" /\ phase' = "mail" /\ batch' = batch
          /\ flags' = flags /\ u \in batch
      BY <1>11, JobsStep DEF Running
    <2>3. Outcome(u) = "none"
      BY <2>1 DEF Outcome
    <2>4. Outcome(u)' = IF Exhausted(u) THEN "failed" ELSE "sent"
      BY <2>1, <2>2 DEF Outcome, Exhausted
    <2>5. \A v \in Users \ {u} : Outcome(v)' = Outcome(v)
      BY <1>11, <2>1, <2>2, JobsStep DEF Outcome
    <2>6. OutcomeBar' = [OutcomeBar EXCEPT ![u] =
                           IF Exhausted(u) THEN "failed" ELSE "sent"]
      BY <2>4, <2>5
    <2>7. MR!Settle(u)
      <3>1. OutcomeBar[u] = "none"
        BY <2>3
      <3>2. \/ Exhausted(u) /\ failed' = failed + 1 /\ sent' = sent
            \/ ~Exhausted(u) /\ sent' = sent + 1 /\ failed' = failed
        BY <1>11 DEF Count
      <3>3. QED
        BY <2>2, <2>6, <3>1, <3>2 DEF MR!Settle
    <2>8. QED
      BY <2>7 DEF MR!Next
  <1>12. CASE UNCHANGED vars
    BY <1>12, <1>a DEF vars, metrics, process, Running, Outcome
  <1>13. QED
    BY <1>1, <1>2, <1>3, <1>4, <1>5, <1>6, <1>7, <1>8, <1>9, <1>10, <1>11,
       <1>12, NextCases

(* The command implements MailRun: every step of it is one of MailRun's or *)
(* changes nothing that MailRun sees.                                      *)
THEOREM CronImplementsMailRun == Spec => ImplementsMailRun
  BY InitTypeOK, NextTypeOK, InitJobs, NextJobs, InitBatch, NextBatch,
     InitRun, NextRun, PTL DEF Spec, ImplementsMailRun, MR!Spec
===============================================================================
