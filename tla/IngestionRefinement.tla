-------------------------- MODULE IngestionRefinement --------------------------
(***************************************************************************)
(* Proof that Ingestion implements AuditTrail: handlers, stream, consumers *)
(* and process restarts together do nothing that the audit trail's promise *)
(* does not allow.  A crash maps to one refusal of every call the process  *)
(* was serving, and a publish to an admission and its answer at once.      *)
(***************************************************************************)
EXTENDS IngestionProofs

(* The answers as the abstract specification sees them.                    *)
Told(r) == IF pc[r] = "accepted" THEN "accepted"
           ELSE IF pc[r] \in Answered THEN "refused" ELSE "none"

ToldAll == [r \in Requests |-> Told(r)]

TrailUnchanged == UNCHANGED <<Published, ToldAll, rows, poisoned>>

LEMMA SameStreamSamePublished == stream' = stream => Published' = Published
  BY DEF Published

(* A step that only refuses calls.                                         *)
LEMMA RefuseStep ==
  ASSUME NEW R \in SUBSET Requests,
         \A r \in R : pc[r] \notin Answered /\ pc'[r] \in Answered \ {"accepted"},
         \A r \in Requests \ R : Told(r)' = Told(r),
         UNCHANGED <<stream, rows, poisoned>>
  PROVE Trail!Refuse(R)
  <1>1. \A r \in R : ToldAll[r] = "none"
    BY DEF ToldAll, Told, Answered
  <1>2. ToldAll' = [r \in Requests |-> IF r \in R THEN "refused" ELSE ToldAll[r]]
    BY DEF ToldAll, Told, Answered
  <1>3. Published' = Published
    BY SameStreamSamePublished
  <1>4. QED
    BY <1>1, <1>2, <1>3 DEF Trail!Refuse, ToldAll, Told

LEMMA AdmitStep ==
  ASSUME NEW r \in Requests, r \notin Published,
         Published' = Published \union {r},
         pc[r] \notin Answered, pc'[r] \in {"accepted", "failed"},
         \A q \in Requests \ {r} : pc'[q] = pc[q],
         UNCHANGED <<rows, poisoned>>
  PROVE Trail!Admit(r)
  <1>1. ToldAll[r] = "none"
    BY DEF ToldAll, Told, Answered
  <1>2. \E a \in {"accepted", "refused"} : ToldAll' = [ToldAll EXCEPT ![r] = a]
    <2>1. CASE pc'[r] = "accepted"
      <3>1. ToldAll' = [ToldAll EXCEPT ![r] = "accepted"]
        BY <2>1 DEF ToldAll, Told
      <3>2. QED
        BY <3>1
    <2>2. CASE pc'[r] = "failed"
      <3>1. ToldAll' = [ToldAll EXCEPT ![r] = "refused"]
        BY <2>2 DEF ToldAll, Told, Answered
      <3>2. QED
        BY <3>1
    <2>3. QED
      BY <2>1, <2>2
  <1>3. QED
    BY <1>1, <1>2 DEF Trail!Admit, ToldAll, Told

(* Steps that leave the trail alone.                                       *)
LEMMA StutterStep ==
  ASSUME \A r \in Requests : Told(r)' = Told(r), UNCHANGED <<stream, rows, poisoned>>
  PROVE TrailUnchanged
  <1>1. ToldAll' = ToldAll
    BY DEF ToldAll
  <1>2. Published' = Published
    BY SameStreamSamePublished
  <1>3. QED
    BY <1>1, <1>2 DEF TrailUnchanged

(* A publish adds its record to the published ones, or nothing.            *)
LEMMA PublishAdmits ==
  ASSUME Safe, [Next]_vars, NEW i \in Instances, NEW r \in Requests, Publish(i, r),
         stream' = [stream EXCEPT ![Call[r].topic] = Append(@, r)]
  PROVE Published' = Published \union {r}
  <1>0. WorkTypeOK /\ TypeInv /\ WorkTypeOK'
    BY NextWorkTypeOK DEF Safe, TypeInv, TypeOK
  <1>1. \A t \in Topics : /\ DOMAIN stream[t] = 1..Len(stream[t])
                          /\ DOMAIN stream'[t] = 1..Len(stream'[t])
    <2>1. \A t \in Topics : stream[t] \in Seq(Requests) /\ stream'[t] \in Seq(Requests)
      BY <1>0 DEF WorkTypeOK
    <2>2. QED
      BY <2>1
  <1>2. ASSUME NEW q \in Published
        PROVE q \in Published'
    <2>1. PICK t \in Topics : \E p \in 1..Len(stream[t]) : stream[t][p] = q
      BY <1>1 DEF Published
    <2>2. \E p \in 1..Len(stream'[t]) : stream'[t][p] = q
      BY <1>0, <2>1, GrownStreams
    <2>3. q \in Requests
      BY DEF Published
    <2>4. QED
      BY <1>1, <2>2, <2>3 DEF Published
  <1>3. r \in Published'
    <2>1. /\ Len(stream[Call[r].topic]) \in Nat
          /\ Len(stream'[Call[r].topic]) = Len(stream[Call[r].topic]) + 1
          /\ stream'[Call[r].topic][Len(stream[Call[r].topic]) + 1] = r
      BY <1>0, AppendedAt
    <2>2. Call[r].topic \in Topics
      BY CallFields
    <2>3. Len(stream[Call[r].topic]) + 1 \in DOMAIN stream'[Call[r].topic]
      BY <1>1, <2>1, <2>2
    <2>4. QED
      BY <2>1, <2>2, <2>3 DEF Published
  <1>4. ASSUME NEW q \in Published'
        PROVE q \in Published \/ q = r
    <2>1. CASE \E j \in Instances : Publish(j, q)
      <3>1. pc[q] = "publish" /\ pc'[q] \in Answered /\ pc[q] \in Running
        BY <2>1 DEF Publish, Answer, Answered, Running, Safe, TypeInv, TypeOK,
                    ServerTypeOK
      <3>2. \E a : pc' = [pc EXCEPT ![r] = a]
        BY DEF Publish, Answer
      <3>3. QED
        BY <3>1, <3>2 DEF Answered, Safe, TypeInv, TypeOK, ServerTypeOK
    <2>2. QED
      BY <2>1, PublishedAfter
  <1>5. QED
    BY <1>2, <1>3, <1>4

-------------------------------------------------------------------------------
(* Every step maps to a step of the trail or leaves it alone.              *)

TrailStep == \/ \E r \in Requests : Trail!Admit(r)
             \/ \E R \in SUBSET Requests : Trail!Refuse(R)
             \/ \E r \in Requests, i \in Instances :
                   Trail!Store(r, i) \/ Trail!Bury(r, i)
             \/ TrailUnchanged

LEMMA HandlersMap ==
  ASSUME Safe, [Next]_vars, NEW i \in Instances, NEW r \in Requests,
         \/ Receive(i, r) \/ FindOrgUser(i, r) \/ CreateOrgUser(i, r)
         \/ Publish(i, r)
  PROVE TrailStep
  <1>0. /\ TypeInv /\ HttpInv /\ StreamInv
        /\ pc \in [Requests -> {"new"} \union Running \union Answered]
    BY DEF Safe, TypeInv, TypeOK, ServerTypeOK
  <1>1. UNCHANGED <<rows, poisoned>>
    BY DEF Receive, FindOrgUser, CreateOrgUser, Publish, rowVars
  <1>2. /\ pc[r] \notin Answered
        /\ \/ \E a \in Running : pc' = [pc EXCEPT ![r] = a]
           \/ \E a \in Answered : pc' = [pc EXCEPT ![r] = a]
    BY HandlerStep DEF Running, Answered
  <1>3. \A q \in Requests \ {r} : pc'[q] = pc[q]
    BY <1>0, <1>2
  <1>4. CASE Publish(i, r)
    <2>1. /\ \A t \in Topics : \A p \in 1..Len(stream[t]) : stream[t][p] # r
          /\ \E a \in {"accepted", "failed"} : pc' = [pc EXCEPT ![r] = a]
          /\ \/ stream' = [stream EXCEPT ![Call[r].topic] = Append(@, r)]
             \/ stream' = stream /\ pc' = [pc EXCEPT ![r] = "failed"]
      BY <1>0, <1>4, PublishAppends
    <2>2. r \notin Published /\ pc'[r] \in {"accepted", "failed"}
      <3>1. \A t \in Topics : DOMAIN stream[t] = 1..Len(stream[t])
        BY <1>0 DEF TypeInv, TypeOK, WorkTypeOK
      <3>2. QED
        BY <1>0, <2>1, <3>1 DEF Published
    <2>3. CASE stream' = [stream EXCEPT ![Call[r].topic] = Append(@, r)]
      <3>1. Trail!Admit(r)
        BY <1>1, <1>2, <1>3, <1>4, <2>2, <2>3, PublishAdmits, AdmitStep
      <3>2. QED
        BY <3>1 DEF TrailStep
    <2>4. CASE stream' = stream /\ pc' = [pc EXCEPT ![r] = "failed"]
      <3>1. pc'[r] = "failed"
        BY <1>0, <2>4
      <3>2. Trail!Refuse({r})
        BY <1>1, <1>2, <1>3, <2>4, <3>1, RefuseStep DEF Answered, Told
      <3>3. QED
        BY <3>2 DEF TrailStep
    <2>5. QED
      BY <2>1, <2>3, <2>4
  <1>5. CASE ~Publish(i, r)
    <2>1. stream' = stream
      BY <1>5 DEF Receive, FindOrgUser, CreateOrgUser
    <2>2. pc'[r] # "accepted"
      BY <1>0, <1>2, <1>5 DEF Receive, FindOrgUser, CreateOrgUser, Missing, Answer
    <2>3. CASE pc'[r] \in Answered
      <3>1. Trail!Refuse({r})
        BY <1>1, <1>2, <1>3, <2>1, <2>2, <2>3, RefuseStep DEF Answered, Told
      <3>2. QED
        BY <3>1 DEF TrailStep
    <2>4. CASE pc'[r] \notin Answered
      <3>1. \A q \in Requests : Told(q)' = Told(q)
        BY <1>2, <1>3, <2>4 DEF Told, Answered
      <3>2. QED
        BY <1>1, <2>1, <3>1, StutterStep DEF TrailStep
    <2>5. QED
      BY <2>3, <2>4
  <1>6. QED
    BY <1>4, <1>5

LEMMA ConsumersMap ==
  ASSUME Safe, [Next]_vars, NEW i \in Instances, NEW t \in Topics,
         Save(i, t) \/ Poison(i, t)
  PROVE TrailStep
  <1> DEFINE r == Current(i, t)
  <1>1. UNCHANGED <<stream, pc>>
    BY DEF Save, Poison, httpVars
  <1>2. Published' = Published /\ ToldAll' = ToldAll
    BY <1>1 DEF Published, ToldAll, Told
  <1>3. r \in Requests /\ r \in Published
    <2>1. /\ task[i][t] # "idle" /\ TypeInv /\ stream[t] \in Seq(Requests)
      BY SettleStep DEF Safe, TypeInv, TypeOK, WorkTypeOK
    <2>2. cursor[i][t] \in 1..Len(stream[t]) /\ r \in Requests
      BY <2>1, CurrentIsPublished
    <2>3. QED
      BY <2>1, <2>2 DEF Published, Current
  <1>4. CASE Save(i, t)
    <2>1. poisoned' = poisoned /\ (rows' = rows \/ AddRow(i, r))
      BY <1>4 DEF Save
    <2>2. CASE rows' = rows
      BY <1>2, <2>1, <2>2 DEF TrailStep, TrailUnchanged
    <2>3. CASE AddRow(i, r)
      <3>1. Trail!Store(r, i)
        BY <1>2, <1>3, <2>1, <2>3 DEF Trail!Store, AddRow, ToldAll, Told
      <3>2. QED
        BY <1>3, <3>1 DEF TrailStep
    <2>4. QED
      BY <2>1, <2>2, <2>3
  <1>5. CASE Poison(i, t)
    <2>1. rows' = rows /\ poisoned' \in {poisoned, poisoned \union {<<i, r>>}}
      BY <1>5 DEF Poison, PoisonPublished, PoisonFailed
    <2>2. CASE poisoned' = poisoned
      BY <1>2, <2>1, <2>2 DEF TrailStep, TrailUnchanged
    <2>3. CASE poisoned' = poisoned \union {<<i, r>>}
      <3>1. Trail!Bury(r, i)
        BY <1>2, <1>3, <2>1, <2>3 DEF Trail!Bury, ToldAll, Told
      <3>2. QED
        BY <1>3, <3>1 DEF TrailStep
    <2>4. QED
      BY <2>1, <2>2, <2>3
  <1>6. QED
    BY <1>4, <1>5

LEMMA ProcessesMap ==
  ASSUME Safe, [Next]_vars, NEW i \in Instances, Stop(i)
  PROVE TrailStep
  <1>1. /\ serving[i] \in SUBSET Requests
        /\ \A r \in serving[i] : pc[r] \notin Answered
    BY DEF Safe, TypeInv, TypeOK, ServerTypeOK, HttpInv, ServingRuns, Running,
           Answered
  <1>2. /\ \A r \in serving[i] : pc'[r] = "failed"
        /\ \A r \in Requests \ serving[i] : pc'[r] = pc[r]
        /\ UNCHANGED <<stream, rows, poisoned>>
    BY <1>1 DEF Stop, rowVars
  <1>3. /\ \A r \in serving[i] : pc'[r] \in Answered \ {"accepted"}
        /\ \A r \in Requests \ serving[i] : Told(r)' = Told(r)
    BY <1>2 DEF Answered, Told
  <1>4. PICK R \in SUBSET Requests : R = serving[i]
    BY <1>1
  <1>5. Trail!Refuse(R)
    BY <1>1, <1>2, <1>3, <1>4, RefuseStep
  <1>6. QED
    BY <1>5 DEF TrailStep

LEMMA NextMaps == Safe /\ [Next]_vars => TrailStep
  <1> SUFFICES ASSUME Safe, [Next]_vars
               PROVE TrailStep
    OBVIOUS
  <1>1. ASSUME UNCHANGED <<pc, stream, rows, poisoned>>
        PROVE TrailStep
    BY <1>1, StutterStep DEF TrailStep, Told
  <1>2. ASSUME NEW i \in Instances, NEW t \in Topics, Deliver(i, t)
        PROVE TrailStep
    BY <1>1, <1>2 DEF Deliver, httpVars, rowVars
  <1>3. ASSUME NEW i \in Instances, NEW r \in Requests,
               Logout(i, Call[r].org, Call[r].token)
        PROVE TrailStep
    BY <1>1, <1>3 DEF Logout, httpVars, rowVars
  <1>4. ASSUME NEW i \in Instances, Terminate(i) \/ Start(i)
        PROVE TrailStep
    BY <1>1, <1>4 DEF Terminate, Start, httpVars, rowVars
  <1>5. CASE UNCHANGED vars
    BY <1>1, <1>5 DEF vars, httpVars, rowVars
  <1>6. QED
    BY <1>2, <1>3, <1>4, <1>5, HandlersMap, ConsumersMap, ProcessesMap, NextCases

(* The pipeline implements the audit trail: records are admitted and       *)
(* answered at most once, and rows and dead letters only grow and only for *)
(* admitted records, whichever processes fail and restart.                 *)
THEOREM IngestionImplementsAuditTrail == Spec => ImplementsAuditTrail
  <1>1. Init => Trail!AInit
    BY DEF Init, Trail!AInit, Published, Answered
  <1>2. TrailStep => [Trail!ANext]_(Trail!avars)
    BY DEF TrailStep, Trail!ANext, Trail!avars, TrailUnchanged, ToldAll, Told
  <1>3. Safe /\ [Next]_vars => [Trail!ANext]_(Trail!avars)
    BY <1>2, NextMaps
  <1>4. QED
    BY <1>1, <1>3, InitSafe, NextSafe, PTL DEF Spec, ImplementsAuditTrail, Trail!ASpec
===============================================================================
