---------------------------- MODULE IngestionProofs ----------------------------
(***************************************************************************)
(* Proofs about Ingestion for every number of processes, requests, faults  *)
(* and restarts.  The inductive invariant Safe relates the four places a   *)
(* record passes through: its handler's pc, the stream, the cursor and     *)
(* task of each process, and the rows and dead letters.                    *)
(***************************************************************************)
EXTENDS Ingestion, SequenceTheorems, TLAPS

(* Every action by name, for the case splits.                              *)
LEMMA NextCases ==
  ASSUME Next
  PROVE \/ \E i \in Instances, r \in Requests :
              \/ Receive(i, r) \/ FindOrgUser(i, r) \/ CreateOrgUser(i, r)
              \/ Publish(i, r)
        \/ \E i \in Instances, t \in Topics :
              Deliver(i, t) \/ Save(i, t) \/ Poison(i, t)
        \/ \E i \in Instances, r \in Requests :
              Logout(i, Call[r].org, Call[r].token)
        \/ \E i \in Instances : Terminate(i) \/ Stop(i) \/ Start(i)
  BY DEF Next, Handle, Consume

LEMMA CallFields ==
  ASSUME NEW r \in Requests
  PROVE /\ Call[r].topic \in Topics /\ Call[r].org \in STRING
        /\ Call[r].uid \in STRING /\ Call[r].name \in STRING
        /\ Call[r].token \in STRING /\ Call[r].wellFormed \in BOOLEAN
  BY IngestionAssumption DEF CallType

-------------------------------------------------------------------------------
(* Type correctness and the order of the cursors.  A task is in hand only  *)
(* in a process that is not down, and its message lies on the stream.      *)

CursorsInv ==
  \A i \in Instances, t \in Topics :
     /\ from[i][t] <= cursor[i][t]
     /\ cursor[i][t] <= Len(stream[t])
     /\ task[i][t] # "idle" => from[i][t] < cursor[i][t] /\ proc[i] # "down"

TypeInv == TypeOK /\ CursorsInv

LEMMA InitTypeInv == Init => TypeInv
  <1> SUFFICES ASSUME Init PROVE TypeInv
    OBVIOUS
  <1>1. actor \in [Requests -> Users]
    BY CallFields DEF Init, Users
  <1>2. ServerTypeOK /\ WorkTypeOK /\ RowTypeOK
    BY <1>1 DEF Init, ServerTypeOK, WorkTypeOK, RowTypeOK, OrgUsers
  <1>3. CursorsInv
    BY DEF Init, CursorsInv
  <1>4. QED
    BY <1>2, <1>3 DEF TypeInv, TypeOK

LEMMA CurrentIsPublished ==
  ASSUME TypeInv, NEW i \in Instances, NEW t \in Topics, task[i][t] # "idle"
  PROVE /\ cursor[i][t] \in 1..Len(stream[t])
        /\ Current(i, t) \in Requests
  <1>1. cursor[i][t] \in 1..Len(stream[t])
    BY DEF TypeInv, TypeOK, WorkTypeOK, CursorsInv
  <1>2. stream[t] \in Seq(Requests)
    BY DEF TypeInv, TypeOK, WorkTypeOK
  <1>3. QED
    BY <1>1, <1>2 DEF Current

LEMMA NextServerTypeOK == TypeInv /\ [Next]_vars => ServerTypeOK'
  <1> SUFFICES ASSUME ServerTypeOK, [Next]_vars
               PROVE ServerTypeOK'
    BY DEF TypeInv, TypeOK
  <1> USE DEF ServerTypeOK, Answer, Running, Answered
  <1>1. ASSUME NEW i \in Instances, NEW r \in Requests, Receive(i, r)
        PROVE ServerTypeOK'
    BY <1>1 DEF Receive
  <1>2. ASSUME NEW i \in Instances, NEW r \in Requests, FindOrgUser(i, r)
        PROVE ServerTypeOK'
    <2>1. \A u \in Selected(r) : ActorOf(r, u) \in Users
      BY CallFields DEF Selected, ActorOf, Users, OrgUsers
    <2>2. actor' \in [Requests -> Users]
      BY <1>2, <2>1 DEF FindOrgUser
    <2>3. QED
      BY <1>2, <2>2 DEF FindOrgUser, Missing
  <1>3. ASSUME NEW i \in Instances, NEW r \in Requests, CreateOrgUser(i, r)
        PROVE ServerTypeOK'
    <2>1. orgUsers' \subseteq OrgUsers
      BY <1>3, CallFields DEF CreateOrgUser, OrgUsers
    <2>2. QED
      BY <1>3, <2>1 DEF CreateOrgUser
  <1>4. ASSUME NEW i \in Instances, NEW r \in Requests, Publish(i, r)
        PROVE ServerTypeOK'
    BY <1>4 DEF Publish
  <1>5. ASSUME NEW i \in Instances, NEW t \in Topics,
               Deliver(i, t) \/ Save(i, t) \/ Poison(i, t)
        PROVE ServerTypeOK'
    BY <1>5 DEF Deliver, Save, Poison, procVars, httpVars
  <1>6. ASSUME NEW i \in Instances, NEW r \in Requests,
               Logout(i, Call[r].org, Call[r].token)
        PROVE ServerTypeOK'
    BY <1>6 DEF Logout, procVars, httpVars
  <1>7. ASSUME NEW i \in Instances, Terminate(i) \/ Start(i)
        PROVE ServerTypeOK'
    BY <1>7 DEF Terminate, Start, httpVars
  <1>8. ASSUME NEW i \in Instances, Stop(i)
        PROVE ServerTypeOK'
    BY <1>8 DEF Stop
  <1>9. CASE UNCHANGED vars
    BY <1>9 DEF vars, procVars, httpVars
  <1>10. QED
    BY <1>1, <1>2, <1>3, <1>4, <1>5, <1>6, <1>7, <1>8, <1>9, NextCases

LEMMA AppendedStreams ==
  ASSUME WorkTypeOK, NEW r \in Requests
  PROVE [stream EXCEPT ![Call[r].topic] = Append(@, r)]
          \in [Topics -> Seq(Requests)]
  <1>1. Call[r].topic \in Topics
    BY CallFields
  <1>2. \A q \in Seq(Requests) : Append(q, r) \in Seq(Requests)
    OBVIOUS
  <1>3. QED
    BY <1>1, <1>2 DEF WorkTypeOK

TaskSteps == {"idle", "save", "poison"}

LEMMA TaskUpdate ==
  ASSUME WorkTypeOK, NEW i \in Instances, NEW t \in Topics
  PROVE /\ \A v \in TaskSteps : [task EXCEPT ![i][t] = v]
                                   \in [Instances -> [Topics -> TaskSteps]]
        /\ \A n \in Nat : [tries EXCEPT ![i][t] = n]
                              \in [Instances -> [Topics -> Nat]]
        /\ tries[i][t] \in Nat
  BY DEF WorkTypeOK, TaskSteps

(* What a consumer's step does to its process's tasks and retries.         *)
LEMMA ConsumeTask ==
  ASSUME WorkTypeOK, NEW i \in Instances, NEW t \in Topics,
         Save(i, t) \/ Poison(i, t)
  PROVE /\ \E v \in TaskSteps : task' = [task EXCEPT ![i][t] = v]
        /\ \/ tries' = tries
           \/ \E n \in Nat : tries' = [tries EXCEPT ![i][t] = n]
        /\ UNCHANGED <<stream, cursor, from, proc>>
  <1>1. CASE Save(i, t)
    BY <1>1 DEF Save, TaskSteps, procVars
  <1>2. CASE Poison(i, t) /\ PoisonPublished(i, t)
    BY <1>2 DEF Poison, PoisonPublished, TaskSteps, procVars
  <1>3. CASE Poison(i, t) /\ PoisonFailed(i, t)
    <2>1. tries[i][t] + 1 \in Nat /\ 0 \in Nat
      BY TaskUpdate
    <2>2. QED
      BY <1>3, <2>1 DEF Poison, PoisonFailed, TaskSteps, procVars
  <1>4. QED
    BY <1>1, <1>2, <1>3 DEF Poison

LEMMA NextWorkTypeOK == TypeInv /\ [Next]_vars => WorkTypeOK'
  <1> SUFFICES ASSUME WorkTypeOK, [Next]_vars
               PROVE WorkTypeOK'
    BY DEF TypeInv, TypeOK
  <1>1. ASSUME NEW i \in Instances, NEW r \in Requests,
               Receive(i, r) \/ FindOrgUser(i, r) \/ CreateOrgUser(i, r)
        PROVE WorkTypeOK'
    BY <1>1 DEF Receive, FindOrgUser, CreateOrgUser, workVars, WorkTypeOK
  <1>2. ASSUME NEW i \in Instances, NEW r \in Requests, Publish(i, r)
        PROVE WorkTypeOK'
    <2>1. stream' \in [Topics -> Seq(Requests)]
      BY <1>2, AppendedStreams DEF Publish, WorkTypeOK
    <2>2. QED
      BY <1>2, <2>1 DEF Publish, workVars, WorkTypeOK
  <1>3. ASSUME NEW i \in Instances, NEW t \in Topics, Deliver(i, t)
        PROVE WorkTypeOK'
    <2>1. cursor' \in [Instances -> [Topics -> Nat]]
      BY <1>3 DEF Deliver, WorkTypeOK
    <2>2. task' \in [Instances -> [Topics -> {"idle", "save", "poison"}]]
      BY <1>3 DEF Deliver, WorkTypeOK
    <2>3. tries' \in [Instances -> [Topics -> Nat]]
      BY <1>3 DEF Deliver, WorkTypeOK
    <2>4. QED
      BY <1>3, <2>1, <2>2, <2>3 DEF Deliver, WorkTypeOK
  <1>4. ASSUME NEW i \in Instances, NEW t \in Topics,
               Save(i, t) \/ Poison(i, t)
        PROVE WorkTypeOK'
    <2>1. task' \in [Instances -> [Topics -> TaskSteps]]
      BY <1>4, TaskUpdate, ConsumeTask
    <2>2. tries' \in [Instances -> [Topics -> Nat]]
      <3>1. \/ tries' = tries
            \/ \E n \in Nat : tries' = [tries EXCEPT ![i][t] = n]
        BY <1>4, ConsumeTask
      <3>2. tries \in [Instances -> [Topics -> Nat]]
        BY DEF WorkTypeOK
      <3>3. QED
        BY <3>1, <3>2, TaskUpdate
    <2>3. UNCHANGED <<stream, cursor, from>>
      BY <1>4, ConsumeTask
    <2>4. QED
      BY <2>1, <2>2, <2>3 DEF TaskSteps, WorkTypeOK
  <1>6. ASSUME NEW i \in Instances, NEW r \in Requests,
               Logout(i, Call[r].org, Call[r].token)
        PROVE WorkTypeOK'
    BY <1>6 DEF Logout, workVars, WorkTypeOK
  <1>7. ASSUME NEW i \in Instances, Terminate(i) \/ Stop(i)
        PROVE WorkTypeOK'
    <2>1. CASE Terminate(i)
      BY <2>1 DEF Terminate, workVars, WorkTypeOK
    <2>2. CASE Stop(i)
      <3>1. task' \in [Instances -> [Topics -> TaskSteps]]
        BY <2>2 DEF Stop, WorkTypeOK, TaskSteps
      <3>2. tries' \in [Instances -> [Topics -> Nat]]
        BY <2>2 DEF Stop, WorkTypeOK
      <3>3. QED
        BY <2>2, <3>1, <3>2 DEF Stop, WorkTypeOK, TaskSteps
    <2>3. QED
      BY <1>7, <2>1, <2>2
  <1>8. ASSUME NEW i \in Instances, Start(i)
        PROVE WorkTypeOK'
    BY <1>8 DEF Start, StartPosition, WorkTypeOK
  <1>9. CASE UNCHANGED vars
    BY <1>9 DEF vars, workVars, WorkTypeOK
  <1>10. QED
    BY <1>1, <1>2, <1>3, <1>4, <1>6, <1>7, <1>8, <1>9, NextCases

LEMMA NextRowTypeOK == TypeInv /\ [Next]_vars => RowTypeOK'
  <1> SUFFICES ASSUME TypeInv, RowTypeOK, [Next]_vars
               PROVE RowTypeOK'
    BY DEF TypeInv, TypeOK
  <1> USE DEF RowTypeOK, Fault
  <1>1. ASSUME NEW i \in Instances, NEW r \in Requests,
               \/ Receive(i, r) \/ FindOrgUser(i, r) \/ CreateOrgUser(i, r)
               \/ Publish(i, r)
        PROVE RowTypeOK'
    BY <1>1 DEF Receive, FindOrgUser, CreateOrgUser, Publish, rowVars, outVars
  <1>2. ASSUME NEW i \in Instances, NEW t \in Topics, Deliver(i, t)
        PROVE RowTypeOK'
    BY <1>2 DEF Deliver, rowVars, outVars
  <1>3. ASSUME NEW i \in Instances, NEW t \in Topics, Save(i, t)
        PROVE RowTypeOK'
    <2>1. Current(i, t) \in Requests
      BY <1>3, CurrentIsPublished DEF Save
    <2>2. rows' \in [Requests -> [Instances -> Nat]]
      BY <1>3, <2>1 DEF Save, AddRow
    <2>3. QED
      BY <1>3, <2>2 DEF Save, outVars
  <1>4. ASSUME NEW i \in Instances, NEW t \in Topics, Poison(i, t)
        PROVE RowTypeOK'
    <2>1. Current(i, t) \in Requests
      BY <1>4, CurrentIsPublished DEF Poison
    <2>2. poisoned' \subseteq Instances \X Requests
      BY <1>4, <2>1 DEF Poison, PoisonPublished, PoisonFailed
    <2>3. faults' \in Nat
      BY <1>4 DEF Poison, PoisonPublished, PoisonFailed
    <2>4. QED
      BY <1>4, <2>2, <2>3 DEF Poison, outVars
  <1>5. ASSUME NEW i \in Instances, NEW r \in Requests,
               Logout(i, Call[r].org, Call[r].token)
        PROVE RowTypeOK'
    <2>1. closed' \subseteq Requests /\ acked' \subseteq Requests
      BY <1>5 DEF Logout, StoredSessions
    <2>2. faults' = faults \/ faults' = faults + 1
      BY <1>5 DEF Logout
    <2>3. UNCHANGED <<rows, poisoned, restarts>>
      BY <1>5 DEF Logout, rowVars
    <2>4. QED
      BY <2>1, <2>2, <2>3
  <1>6. ASSUME NEW i \in Instances, Terminate(i) \/ Stop(i) \/ Start(i)
        PROVE RowTypeOK'
    BY <1>6 DEF Terminate, Stop, Start, rowVars, outVars
  <1>7. CASE UNCHANGED vars
    BY <1>7 DEF vars, rowVars, outVars
  <1>8. QED
    BY <1>1, <1>2, <1>3, <1>4, <1>5, <1>6, <1>7, NextCases

(* The streams only grow, at their ends.                                   *)
StreamsGrow == \A t \in Topics :
                  /\ Len(stream[t]) <= Len(stream'[t])
                  /\ \A p \in 1..Len(stream[t]) : stream'[t][p] = stream[t][p]

(* Only Publish writes a stream.                                           *)
LEMMA OnlyPublishWrites ==
  ASSUME [Next]_vars
  PROVE \/ stream' = stream
        \/ \E i \in Instances, r \in Requests :
              /\ Publish(i, r)
              /\ stream' = [stream EXCEPT ![Call[r].topic] = Append(@, r)]
  <1>1. ASSUME NEW i \in Instances, NEW r \in Requests,
               Receive(i, r) \/ FindOrgUser(i, r) \/ CreateOrgUser(i, r)
        PROVE stream' = stream
    BY <1>1 DEF Receive, FindOrgUser, CreateOrgUser
  <1>2. ASSUME NEW i \in Instances, NEW r \in Requests, Publish(i, r)
        PROVE \/ stream' = stream
              \/ stream' = [stream EXCEPT ![Call[r].topic] = Append(@, r)]
    BY <1>2 DEF Publish
  <1>3. ASSUME NEW i \in Instances, NEW t \in Topics,
               Deliver(i, t) \/ Save(i, t) \/ Poison(i, t)
        PROVE stream' = stream
    BY <1>3 DEF Deliver, Save, Poison
  <1>4. ASSUME NEW i \in Instances, NEW r \in Requests,
               Logout(i, Call[r].org, Call[r].token)
        PROVE stream' = stream
    BY <1>4 DEF Logout
  <1>5. ASSUME NEW i \in Instances, Terminate(i) \/ Stop(i) \/ Start(i)
        PROVE stream' = stream
    BY <1>5 DEF Terminate, Stop, Start
  <1>6. CASE UNCHANGED vars
    BY <1>6 DEF vars
  <1>7. QED
    BY <1>1, <1>2, <1>3, <1>4, <1>5, <1>6, NextCases

LEMMA AppendedAt ==
  ASSUME WorkTypeOK, NEW r \in Requests,
         stream' = [stream EXCEPT ![Call[r].topic] = Append(@, r)]
  PROVE /\ \A t \in Topics :
              /\ stream[t] \in Seq(Requests)
              /\ t # Call[r].topic => stream'[t] = stream[t]
        /\ LET s == stream[Call[r].topic]
               z == stream'[Call[r].topic]
           IN /\ Len(s) \in Nat
              /\ Len(z) = Len(s) + 1
              /\ z[Len(s) + 1] = r
              /\ \A p \in 1..Len(s) : z[p] = s[p]
  <1>1. Call[r].topic \in Topics
    BY CallFields
  <1>2. stream[Call[r].topic] \in Seq(Requests)
    BY <1>1 DEF WorkTypeOK
  <1>3. stream'[Call[r].topic] = Append(stream[Call[r].topic], r)
    BY <1>1 DEF WorkTypeOK
  <1>4. QED
    BY <1>1, <1>2, <1>3 DEF WorkTypeOK

LEMMA NextStreamsGrow == TypeInv /\ [Next]_vars => StreamsGrow
  <1> SUFFICES ASSUME WorkTypeOK, [Next]_vars
               PROVE StreamsGrow
    BY DEF TypeInv, TypeOK
  <1>1. CASE stream' = stream
    BY <1>1 DEF StreamsGrow, WorkTypeOK
  <1>2. ASSUME NEW r \in Requests,
               stream' = [stream EXCEPT ![Call[r].topic] = Append(@, r)]
        PROVE StreamsGrow
    <2> SUFFICES ASSUME NEW t \in Topics
                 PROVE /\ Len(stream[t]) <= Len(stream'[t])
                       /\ \A p \in 1..Len(stream[t]) :
                             stream'[t][p] = stream[t][p]
      BY DEF StreamsGrow
    <2>1. CASE t = Call[r].topic
      BY <1>2, <2>1, AppendedAt
    <2>2. CASE t # Call[r].topic
      BY <1>2, <2>2, AppendedAt
    <2>3. QED
      BY <2>1, <2>2
  <1>3. QED
    BY <1>1, <1>2, OnlyPublishWrites

(* Hence a record keeps its position.                                      *)
LEMMA GrownStreams ==
  ASSUME TypeInv, [Next]_vars, NEW t \in Topics, NEW p \in 1..Len(stream[t])
  PROVE p \in 1..Len(stream'[t]) /\ stream'[t][p] = stream[t][p]
  <1>1. Len(stream[t]) <= Len(stream'[t]) /\ stream'[t][p] = stream[t][p]
    BY NextStreamsGrow DEF StreamsGrow
  <1>2. stream[t] \in Seq(Requests) /\ stream'[t] \in Seq(Requests)
    BY NextWorkTypeOK DEF TypeInv, TypeOK, WorkTypeOK
  <1>3. Len(stream[t]) \in Nat /\ Len(stream'[t]) \in Nat
    BY <1>2
  <1>4. QED
    BY <1>1, <1>3

LEMMA NextCursorsInv == TypeInv /\ [Next]_vars => CursorsInv'
  <1> SUFFICES ASSUME TypeInv, [Next]_vars, NEW j \in Instances, NEW u \in Topics
               PROVE /\ from'[j][u] <= cursor'[j][u]
                     /\ cursor'[j][u] <= Len(stream'[u])
                     /\ task'[j][u] # "idle" => /\ from'[j][u] < cursor'[j][u]
                                               /\ proc'[j] # "down"
    BY DEF CursorsInv
  <1> DEFINE Goal == /\ from'[j][u] <= cursor'[j][u]
                     /\ cursor'[j][u] <= Len(stream'[u])
                     /\ task'[j][u] # "idle" => /\ from'[j][u] < cursor'[j][u]
                                               /\ proc'[j] # "down"
  <1>1. /\ from[j][u] \in Nat /\ cursor[j][u] \in Nat
        /\ Len(stream[u]) \in Nat /\ Len(stream'[u]) \in Nat
    <2>1. stream[u] \in Seq(Requests) /\ stream'[u] \in Seq(Requests)
      BY NextWorkTypeOK DEF TypeInv, TypeOK, WorkTypeOK
    <2>2. QED
      BY <2>1 DEF TypeInv, TypeOK, WorkTypeOK
  <1>2. /\ from[j][u] <= cursor[j][u]
        /\ cursor[j][u] <= Len(stream[u])
        /\ task[j][u] # "idle" => from[j][u] < cursor[j][u] /\ proc[j] # "down"
    BY DEF TypeInv, CursorsInv
  <1>3. Len(stream[u]) <= Len(stream'[u])
    BY NextStreamsGrow DEF StreamsGrow
  <1>4. ASSUME from'[j][u] = from[j][u], cursor'[j][u] = cursor[j][u],
               task'[j][u] = task[j][u],
               proc'[j] = proc[j] \/ proc'[j] # "down"
        PROVE Goal
    BY <1>1, <1>2, <1>3, <1>4
  <1>5. ASSUME NEW i \in Instances, NEW r \in Requests,
               \/ Receive(i, r) \/ FindOrgUser(i, r) \/ CreateOrgUser(i, r)
               \/ Publish(i, r) \/ Logout(i, Call[r].org, Call[r].token)
        PROVE Goal
    BY <1>4, <1>5 DEF Receive, FindOrgUser, CreateOrgUser, Publish, Logout,
                      workVars, procVars
  <1>6. ASSUME NEW i \in Instances, NEW t \in Topics, Deliver(i, t)
        PROVE Goal
    <2>1. CASE i = j /\ t = u
      <3>1. /\ from'[j][u] = from[j][u] /\ cursor'[j][u] = cursor[j][u] + 1
            /\ cursor[j][u] < Len(stream[u]) /\ proc'[j] = "up"
        BY <1>6, <2>1 DEF Deliver, procVars, TypeInv, TypeOK, WorkTypeOK
      <3>2. QED
        BY <3>1, <1>1, <1>2, <1>3
    <2>2. CASE i # j \/ t # u
      <3>1. /\ from'[j][u] = from[j][u] /\ cursor'[j][u] = cursor[j][u]
            /\ task'[j][u] = task[j][u] /\ proc'[j] = proc[j]
        BY <1>6, <2>2 DEF Deliver, procVars, TypeInv, TypeOK, WorkTypeOK
      <3>2. QED
        BY <1>4, <3>1
    <2>3. QED
      BY <2>1, <2>2
  <1>7. ASSUME NEW i \in Instances, NEW t \in Topics, Save(i, t) \/ Poison(i, t)
        PROVE Goal
    <2>1. /\ task[i][t] # "idle" /\ WorkTypeOK
          /\ \E v \in TaskSteps : task' = [task EXCEPT ![i][t] = v]
          /\ UNCHANGED <<stream, cursor, from, proc>>
      BY <1>7, ConsumeTask DEF Save, Poison, TypeInv, TypeOK
    <2>2. CASE i = j /\ t = u
      BY <1>1, <1>2, <2>1, <2>2
    <2>3. CASE i # j \/ t # u
      <3>1. task'[j][u] = task[j][u]
        BY <2>1, <2>3 DEF WorkTypeOK
      <3>2. QED
        BY <1>4, <2>1, <3>1
    <2>4. QED
      BY <2>2, <2>3
  <1>8. ASSUME NEW i \in Instances, Terminate(i)
        PROVE Goal
    <2>1. proc'[j] = proc[j] \/ proc'[j] # "down"
      BY <1>8 DEF Terminate, TypeInv, TypeOK, ServerTypeOK
    <2>2. QED
      BY <1>4, <1>8, <2>1 DEF Terminate, workVars
  <1>9. ASSUME NEW i \in Instances, Stop(i)
        PROVE Goal
    <2>1. CASE i = j
      <3>1. /\ task'[j][u] = "idle"
            /\ from' = from /\ cursor' = cursor
        BY <1>9, <2>1 DEF Stop, TypeInv, TypeOK, WorkTypeOK
      <3>2. QED
        BY <1>1, <1>2, <1>3, <3>1
    <2>2. CASE i # j
      <3>1. /\ task'[j][u] = task[j][u] /\ proc'[j] = proc[j]
            /\ from' = from /\ cursor' = cursor
        BY <1>9, <2>2 DEF Stop, TypeInv, TypeOK, WorkTypeOK, ServerTypeOK
      <3>2. QED
        BY <1>4, <3>1
    <2>3. QED
      BY <2>1, <2>2
  <1>10. ASSUME NEW i \in Instances, Start(i)
         PROVE Goal
    <2>1. CASE i = j
      <3>1. /\ task' = task /\ proc[j] = "down"
            /\ from'[j][u] = Len(stream[u]) /\ cursor'[j][u] = Len(stream[u])
        BY <1>10, <2>1 DEF Start, StartPosition, TypeInv, TypeOK, WorkTypeOK
      <3>2. QED
        BY <1>1, <1>2, <1>3, <3>1
    <2>2. CASE i # j
      <3>1. /\ task' = task /\ proc'[j] = proc[j]
            /\ from'[j] = from[j] /\ cursor'[j] = cursor[j]
        BY <1>10, <2>2 DEF Start, TypeInv, TypeOK, WorkTypeOK, ServerTypeOK
      <3>2. QED
        BY <1>4, <3>1
    <2>3. QED
      BY <2>1, <2>2
  <1>11. CASE UNCHANGED vars
    BY <1>4, <1>11 DEF vars, workVars, procVars
  <1>12. QED
    BY <1>5, <1>6, <1>7, <1>8, <1>9, <1>10, <1>11, NextCases

LEMMA NextTypeInv == TypeInv /\ [Next]_vars => TypeInv'
  BY NextServerTypeOK, NextWorkTypeOK, NextRowTypeOK, NextCursorsInv
     DEF TypeInv, TypeOK

(* Every variable keeps its type, whatever fails, stops and restarts.      *)
THEOREM TypeCorrect == Spec => []TypeOK
  <1>1. TypeInv => TypeOK
    BY DEF TypeInv
  <1>2. QED
    BY <1>1, InitTypeInv, NextTypeInv, PTL DEF Spec

-------------------------------------------------------------------------------
(* A record is published once.                                             *)

ServingRuns == \A i \in Instances : \A r \in serving[i] : pc[r] \in Running

ServedOnce == \A i, j \in Instances : \A r \in serving[i] \intersect serving[j] :
                 i = j

HttpInv == ServingRuns /\ ServedOnce

(* What one handler step does to the answers and the served requests.      *)
LEMMA HandlerStep ==
  ASSUME NEW i \in Instances, NEW r \in Requests,
         \/ Receive(i, r) \/ FindOrgUser(i, r) \/ CreateOrgUser(i, r)
         \/ Publish(i, r)
  PROVE /\ pc[r] = "new" \/ (r \in serving[i] /\ pc[r] \in Running)
        /\ \/ /\ \E a \in Running : pc' = [pc EXCEPT ![r] = a]
              /\ serving' = [serving EXCEPT ![i] = @ \union {r}]
                 \/ serving' = serving
           \/ /\ \E a \in Answered : pc' = [pc EXCEPT ![r] = a]
              /\ serving' = [serving EXCEPT ![i] = @ \ {r}]
  <1>1. CASE Receive(i, r)
    <2>1. \/ /\ pc' = [pc EXCEPT ![r] = "find"]
             /\ serving' = [serving EXCEPT ![i] = @ \union {r}]
          \/ /\ pc' = [pc EXCEPT ![r] = "rejected"]
             /\ serving' = [serving EXCEPT ![i] = @ \ {r}]
      BY <1>1 DEF Receive, Answer
    <2>2. pc[r] = "new"
      BY <1>1 DEF Receive
    <2>3. QED
      BY <2>1, <2>2 DEF Running, Answered
  <1>2. CASE FindOrgUser(i, r)
    BY <1>2 DEF FindOrgUser, Missing, Answer, Running, Answered
  <1>3. CASE CreateOrgUser(i, r)
    BY <1>3 DEF CreateOrgUser, Answer, Running, Answered
  <1>4. CASE Publish(i, r)
    BY <1>4 DEF Publish, Answer, Running, Answered
  <1>5. QED
    BY <1>1, <1>2, <1>3, <1>4

(* Every other step but Stop leaves them alone.                            *)
LEMMA OtherSteps ==
  ASSUME [Next]_vars
  PROVE \/ \E i \in Instances, r \in Requests :
              \/ Receive(i, r) \/ FindOrgUser(i, r) \/ CreateOrgUser(i, r)
              \/ Publish(i, r)
        \/ \E i \in Instances : Stop(i)
        \/ UNCHANGED <<serving, pc, actor, orgUsers>>
  <1>1. ASSUME NEW i \in Instances, NEW t \in Topics,
               Deliver(i, t) \/ Save(i, t) \/ Poison(i, t)
        PROVE UNCHANGED <<serving, pc, actor, orgUsers>>
    BY <1>1 DEF Deliver, Save, Poison, procVars, httpVars
  <1>2. ASSUME NEW i \in Instances, NEW r \in Requests,
               Logout(i, Call[r].org, Call[r].token)
        PROVE UNCHANGED <<serving, pc, actor, orgUsers>>
    BY <1>2 DEF Logout, procVars, httpVars
  <1>3. ASSUME NEW i \in Instances, Terminate(i) \/ Start(i)
        PROVE UNCHANGED <<serving, pc, actor, orgUsers>>
    BY <1>3 DEF Terminate, Start, httpVars
  <1>4. CASE UNCHANGED vars
    BY <1>4 DEF vars, procVars, httpVars
  <1>5. QED
    BY <1>1, <1>2, <1>3, <1>4, NextCases

LEMMA NextHttpInv == TypeInv /\ HttpInv /\ [Next]_vars => HttpInv'
  <1> SUFFICES ASSUME ServerTypeOK, HttpInv, [Next]_vars
               PROVE HttpInv'
    BY DEF TypeInv, TypeOK
  <1> USE DEF HttpInv, ServingRuns, ServedOnce, ServerTypeOK
  <1>1. ASSUME NEW i \in Instances, NEW r \in Requests,
               \/ Receive(i, r) \/ FindOrgUser(i, r) \/ CreateOrgUser(i, r)
               \/ Publish(i, r)
        PROVE HttpInv'
    <2>1. pc[r] = "new" \/ r \in serving[i]
      BY <1>1, HandlerStep
    <2>2. \A j \in Instances : r \in serving[j] => j = i
      BY <2>1 DEF Running
    <2>3. CASE /\ \E a \in Running : pc' = [pc EXCEPT ![r] = a]
               /\ \/ serving' = [serving EXCEPT ![i] = @ \union {r}]
                  \/ serving' = serving
      BY <2>2, <2>3
    <2>4. CASE /\ \E a \in Answered : pc' = [pc EXCEPT ![r] = a]
               /\ serving' = [serving EXCEPT ![i] = @ \ {r}]
      BY <2>2, <2>4
    <2>5. QED
      BY <1>1, <2>3, <2>4, HandlerStep
  <1>2. ASSUME NEW i \in Instances, Stop(i)
        PROVE HttpInv'
    BY <1>2 DEF Stop
  <1>3. CASE UNCHANGED <<serving, pc, actor, orgUsers>>
    BY <1>3
  <1>4. QED
    BY <1>1, <1>2, <1>3, OtherSteps

(* An answer is final.                                                     *)
LEMMA AnswersStay ==
  ASSUME TypeInv, HttpInv, [Next]_vars
  PROVE \A r \in Requests : pc[r] \in Answered => pc'[r] = pc[r]
  <1> USE DEF TypeInv, TypeOK, ServerTypeOK, Running, Answered
  <1>1. ASSUME NEW i \in Instances, NEW r \in Requests,
               \/ Receive(i, r) \/ FindOrgUser(i, r) \/ CreateOrgUser(i, r)
               \/ Publish(i, r)
        PROVE \A q \in Requests : pc[q] \in Answered => pc'[q] = pc[q]
    <2>1. pc[r] \notin Answered /\ \E a : pc' = [pc EXCEPT ![r] = a]
      BY <1>1, HandlerStep
    <2>2. QED
      BY <2>1
  <1>2. ASSUME NEW i \in Instances, Stop(i)
        PROVE \A q \in Requests : pc[q] \in Answered => pc'[q] = pc[q]
    BY <1>2 DEF Stop, HttpInv, ServingRuns
  <1>3. QED
    BY <1>1, <1>2, OtherSteps

OnStream(r, n) == \E p \in 1..n : stream[Call[r].topic][p] = r

OwnTopics == \A t \in Topics : \A p \in 1..Len(stream[t]) :
                /\ Call[stream[t][p]].topic = t
                /\ pc[stream[t][p]] \in {"accepted", "failed"}

NoRepeats == \A t \in Topics : \A p, q \in 1..Len(stream[t]) :
                stream[t][p] = stream[t][q] => p = q

AcceptedThere == \A r \in Requests :
                    pc[r] = "accepted" => OnStream(r, Len(stream[Call[r].topic]))

StreamInv == OwnTopics /\ NoRepeats /\ AcceptedThere

(* A publish appends its record, which was not on the stream, and answers. *)
LEMMA PublishAppends ==
  ASSUME TypeInv, HttpInv, StreamInv, NEW i \in Instances, NEW r \in Requests,
         Publish(i, r)
  PROVE /\ \A t \in Topics : \A p \in 1..Len(stream[t]) : stream[t][p] # r
        /\ \E a \in {"accepted", "failed"} : pc' = [pc EXCEPT ![r] = a]
        /\ \/ stream' = [stream EXCEPT ![Call[r].topic] = Append(@, r)]
           \/ stream' = stream /\ pc' = [pc EXCEPT ![r] = "failed"]
  <1>1. pc[r] = "publish"
    BY DEF Publish
  <1>2. \A t \in Topics : \A p \in 1..Len(stream[t]) : stream[t][p] # r
    BY <1>1 DEF StreamInv, OwnTopics
  <1>3. QED
    BY <1>2 DEF Publish, Answer

(* The answers that end other steps accept nothing.                        *)
LEMMA OnlyPublishAccepts ==
  ASSUME TypeInv, [Next]_vars, NEW r \in Requests,
         pc'[r] = "accepted", pc[r] # "accepted"
  PROVE \E i \in Instances : Publish(i, r)
  <1> USE DEF TypeInv, TypeOK, ServerTypeOK
  <1>1. ASSUME NEW i \in Instances, NEW q \in Requests,
               Receive(i, q) \/ FindOrgUser(i, q) \/ CreateOrgUser(i, q)
        PROVE FALSE
    BY <1>1 DEF Receive, FindOrgUser, CreateOrgUser, Missing, Answer
  <1>2. ASSUME NEW i \in Instances, NEW q \in Requests, Publish(i, q)
        PROVE \E j \in Instances : Publish(j, r)
    <2>1. q = r
      BY <1>2 DEF Publish, Answer
    <2>2. QED
      BY <1>2, <2>1
  <1>3. ASSUME NEW i \in Instances, Stop(i)
        PROVE FALSE
    BY <1>3 DEF Stop
  <1>4. QED
    BY <1>1, <1>2, <1>3, OtherSteps

LEMMA NextStreamInv ==
  TypeInv /\ HttpInv /\ StreamInv /\ [Next]_vars => StreamInv'
  <1> SUFFICES ASSUME TypeInv, HttpInv, StreamInv, [Next]_vars
               PROVE StreamInv'
    OBVIOUS
  <1>0. WorkTypeOK /\ ServerTypeOK
    BY DEF TypeInv, TypeOK
  <1>1. ASSUME NEW i \in Instances, NEW r \in Requests, Publish(i, r),
               stream' = [stream EXCEPT ![Call[r].topic] = Append(@, r)]
        PROVE StreamInv'
    <2>1. /\ \A t \in Topics : \A p \in 1..Len(stream[t]) : stream[t][p] # r
          /\ \E a \in {"accepted", "failed"} : pc' = [pc EXCEPT ![r] = a]
      BY <1>1, PublishAppends
    <2> DEFINE c == Call[r].topic
               n == Len(stream[c])
    <2>2. /\ c \in Topics /\ n \in Nat
          /\ Len(stream'[c]) = n + 1 /\ stream'[c][n + 1] = r
          /\ \A p \in 1..n : stream'[c][p] = stream[c][p]
          /\ \A t \in Topics : t # c => stream'[t] = stream[t]
          /\ \A t \in Topics : stream[t] \in Seq(Requests)
      <3>1. c \in Topics
        BY CallFields
      <3>2. /\ n \in Nat
            /\ Len(stream'[c]) = n + 1 /\ stream'[c][n + 1] = r
            /\ \A p \in 1..n : stream'[c][p] = stream[c][p]
        BY <1>0, <1>1, AppendedAt
      <3>3. /\ \A t \in Topics : t # c => stream'[t] = stream[t]
            /\ \A t \in Topics : stream[t] \in Seq(Requests)
        BY <1>0, <1>1, AppendedAt
      <3>4. QED
        BY <3>1, <3>2, <3>3
    <2>3. pc'[r] \in {"accepted", "failed"} /\ \A q \in Requests \ {r} : pc'[q] = pc[q]
      BY <1>0, <2>1 DEF ServerTypeOK
    <2>4. ASSUME NEW t \in Topics, NEW p \in 1..Len(stream'[t])
          PROVE \/ t = c /\ p = n + 1 /\ stream'[t][p] = r
                \/ /\ p \in 1..Len(stream[t]) /\ stream'[t][p] = stream[t][p]
                   /\ stream[t][p] \in Requests \ {r}
      <3>1. CASE t = c /\ p = n + 1
        BY <2>2, <3>1
      <3>2. CASE t = c /\ p # n + 1
        BY <2>1, <2>2, <3>2
      <3>3. CASE t # c
        BY <2>1, <2>2, <3>3
      <3>4. QED
        BY <3>1, <3>2, <3>3
    <2> HIDE DEF n, c
    <2>5. OwnTopics'
      <3> SUFFICES ASSUME NEW t \in Topics, NEW p \in 1..Len(stream'[t])
                   PROVE /\ Call[stream'[t][p]].topic = t
                         /\ pc'[stream'[t][p]] \in {"accepted", "failed"}
        BY DEF OwnTopics
      <3>1. CASE t = c /\ p = n + 1 /\ stream'[t][p] = r
        BY <2>3, <3>1 DEF c
      <3>2. CASE /\ p \in 1..Len(stream[t]) /\ stream'[t][p] = stream[t][p]
                 /\ stream[t][p] \in Requests \ {r}
        BY <2>3, <3>2 DEF StreamInv, OwnTopics
      <3>3. QED
        BY <2>4, <3>1, <3>2
    <2>6. NoRepeats'
      <3> SUFFICES ASSUME NEW t \in Topics, NEW p \in 1..Len(stream'[t]),
                          NEW q \in 1..Len(stream'[t]),
                          stream'[t][p] = stream'[t][q]
                   PROVE p = q
        BY DEF NoRepeats
      <3>1. QED
        BY <2>4 DEF StreamInv, NoRepeats
    <2>7. AcceptedThere'
      <3> SUFFICES ASSUME NEW q \in Requests, pc'[q] = "accepted"
                   PROVE OnStream(q, Len(stream[Call[q].topic]))'
        BY DEF AcceptedThere
      <3>1. CASE q = r
        BY <2>2, <3>1 DEF OnStream, c
      <3>2. CASE q # r
        <4>1. PICK p \in 1..Len(stream[Call[q].topic]) :
                      stream[Call[q].topic][p] = q
          BY <2>3, <3>2 DEF StreamInv, AcceptedThere, OnStream
        <4>2. /\ p \in 1..Len(stream'[Call[q].topic])
              /\ stream'[Call[q].topic][p] = q
          BY <4>1, CallFields, GrownStreams
        <4>3. QED
          BY <4>2 DEF OnStream
      <3>3. QED
        BY <3>1, <3>2
    <2>8. QED
      BY <2>5, <2>6, <2>7 DEF StreamInv
  <1>2. CASE stream' = stream
    <2>1. \A r \in Requests : pc'[r] = "accepted" => pc[r] = "accepted"
      <3> SUFFICES ASSUME NEW r \in Requests, pc'[r] = "accepted",
                          pc[r] # "accepted"
                   PROVE FALSE
        OBVIOUS
      <3>1. PICK i \in Instances : Publish(i, r)
        BY OnlyPublishAccepts
      <3>2. stream' = [stream EXCEPT ![Call[r].topic] = Append(@, r)]
        BY <1>0, <3>1, PublishAppends DEF ServerTypeOK
      <3>3. Len(stream'[Call[r].topic]) = Len(stream[Call[r].topic]) + 1
        BY <1>0, <3>2, AppendedAt
      <3>4. Len(stream[Call[r].topic]) \in Nat
        BY <1>0, <3>2, AppendedAt
      <3>5. QED
        BY <1>2, <3>3, <3>4
    <2>2. \A t \in Topics : \A p \in 1..Len(stream[t]) : stream[t][p] \in Requests
      BY <1>0 DEF WorkTypeOK
    <2>3. OwnTopics'
      BY <1>2, <2>2, AnswersStay DEF OwnTopics, StreamInv, Answered
    <2>4. NoRepeats'
      BY <1>2 DEF NoRepeats, StreamInv
    <2>5. AcceptedThere'
      BY <1>2, <2>1 DEF AcceptedThere, StreamInv, OnStream
    <2>6. QED
      BY <2>3, <2>4, <2>5 DEF StreamInv
  <1>3. QED
    BY <1>1, <1>2, OnlyPublishWrites

-------------------------------------------------------------------------------
(* What the consumers have read, and what they owe.                        *)

(* Steps that leave the consumers alone.                                   *)
Quiet == /\ UNCHANGED <<cursor, task, from, rows, poisoned>>
         /\ faults <= faults'
         /\ \A i \in Instances : proc'[i] = "up" => proc[i] = "up"

LEMMA ConsumerSteps ==
  ASSUME TypeInv, [Next]_vars
  PROVE \/ Quiet
        \/ \E i \in Instances, t \in Topics :
              Deliver(i, t) \/ Save(i, t) \/ Poison(i, t)
        \/ \E i \in Instances : Stop(i) \/ Start(i)
  <1>0. faults \in Nat
    BY DEF TypeInv, TypeOK, RowTypeOK
  <1>1. ASSUME NEW i \in Instances, NEW r \in Requests,
               \/ Receive(i, r) \/ FindOrgUser(i, r) \/ CreateOrgUser(i, r)
               \/ Publish(i, r)
        PROVE Quiet
    <2>1. faults' = faults \/ faults' = faults + 1
      BY <1>1 DEF Receive, FindOrgUser, CreateOrgUser, Publish, Fault
    <2>2. UNCHANGED <<cursor, task, from, rows, poisoned, proc>>
      BY <1>1 DEF Receive, FindOrgUser, CreateOrgUser, Publish, workVars, rowVars
    <2>3. QED
      BY <1>0, <2>1, <2>2 DEF Quiet
  <1>2. ASSUME NEW i \in Instances, NEW r \in Requests,
               Logout(i, Call[r].org, Call[r].token)
        PROVE Quiet
    <2>1. faults' = faults \/ faults' = faults + 1
      BY <1>2 DEF Logout, Fault
    <2>2. UNCHANGED <<cursor, task, from, rows, poisoned, proc>>
      BY <1>2 DEF Logout, procVars, workVars, rowVars
    <2>3. QED
      BY <1>0, <2>1, <2>2 DEF Quiet
  <1>3. ASSUME NEW i \in Instances, Terminate(i)
        PROVE Quiet
    BY <1>0, <1>3 DEF Terminate, Quiet, workVars, rowVars, TypeInv, TypeOK,
                      ServerTypeOK
  <1>4. CASE UNCHANGED vars
    BY <1>0, <1>4 DEF vars, Quiet, procVars, workVars, rowVars
  <1>5. QED
    BY <1>1, <1>2, <1>3, <1>4, NextCases

(* A consumer's step adds at most one row and one dead letter, both of its *)
(* current message.                                                        *)
LEMMA SettleStep ==
  ASSUME TypeInv, NEW i \in Instances, NEW t \in Topics,
         Save(i, t) \/ Poison(i, t)
  PROVE /\ task[i][t] # "idle"
        /\ rows' = rows \/ AddRow(i, Current(i, t))
        /\ poisoned' \in {poisoned, poisoned \union {<<i, Current(i, t)>>}}
  BY DEF Save, Poison, PoisonPublished, PoisonFailed

LEMMA SettledStays ==
  ASSUME TypeInv, [Next]_vars, NEW i \in Instances, NEW r \in Requests,
         Settled(i, r)
  PROVE Settled(i, r)'
  <1>0. rows \in [Requests -> [Instances -> Nat]]
    BY DEF TypeInv, TypeOK, RowTypeOK
  <1>1. ASSUME NEW j \in Instances, NEW t \in Topics, Save(j, t) \/ Poison(j, t)
        PROVE Settled(i, r)'
    <2>1. Current(j, t) \in Requests
      BY <1>1, SettleStep, CurrentIsPublished
    <2>2. rows'[r][i] = rows[r][i] \/ rows'[r][i] = rows[r][i] + 1
      BY <1>0, <1>1, <2>1, SettleStep DEF AddRow
    <2>3. poisoned \subseteq poisoned'
      BY <1>1, SettleStep
    <2>4. QED
      BY <1>0, <2>2, <2>3 DEF Settled
  <1>2. CASE UNCHANGED <<rows, poisoned>>
    BY <1>2 DEF Settled
  <1>3. ASSUME NEW j \in Instances, NEW t \in Topics, Deliver(j, t)
        PROVE UNCHANGED <<rows, poisoned>>
    BY <1>3 DEF Deliver, rowVars
  <1>4. ASSUME NEW j \in Instances, Stop(j) \/ Start(j)
        PROVE UNCHANGED <<rows, poisoned>>
    BY <1>4 DEF Stop, Start, rowVars
  <1>5. QED
    BY <1>1, <1>2, <1>3, <1>4, ConsumerSteps DEF Quiet

(* A settled record was read: a process writes only what it was handed.    *)
ReadInv == \A i \in Instances, r \in Requests :
              Settled(i, r) => OnStream(r, cursor[i][Call[r].topic])

LEMMA CursorsGrow ==
  ASSUME TypeInv, [Next]_vars, NEW i \in Instances, NEW t \in Topics
  PROVE /\ cursor[i][t] \in Nat /\ cursor'[i][t] \in Nat
        /\ cursor[i][t] <= cursor'[i][t]
        /\ cursor[i][t] <= Len(stream[t])
  <1>0. /\ cursor \in [Instances -> [Topics -> Nat]] /\ cursor'[i][t] \in Nat
        /\ cursor[i][t] <= Len(stream[t])
    BY NextTypeInv DEF TypeInv, TypeOK, WorkTypeOK, CursorsInv
  <1>1. ASSUME NEW j \in Instances, NEW u \in Topics, Deliver(j, u)
        PROVE cursor[i][t] <= cursor'[i][t]
    BY <1>0, <1>1 DEF Deliver
  <1>2. ASSUME NEW j \in Instances, Start(j)
        PROVE cursor[i][t] <= cursor'[i][t]
    BY <1>0, <1>2 DEF Start, StartPosition
  <1>3. ASSUME NEW j \in Instances, NEW u \in Topics, Save(j, u) \/ Poison(j, u)
        PROVE cursor' = cursor
    BY <1>3 DEF Save, Poison
  <1>4. ASSUME NEW j \in Instances, Stop(j)
        PROVE cursor' = cursor
    BY <1>4 DEF Stop
  <1>5. QED
    BY <1>0, <1>1, <1>2, <1>3, <1>4, ConsumerSteps DEF Quiet

LEMMA NextReadInv ==
  TypeInv /\ StreamInv /\ ReadInv /\ [Next]_vars => ReadInv'
  <1> SUFFICES ASSUME TypeInv, StreamInv, ReadInv, [Next]_vars,
                      NEW i \in Instances, NEW r \in Requests, Settled(i, r)'
               PROVE OnStream(r, cursor[i][Call[r].topic])'
    BY DEF ReadInv
  <1>0. Call[r].topic \in Topics
    BY CallFields
  <1>1. CASE Settled(i, r)
    <2>1. PICK p \in 1..cursor[i][Call[r].topic] :
                  stream[Call[r].topic][p] = r
      BY <1>1 DEF ReadInv, OnStream
    <2>2. p \in 1..Len(stream[Call[r].topic]) /\ p \in 1..cursor'[i][Call[r].topic]
      <3>1. stream[Call[r].topic] \in Seq(Requests)
        BY <1>0 DEF TypeInv, TypeOK, WorkTypeOK
      <3>2. QED
        BY <1>0, <3>1, CursorsGrow
    <2>3. stream'[Call[r].topic][p] = r
      BY <1>0, <2>1, <2>2, GrownStreams
    <2>4. QED
      BY <2>2, <2>3 DEF OnStream
  <1>2. CASE ~Settled(i, r)
    <2>1. ~UNCHANGED <<rows, poisoned>>
      BY <1>2 DEF Settled
    <2>2. PICK j \in Instances, t \in Topics : Save(j, t) \/ Poison(j, t)
      <3>1. ASSUME NEW j \in Instances, NEW t \in Topics, Deliver(j, t)
            PROVE FALSE
        BY <2>1, <3>1 DEF Deliver, rowVars
      <3>2. ASSUME NEW j \in Instances, Stop(j) \/ Start(j)
            PROVE FALSE
        BY <2>1, <3>2 DEF Stop, Start, rowVars
      <3>3. QED
        BY <2>1, <3>1, <3>2, ConsumerSteps DEF Quiet
    <2>3. /\ Current(j, t) \in Requests
          /\ cursor[j][t] \in 1..Len(stream[t])
      BY <2>2, SettleStep, CurrentIsPublished
    <2>4. j = i /\ r = Current(i, t)
      <3>1. CASE <<i, r>> \in poisoned'
        BY <1>2, <2>2, <3>1, SettleStep DEF Settled
      <3>2. CASE rows'[r][i] > 0
        <4>1. rows \in [Requests -> [Instances -> Nat]] /\ rows'[r][i] # rows[r][i]
          BY <1>2, <3>2 DEF Settled, TypeInv, TypeOK, RowTypeOK
        <4>2. rows' = [rows EXCEPT ![Current(j, t)][j] = @ + 1]
          BY <2>2, <4>1, SettleStep DEF AddRow
        <4>3. QED
          BY <2>3, <4>1, <4>2
      <3>3. QED
        BY <3>1, <3>2 DEF Settled
    <2>5. Call[r].topic = t
      BY <2>3, <2>4 DEF StreamInv, OwnTopics, Current
    <2>6. stream' = stream /\ cursor' = cursor
      BY <2>2 DEF Save, Poison
    <2>7. cursor[i][t] \in 1..cursor[i][t] /\ stream[t][cursor[i][t]] = r
      BY <2>3, <2>4 DEF Current
    <2>8. QED
      BY <2>5, <2>6, <2>7 DEF OnStream
  <1>3. QED
    BY <1>1, <1>2

(* The inductive invariant behind the theorems.                            *)
Safe == TypeInv /\ HttpInv /\ StreamInv /\ ReadInv

LEMMA InitSafe == Init => Safe
  <1> SUFFICES ASSUME Init PROVE Safe
    OBVIOUS
  <1>1. TypeInv
    BY InitTypeInv
  <1>2. HttpInv
    BY DEF Init, HttpInv, ServingRuns, ServedOnce
  <1>3. StreamInv
    <2>1. \A t \in Topics : Len(stream[t]) = 0
      BY DEF Init
    <2>2. \A r \in Requests : pc[r] # "accepted"
      BY DEF Init
    <2>3. QED
      BY <2>1, <2>2 DEF StreamInv, OwnTopics, NoRepeats, AcceptedThere
  <1>4. ReadInv
    BY DEF Init, ReadInv, Settled
  <1>5. QED
    BY <1>1, <1>2, <1>3, <1>4 DEF Safe

LEMMA NextSafe == Safe /\ [Next]_vars => Safe'
  BY NextTypeInv, NextHttpInv, NextStreamInv, NextReadInv DEF Safe

LEMMA OnStreamIsPublished ==
  ASSUME TypeInv, NEW r \in Requests, NEW n \in Nat, OnStream(r, n),
         n <= Len(stream[Call[r].topic])
  PROVE r \in Published
  <1>1. Call[r].topic \in Topics /\ stream[Call[r].topic] \in Seq(Requests)
    BY CallFields DEF TypeInv, TypeOK, WorkTypeOK
  <1>2. PICK p \in 1..n : stream[Call[r].topic][p] = r
    BY DEF OnStream
  <1>3. p \in DOMAIN stream[Call[r].topic]
    BY <1>1, <1>2
  <1>4. QED
    BY <1>1, <1>2, <1>3 DEF Published

LEMMA SafePublishedOnce == Safe => PublishedOnce
  <1> SUFFICES ASSUME Safe PROVE PublishedOnce
    OBVIOUS
  <1>0. \A t \in Topics : /\ stream[t] \in Seq(Requests)
                          /\ DOMAIN stream[t] = 1..Len(stream[t])
                          /\ Len(stream[t]) \in Nat
    <2>1. \A t \in Topics : stream[t] \in Seq(Requests)
      BY DEF Safe, TypeInv, TypeOK, WorkTypeOK
    <2>2. QED
      BY <2>1
  <1>1. \A t \in Topics : \A p, q \in DOMAIN stream[t] :
           /\ Call[stream[t][p]].topic = t
           /\ stream[t][p] = stream[t][q] => p = q
    BY <1>0 DEF Safe, StreamInv, OwnTopics, NoRepeats
  <1>2. \A r \in Published : pc[r] \in {"accepted", "failed"}
    BY <1>0 DEF Safe, StreamInv, OwnTopics, Published
  <1>3. ASSUME NEW r \in Requests, pc[r] = "accepted"
        PROVE r \in Published
    <2>1. OnStream(r, Len(stream[Call[r].topic]))
      BY <1>3 DEF Safe, StreamInv, AcceptedThere
    <2>2. Len(stream[Call[r].topic]) \in Nat
      BY <1>0, CallFields
    <2>3. QED
      BY <2>1, <2>2, OnStreamIsPublished DEF Safe
  <1>4. ASSUME NEW r \in Requests, NEW i \in Instances, Settled(i, r)
        PROVE r \in Published
    <2>1. OnStream(r, cursor[i][Call[r].topic])
      BY <1>4 DEF Safe, ReadInv
    <2>2. /\ cursor[i][Call[r].topic] \in Nat
          /\ cursor[i][Call[r].topic] <= Len(stream[Call[r].topic])
      BY CallFields DEF Safe, TypeInv, TypeOK, WorkTypeOK, CursorsInv
    <2>3. QED
      BY <2>1, <2>2, OnStreamIsPublished DEF Safe
  <1>5. QED
    BY <1>1, <1>2, <1>3, <1>4 DEF PublishedOnce

(* Accepted records are on the stream, once, and rows and dead letters     *)
(* come from nowhere else.                                                 *)
THEOREM PublishedExactlyOnce == Spec => []PublishedOnce
  BY InitSafe, NextSafe, SafePublishedOnce, PTL DEF Spec

-------------------------------------------------------------------------------
(* Nothing read is dropped.                                                *)

LEMMA NextNothingDropped ==
  Safe /\ NothingDropped /\ [Next]_vars => NothingDropped'
  <1> SUFFICES ASSUME Safe, NothingDropped, [Next]_vars,
                      NEW j \in Instances, NEW u \in Topics, proc'[j] = "up",
                      NEW p \in (from'[j][u] + 1)..cursor'[j][u]
               PROVE \/ Settled(j, stream[u][p])'
                     \/ p = cursor'[j][u] /\ task'[j][u] # "idle"
    BY DEF NothingDropped, Read
  <1> DEFINE Goal == \/ Settled(j, stream[u][p])'
                     \/ p = cursor'[j][u] /\ task'[j][u] # "idle"
  <1>0. /\ TypeInv /\ WorkTypeOK
        /\ from[j][u] \in Nat /\ cursor[j][u] \in Nat
        /\ Len(stream[u]) \in Nat /\ cursor[j][u] <= Len(stream[u])
        /\ from'[j][u] \in Nat /\ cursor'[j][u] \in Nat
    <2>1. stream[u] \in Seq(Requests)
      BY DEF Safe, TypeInv, TypeOK, WorkTypeOK
    <2>2. QED
      BY <2>1, NextWorkTypeOK DEF Safe, TypeInv, TypeOK, WorkTypeOK, CursorsInv
  (* What was settled remains so.                                          *)
  <1>1. ASSUME p \in 1..cursor[j][u], Settled(j, stream[u][p])
        PROVE Goal
    <2>1. p \in 1..Len(stream[u])
      BY <1>0, <1>1
    <2>2. stream'[u][p] = stream[u][p] /\ stream[u][p] \in Requests
      BY <1>0, <2>1, GrownStreams DEF WorkTypeOK
    <2>3. Settled(j, stream[u][p])'
      <3>1. ASSUME NEW r \in Requests, Settled(j, r)
            PROVE rows'[r][j] > 0 \/ <<j, r>> \in poisoned'
        <4>1. Settled(j, r)'
          BY <1>0, <3>1, SettledStays
        <4>2. QED
          BY <4>1 DEF Settled
      <3>2. \/ rows'[stream[u][p]][j] > 0
            \/ <<j, stream[u][p]>> \in poisoned'
        BY <1>1, <2>2, <3>1
      <3>3. QED
        BY <2>2, <3>2 DEF Settled
    <2>4. QED
      BY <2>3
  <1>2. ASSUME proc[j] = "up", p \in (from[j][u] + 1)..cursor[j][u],
               ~(p = cursor[j][u] /\ task[j][u] # "idle")
        PROVE Goal
    <2>1. Settled(j, stream[u][p])
      BY <1>2 DEF NothingDropped, Read
    <2>2. p \in 1..cursor[j][u]
      BY <1>0, <1>2
    <2>3. QED
      BY <1>1, <2>1, <2>2
  (* Steps of other processes, of other topics and of the handlers.        *)
  <1>3. ASSUME proc[j] = "up", from'[j][u] = from[j][u],
               cursor'[j][u] = cursor[j][u], task'[j][u] = task[j][u]
        PROVE Goal
    BY <1>2, <1>3
  <1>4. CASE Quiet
    BY <1>3, <1>4 DEF Quiet
  <1>5. ASSUME NEW i \in Instances, NEW t \in Topics, Deliver(i, t)
        PROVE Goal
    <2>1. CASE i = j /\ t = u
      <3>1. /\ proc[j] = "up" /\ task[j][u] = "idle" /\ task'[j][u] = "save"
            /\ cursor'[j][u] = cursor[j][u] + 1 /\ from'[j][u] = from[j][u]
        BY <1>0, <1>5, <2>1 DEF Deliver, WorkTypeOK
      <3>2. CASE p = cursor'[j][u]
        BY <3>1, <3>2
      <3>3. CASE p # cursor'[j][u]
        <4>1. p \in (from[j][u] + 1)..cursor[j][u]
          BY <1>0, <3>1, <3>3
        <4>2. QED
          BY <1>2, <3>1, <4>1
      <3>4. QED
        BY <3>2, <3>3
    <2>2. CASE i # j \/ t # u
      <3>1. /\ proc' = proc /\ from' = from
            /\ cursor'[j][u] = cursor[j][u] /\ task'[j][u] = task[j][u]
        BY <1>0, <1>5, <2>2 DEF Deliver, WorkTypeOK, procVars
      <3>2. QED
        BY <1>3, <3>1
    <2>3. QED
      BY <2>1, <2>2
  <1>6. ASSUME NEW i \in Instances, NEW t \in Topics, Save(i, t) \/ Poison(i, t)
        PROVE Goal
    <2>0. UNCHANGED <<stream, cursor, from, proc>>
      BY <1>0, <1>6, ConsumeTask
    <2>1. CASE i # j \/ t # u
      <3>1. task'[j][u] = task[j][u]
        BY <1>0, <1>6, <2>1, ConsumeTask DEF WorkTypeOK
      <3>2. QED
        BY <1>3, <2>0, <3>1
    <2>2. CASE i = j /\ t = u /\ p # cursor[j][u]
      BY <1>2, <2>0, <2>2
    <2>3. CASE i = j /\ t = u /\ p = cursor[j][u]
      <3>1. Current(i, t) \in Requests /\ stream'[u][p] = Current(i, t)
        BY <1>0, <1>6, <2>0, <2>3, SettleStep, CurrentIsPublished DEF Current
      <3>2. CASE Save(i, t)
        <4>1. CASE task' = [task EXCEPT ![i][t] = "poison"]
          BY <1>0, <2>0, <2>3, <4>1 DEF WorkTypeOK
        <4>2. CASE AddRow(i, Current(i, t))
          <5>1. rows \in [Requests -> [Instances -> Nat]]
            BY <1>0 DEF TypeInv, TypeOK, RowTypeOK
          <5>2. rows'[Current(i, t)][i] > 0
            BY <3>1, <4>2, <5>1 DEF AddRow
          <5>3. QED
            BY <2>3, <3>1, <5>2 DEF Settled
        <4>3. QED
          BY <3>2, <4>1, <4>2 DEF Save
      <3>3. CASE PoisonPublished(i, t)
        BY <2>3, <3>1, <3>3 DEF PoisonPublished, Settled
      <3>4. CASE PoisonFailed(i, t)
        <4>1. task' = [task EXCEPT ![i][t] = "save"]
          BY <2>0, <2>3, <3>4 DEF PoisonFailed
        <4>2. QED
          BY <1>0, <2>0, <2>3, <4>1 DEF WorkTypeOK
      <3>5. QED
        BY <1>6, <3>2, <3>3, <3>4 DEF Poison
    <2>4. QED
      BY <2>1, <2>2, <2>3
  <1>7. ASSUME NEW i \in Instances, Stop(i)
        PROVE Goal
    <2>1. i # j
      BY <1>0, <1>7 DEF Stop, TypeInv, TypeOK, ServerTypeOK
    <2>2. QED
      BY <1>0, <1>3, <1>7, <2>1 DEF Stop, WorkTypeOK, TypeInv, TypeOK,
                                    ServerTypeOK
  <1>8. ASSUME NEW i \in Instances, Start(i)
        PROVE Goal
    <2>1. CASE i = j
      <3>1. from'[j][u] = cursor'[j][u]
        BY <1>0, <1>8, <2>1 DEF Start, WorkTypeOK
      <3>2. QED
        BY <1>0, <3>1
    <2>2. CASE i # j
      BY <1>0, <1>3, <1>8, <2>2 DEF Start, WorkTypeOK, TypeInv, TypeOK,
                                    ServerTypeOK
    <2>3. QED
      BY <2>1, <2>2
  <1>9. QED
    BY <1>0, <1>4, <1>5, <1>6, <1>7, <1>8, ConsumerSteps

(* A process that is up has in the table, in the poison queue or in hand   *)
(* every message it took off the stream.                                   *)
THEOREM NothingIsDropped == Spec => []NothingDropped
  <1>1. Init => NothingDropped
    BY DEF Init, NothingDropped, Read
  <1>2. QED
    BY <1>1, InitSafe, NextSafe, NextNothingDropped, PTL DEF Spec

-------------------------------------------------------------------------------
(* What a duplicate row costs.                                             *)

(* A message that is about to be saved has not had its failures' worth of  *)
(* rows yet; one that is about to be dead-lettered is one failure short.   *)
TaskBudget == \A i \in Instances, t \in Topics :
   /\ task[i][t] = "save" => 2 * rows[Current(i, t)][i] <= faults
   /\ task[i][t] = "poison" => 2 * rows[Current(i, t)][i] <= faults + 1

Budget == RowsPaidByFaults /\ TaskBudget

LEMMA NextBudget == Safe /\ Budget /\ [Next]_vars => Budget'
  <1> SUFFICES ASSUME Safe, Budget, [Next]_vars
               PROVE Budget'
    OBVIOUS
  <1>0. /\ TypeInv /\ WorkTypeOK /\ faults \in Nat
        /\ rows \in [Requests -> [Instances -> Nat]]
    BY DEF Safe, TypeInv, TypeOK, RowTypeOK
  (* The message in hand stays the same while other steps are taken.       *)
  <1>1. ASSUME NEW i \in Instances, NEW t \in Topics, task[i][t] # "idle",
               cursor'[i][t] = cursor[i][t]
        PROVE /\ Current(i, t) \in Requests
              /\ stream'[t][cursor'[i][t]] = Current(i, t)
              /\ Call[Current(i, t)].topic = t
    <2>1. cursor[i][t] \in 1..Len(stream[t]) /\ Current(i, t) \in Requests
      BY <1>0, <1>1, CurrentIsPublished
    <2>2. stream'[t][cursor[i][t]] = stream[t][cursor[i][t]]
      BY <1>0, <2>1, GrownStreams
    <2>3. QED
      BY <1>1, <2>1, <2>2 DEF Current, Safe, StreamInv, OwnTopics
  <1>2. ASSUME UNCHANGED rows, faults' \in Nat, faults <= faults'
        PROVE /\ RowsPaidByFaults'
              /\ \A i \in Instances, t \in Topics :
                    /\ cursor'[i][t] = cursor[i][t]
                    /\ task'[i][t] = task[i][t] \/ task'[i][t] = "idle"
                    => /\ task'[i][t] = "save"
                            => 2 * rows'[stream'[t][cursor'[i][t]]][i] <= faults'
                       /\ task'[i][t] = "poison"
                            => 2 * rows'[stream'[t][cursor'[i][t]]][i] <= faults' + 1
    <2>1. RowsPaidByFaults'
      BY <1>0, <1>2 DEF Budget, RowsPaidByFaults
    <2>2. ASSUME NEW i \in Instances, NEW t \in Topics,
                 cursor'[i][t] = cursor[i][t], task'[i][t] # "idle",
                 task'[i][t] = task[i][t]
          PROVE /\ task'[i][t] = "save"
                      => 2 * rows'[stream'[t][cursor'[i][t]]][i] <= faults'
                /\ task'[i][t] = "poison"
                      => 2 * rows'[stream'[t][cursor'[i][t]]][i] <= faults' + 1
      <3>1. /\ Current(i, t) \in Requests
            /\ stream'[t][cursor'[i][t]] = Current(i, t)
        BY <1>1, <2>2
      <3>2. rows[Current(i, t)][i] \in Nat
        BY <1>0, <3>1
      <3>3. /\ task[i][t] = "save" => 2 * rows[Current(i, t)][i] <= faults
            /\ task[i][t] = "poison" => 2 * rows[Current(i, t)][i] <= faults + 1
        BY DEF Budget, TaskBudget
      <3>4. QED
        BY <1>0, <1>2, <2>2, <3>1, <3>2, <3>3
    <2>3. QED
      BY <2>1, <2>2
  <1>3. faults' \in Nat
    BY <1>0, NextRowTypeOK DEF RowTypeOK
  <1>4. CASE Quiet
    BY <1>2, <1>3, <1>4 DEF Quiet, Budget, TaskBudget, Current
  <1>5. ASSUME NEW i \in Instances, Stop(i)
        PROVE Budget'
    <2>1. /\ rows' = rows /\ faults' = faults /\ cursor' = cursor
          /\ \A j \in Instances, t \in Topics :
                task'[j][t] = task[j][t] \/ task'[j][t] = "idle"
      BY <1>0, <1>5 DEF Stop, rowVars, WorkTypeOK
    <2>2. QED
      BY <1>0, <1>2, <2>1 DEF Budget, TaskBudget, Current
  <1>6. ASSUME NEW i \in Instances, Start(i)
        PROVE Budget'
    <2>1. /\ rows' = rows /\ faults' = faults /\ task' = task
          /\ \A j \in Instances, t \in Topics :
                task[j][t] # "idle" => cursor'[j][t] = cursor[j][t]
      <3>1. \A t \in Topics : task[i][t] = "idle"
        BY <1>0, <1>6 DEF Start, TypeInv, CursorsInv
      <3>2. \A j \in Instances : j # i => cursor'[j] = cursor[j]
        BY <1>0, <1>6 DEF Start, WorkTypeOK
      <3>3. QED
        BY <1>6, <3>1, <3>2 DEF Start, rowVars
    <2>2. QED
      BY <1>0, <1>2, <2>1 DEF Budget, TaskBudget, Current
  <1>7. ASSUME NEW i \in Instances, NEW t \in Topics, Deliver(i, t)
        PROVE Budget'
    <2>1. /\ rows' = rows /\ faults' = faults /\ stream' = stream
          /\ task[i][t] = "idle" /\ task'[i][t] = "save"
          /\ cursor'[i][t] = cursor[i][t] + 1
          /\ cursor[i][t] \in Nat /\ cursor[i][t] < Len(stream[t])
      BY <1>0, <1>7 DEF Deliver, rowVars, WorkTypeOK
    <2>2. \A j \in Instances, u \in Topics : j # i \/ u # t =>
             cursor'[j][u] = cursor[j][u] /\ task'[j][u] = task[j][u]
      BY <1>0, <1>7 DEF Deliver, WorkTypeOK
    <2> DEFINE p == cursor[i][t] + 1
    <2>3. rows[stream[t][p]][i] = 0
      <3>1. stream[t] \in Seq(Requests)
        BY <1>0 DEF WorkTypeOK
      <3>2. p \in 1..Len(stream[t]) /\ stream[t][p] \in Requests
        BY <2>1, <3>1
      <3>3. Call[stream[t][p]].topic = t
        BY <3>2 DEF Safe, StreamInv, OwnTopics
      <3>4. ~OnStream(stream[t][p], cursor[i][t])
        <4> SUFFICES ASSUME NEW q \in 1..cursor[i][t], stream[t][q] = stream[t][p]
                     PROVE FALSE
          BY <3>3 DEF OnStream
        <4>1. q \in 1..Len(stream[t]) /\ q # p
          BY <2>1, <3>1
        <4>2. QED
          BY <3>2, <4>1 DEF Safe, StreamInv, NoRepeats
      <3>5. ~(rows[stream[t][p]][i] > 0)
        BY <3>2, <3>3, <3>4 DEF Safe, ReadInv, Settled
      <3>6. QED
        BY <1>0, <3>2, <3>5
    <2>4. 2 * rows'[stream'[t][cursor'[i][t]]][i] <= faults'
      BY <1>0, <2>1, <2>3
    <2>5. RowsPaidByFaults'
      BY <1>0, <1>2, <2>1
    <2>6. TaskBudget'
      <3> SUFFICES ASSUME NEW j \in Instances, NEW u \in Topics
                   PROVE /\ task'[j][u] = "save"
                              => 2 * rows'[stream'[u][cursor'[j][u]]][j] <= faults'
                         /\ task'[j][u] = "poison"
                              => 2 * rows'[stream'[u][cursor'[j][u]]][j] <= faults' + 1
        BY DEF TaskBudget, Current
      <3>1. CASE j = i /\ u = t
        BY <2>1, <2>4, <3>1
      <3>2. CASE j # i \/ u # t
        BY <1>0, <1>2, <2>1, <2>2, <3>2
      <3>3. QED
        BY <3>1, <3>2
    <2>7. QED
      BY <2>5, <2>6 DEF Budget
  <1>8. ASSUME NEW i \in Instances, NEW t \in Topics, Save(i, t) \/ Poison(i, t)
        PROVE Budget'
    <2> DEFINE m == Current(i, t)
    <2>0. /\ m \in Requests /\ Call[m].topic = t /\ task[i][t] # "idle"
          /\ stream'[t][cursor'[i][t]] = m
          /\ UNCHANGED <<stream, cursor>>
      BY <1>0, <1>1, <1>8, SettleStep, ConsumeTask
    (* Rows, failures and next step of the message in hand.                *)
    <2>1. /\ rows' = rows \/ rows' = [rows EXCEPT ![m][i] = @ + 1]
          /\ faults' \in {faults, faults + 1}
          /\ 2 * rows'[m][i] <= faults' + 2
          /\ task'[i][t] = "save" => 2 * rows'[m][i] <= faults'
          /\ task'[i][t] = "poison" => 2 * rows'[m][i] <= faults' + 1
      <3>1. /\ task[i][t] = "save" => 2 * rows[m][i] <= faults
            /\ task[i][t] = "poison" => 2 * rows[m][i] <= faults + 1
        BY DEF Budget, TaskBudget
      <3>2. rows[m][i] \in Nat
        BY <1>0, <2>0
      <3>3. AddRow(i, m) => /\ rows' = [rows EXCEPT ![m][i] = @ + 1]
                            /\ rows'[m][i] = rows[m][i] + 1
        BY <1>0, <2>0 DEF AddRow
      <3> HIDE DEF m
      <3>4. CASE /\ Save(i, t) /\ AddRow(i, m) /\ faults' = faults
                 /\ task' = [task EXCEPT ![i][t] = "idle"]
        BY <1>0, <3>1, <3>2, <3>3, <3>4 DEF Save, WorkTypeOK
      <3>5. CASE /\ Save(i, t) /\ faults' = faults + 1
                 /\ AddRow(i, m) \/ rows' = rows
                 /\ task' = [task EXCEPT ![i][t] = "poison"]
        <4>1. task'[i][t] = "poison" /\ task[i][t] = "save"
          BY <1>0, <3>5 DEF Save, WorkTypeOK
        <4>2. rows' = rows \/ rows'[m][i] = rows[m][i] + 1
          BY <3>3, <3>5
        <4>3. QED
          BY <1>0, <3>1, <3>2, <3>3, <3>5, <4>1, <4>2
      <3>6. CASE Poison(i, t) /\ PoisonPublished(i, t)
        <4>1. /\ task'[i][t] = "idle" /\ task[i][t] = "poison"
              /\ rows' = rows /\ faults' = faults
          BY <1>0, <3>6 DEF Poison, PoisonPublished, WorkTypeOK
        <4>2. QED
          BY <1>0, <3>1, <3>2, <4>1
      <3>7. CASE Poison(i, t) /\ PoisonFailed(i, t)
        <4>1. /\ task[i][t] = "poison" /\ rows' = rows /\ faults' = faults + 1
          BY <3>7 DEF Poison, PoisonFailed, Fault
        <4>2. task'[i][t] \in {"save", "idle"}
          BY <1>0, <3>7 DEF Poison, PoisonFailed, WorkTypeOK
        <4>3. QED
          BY <1>0, <3>1, <3>2, <4>1, <4>2
      <3>8. QED
        BY <1>8, <3>4, <3>5, <3>6, <3>7 DEF Save, Poison, Fault, m
    <2>2. \A j \in Instances, r \in Requests : j # i \/ r # m =>
             rows'[r][j] = rows[r][j]
      BY <1>0, <2>0, <2>1
    <2>3. \A j \in Instances, u \in Topics : j # i \/ u # t =>
             task'[j][u] = task[j][u]
      BY <1>0, <1>8, ConsumeTask DEF WorkTypeOK
    <2>4. RowsPaidByFaults'
      <3> SUFFICES ASSUME NEW j \in Instances, NEW r \in Requests
                   PROVE 2 * rows'[r][j] <= faults' + 2
        BY DEF RowsPaidByFaults
      <3> HIDE DEF m
      <3>1. CASE j = i /\ r = m
        BY <2>1, <3>1
      <3>2. CASE j # i \/ r # m
        <4>1. rows'[r][j] = rows[r][j] /\ 2 * rows[r][j] <= faults + 2
          BY <2>2, <3>2 DEF Budget, RowsPaidByFaults
        <4>2. rows[r][j] \in Nat /\ faults' >= faults
          BY <1>0, <2>1
        <4>3. QED
          BY <1>0, <1>3, <4>1, <4>2
      <3>3. QED
        BY <3>1, <3>2
    <2>5. TaskBudget'
      <3> SUFFICES ASSUME NEW j \in Instances, NEW u \in Topics, task'[j][u] # "idle"
                   PROVE /\ task'[j][u] = "save"
                              => 2 * rows'[stream'[u][cursor'[j][u]]][j] <= faults'
                         /\ task'[j][u] = "poison"
                              => 2 * rows'[stream'[u][cursor'[j][u]]][j] <= faults' + 1
        BY DEF TaskBudget, Current
      <3>1. CASE j = i /\ u = t
        <4> HIDE DEF m
        <4>1. QED
          BY <2>0, <2>1, <3>1
      <3>2. CASE j # i \/ u # t
        <4>1. /\ Current(j, u) \in Requests
              /\ stream'[u][cursor'[j][u]] = Current(j, u)
              /\ Call[Current(j, u)].topic = u
              /\ task'[j][u] = task[j][u]
          BY <1>1, <2>0, <2>3, <3>2
        <4>2. rows'[Current(j, u)][j] = rows[Current(j, u)][j]
          BY <2>0, <2>2, <3>2, <4>1
        <4>3. /\ task[j][u] = "save" => 2 * rows[Current(j, u)][j] <= faults
              /\ task[j][u] = "poison" => 2 * rows[Current(j, u)][j] <= faults + 1
          BY DEF Budget, TaskBudget
        <4>4. rows[Current(j, u)][j] \in Nat /\ faults' >= faults
          BY <1>0, <2>1, <4>1
        <4>5. QED
          BY <1>0, <1>3, <4>1, <4>2, <4>3, <4>4
      <3>3. QED
        BY <3>1, <3>2
    <2>6. QED
      BY <2>4, <2>5 DEF Budget
  <1>9. QED
    BY <1>0, <1>4, <1>5, <1>6, <1>7, <1>8, ConsumerSteps

(* Each further row of a record from one process costs two failures.       *)
THEOREM DuplicatesArePaid == Spec => []RowsPaidByFaults
  <1>1. Init => Budget
    BY DEF Init, Budget, RowsPaidByFaults, TaskBudget
  <1>2. Budget => RowsPaidByFaults
    BY DEF Budget
  <1>3. QED
    BY <1>1, <1>2, InitSafe, NextSafe, NextBudget, PTL DEF Spec

-------------------------------------------------------------------------------
(* Records belong to known users.                                          *)

Requested(r) == [uid |-> Call[r].uid, name |-> Call[r].name]

Known(r) == \E u \in Selected(r) :
               Call[r].topic = "save_audit_log" => actor[r] = ActorOf(r, u)

(* A handler on its way carries the request's user until it has looked the *)
(* row up, and may publish only once the row is there.                     *)
UserInv == \A r \in Requests :
              /\ pc[r] \in {"new", "find", "create"} => actor[r] = Requested(r)
              /\ pc[r] = "publish" \/ r \in Published => Known(r)

LEMMA KnownStays ==
  ASSUME NEW r \in Requests, Known(r), orgUsers \subseteq orgUsers',
         actor'[r] = actor[r]
  PROVE Known(r)'
  BY DEF Known, Selected, ActorOf

LEMMA PublishedAfter ==
  ASSUME Safe, [Next]_vars, NEW q \in Published'
  PROVE q \in Published \/ \E i \in Instances : Publish(i, q)
  <1>0. /\ WorkTypeOK /\ q \in Requests
        /\ \A t \in Topics : /\ stream[t] \in Seq(Requests)
                             /\ DOMAIN stream[t] = 1..Len(stream[t])
    <2>1. WorkTypeOK /\ q \in Requests
      BY DEF Safe, TypeInv, TypeOK, Published
    <2>2. \A t \in Topics : stream[t] \in Seq(Requests)
      BY <2>1 DEF WorkTypeOK
    <2>3. QED
      BY <2>1, <2>2
  <1>1. CASE stream' = stream
    BY <1>1 DEF Published
  <1>2. ASSUME NEW i \in Instances, NEW r \in Requests, Publish(i, r),
               stream' = [stream EXCEPT ![Call[r].topic] = Append(@, r)]
        PROVE q \in Published \/ Publish(i, q)
    <2>1. PICK t \in Topics : \E p \in DOMAIN stream'[t] : stream'[t][p] = q
      BY DEF Published
    <2>2. CASE t # Call[r].topic
      <3>1. stream'[t] = stream[t]
        BY <1>0, <1>2, <2>2, AppendedAt
      <3>2. QED
        BY <1>0, <2>1, <3>1 DEF Published
    <2>3. CASE t = Call[r].topic
      <3>1. /\ Len(stream[t]) \in Nat /\ Len(stream'[t]) = Len(stream[t]) + 1
            /\ stream'[t][Len(stream[t]) + 1] = r
            /\ \A p \in 1..Len(stream[t]) : stream'[t][p] = stream[t][p]
        BY <1>0, <1>2, <2>3, AppendedAt
      <3>2. DOMAIN stream'[t] = 1..Len(stream'[t])
        <4>1. stream'[t] \in Seq(Requests)
          BY NextWorkTypeOK DEF Safe, WorkTypeOK
        <4>2. QED
          BY <4>1
      <3>3. PICK p \in 1..(Len(stream[t]) + 1) : stream'[t][p] = q
        BY <2>1, <3>1, <3>2
      <3>4. CASE p = Len(stream[t]) + 1
        <4>1. q = r
          BY <3>1, <3>3, <3>4
        <4>2. QED
          BY <1>2, <4>1
      <3>5. CASE p # Len(stream[t]) + 1
        <4>1. p \in 1..Len(stream[t]) /\ stream[t][p] = q
          BY <3>1, <3>3, <3>5
        <4>2. QED
          BY <1>0, <4>1 DEF Published
      <3>6. QED
        BY <3>4, <3>5
    <2>4. QED
      BY <2>2, <2>3
  <1>3. QED
    BY <1>1, <1>2, OnlyPublishWrites

LEMMA NextUserInv == Safe /\ UserInv /\ [Next]_vars => UserInv'
  <1> SUFFICES ASSUME Safe, UserInv, [Next]_vars, NEW q \in Requests
               PROVE /\ pc'[q] \in {"new", "find", "create"}
                          => actor'[q] = Requested(q)
                     /\ pc'[q] = "publish" \/ q \in Published' => Known(q)'
    BY DEF UserInv, Requested
  <1> DEFINE Goal == /\ pc'[q] \in {"new", "find", "create"}
                          => actor'[q] = Requested(q)
                     /\ pc'[q] = "publish" \/ q \in Published' => Known(q)'
  <1>0. /\ pc \in [Requests -> {"new"} \union Running \union Answered]
        /\ actor \in [Requests -> Users]
    BY DEF Safe, TypeInv, TypeOK, ServerTypeOK
  <1>1. q \in Published => pc[q] \in {"accepted", "failed"}
    BY SafePublishedOnce DEF PublishedOnce
  <1>2. /\ pc[q] \in {"new", "find", "create"} => actor[q] = Requested(q)
        /\ pc[q] = "publish" \/ q \in Published => Known(q)
    BY DEF UserInv
  (* Steps of other requests, and steps that only end this one.            *)
  <1>3. ASSUME pc'[q] = pc[q] \/ pc'[q] \in Answered,
               q \in Published' => q \in Published \/ pc[q] = "publish",
               actor'[q] = actor[q], orgUsers \subseteq orgUsers'
        PROVE Goal
    <2>1. pc'[q] \in {"new", "find", "create", "publish"} => pc'[q] = pc[q]
      BY <1>3 DEF Answered
    <2>2. Known(q) => Known(q)'
      BY <1>3, KnownStays
    <2>3. QED
      BY <1>2, <1>3, <2>1, <2>2
  <1>4. q \in Published' => q \in Published \/ pc[q] = "publish"
    BY PublishedAfter DEF Publish
  <1>5. ASSUME NEW i \in Instances, NEW r \in Requests, Receive(i, r)
        PROVE Goal
    <2>1. /\ actor' = actor /\ orgUsers' = orgUsers /\ pc[r] = "new"
          /\ pc' = [pc EXCEPT ![r] = "find"] \/ pc' = [pc EXCEPT ![r] = "rejected"]
      BY <1>5 DEF Receive, Answer
    <2>2. CASE q = r
      <3>1. pc'[q] # "publish" /\ q \notin Published'
        BY <1>0, <1>1, <1>4, <2>1, <2>2
      <3>2. QED
        BY <1>2, <2>1, <2>2, <3>1
    <2>3. CASE q # r
      BY <1>0, <1>3, <1>4, <2>1, <2>3
    <2>4. QED
      BY <2>2, <2>3
  <1>6. ASSUME NEW i \in Instances, NEW r \in Requests, FindOrgUser(i, r)
        PROVE Goal
    <2>1. CASE q # r
      <3>1. /\ pc'[q] = pc[q] /\ actor'[q] = actor[q] /\ orgUsers' = orgUsers
        BY <1>0, <1>6, <2>1 DEF FindOrgUser, Missing, Answer
      <3>2. QED
        BY <1>3, <1>4, <3>1
    <2>2. CASE q = r
      <3>1. pc[q] = "find" /\ orgUsers' = orgUsers /\ q \notin Published'
        BY <1>1, <1>4, <1>6, <2>2 DEF FindOrgUser
      <3>2. ASSUME NEW u \in Selected(q), actor'[q] = ActorOf(q, u),
                   pc'[q] = "publish"
            PROVE Goal
        BY <3>1, <3>2 DEF Known, Selected, ActorOf
      <3>3. CASE pc'[q] \in {"create", "failed"} /\ actor' = actor
        BY <1>2, <3>1, <3>3
      <3>4. \/ pc'[q] \in {"create", "failed"} /\ actor' = actor
            \/ /\ pc'[q] = "publish"
               /\ \E u \in Selected(q) : actor'[q] = ActorOf(q, u)
        BY <1>0, <1>6, <2>2 DEF FindOrgUser, Missing, Answer
      <3>5. QED
        BY <3>2, <3>3, <3>4
    <2>3. QED
      BY <2>1, <2>2
  <1>7. ASSUME NEW i \in Instances, NEW r \in Requests, CreateOrgUser(i, r)
        PROVE Goal
    <2> DEFINE row == [org |-> Call[r].org, uid |-> Call[r].uid,
                       name |-> Call[r].name, by |-> r]
    <2>1. /\ actor' = actor /\ pc[r] = "create"
          /\ orgUsers' \in {orgUsers, orgUsers \union {row}}
          /\ \/ pc' = [pc EXCEPT ![r] = "publish"]
                  /\ orgUsers' = orgUsers \union {row}
             \/ pc' = [pc EXCEPT ![r] = "failed"]
      BY <1>7 DEF CreateOrgUser, Answer
    <2>2. CASE q # r
      BY <1>0, <1>3, <1>4, <2>1, <2>2
    <2>3. CASE q = r
      <3>1. q \notin Published' /\ actor'[q] = Requested(q)
        BY <1>1, <1>2, <1>4, <2>1, <2>3
      <3>2. CASE pc'[q] = "publish"
        <4>1. row \in orgUsers'
          BY <1>0, <2>1, <2>3, <3>2
        <4>2. /\ row.org = Call[q].org /\ row.uid = Call[q].uid
              /\ row.name = Call[q].name
          BY <2>3
        <4> HIDE DEF row
        <4>3. row \in Selected(q)'
          BY <4>1, <4>2 DEF Selected, FindName
        <4>4. actor'[q] = ActorOf(q, row)
          BY <3>1, <4>2 DEF Requested, ActorOf
        <4>5. Known(q)'
          BY <4>3, <4>4 DEF Known, ActorOf
        <4>6. QED
          BY <3>2, <4>5
      <3>3. CASE pc'[q] = "failed"
        BY <3>1, <3>3
      <3>4. QED
        BY <1>0, <2>1, <2>3, <3>2, <3>3
    <2>4. QED
      BY <2>2, <2>3
  <1>8. ASSUME NEW i \in Instances, NEW r \in Requests, Publish(i, r)
        PROVE Goal
    <2>1. /\ actor' = actor /\ orgUsers' = orgUsers
          /\ pc'[q] = pc[q] \/ pc'[q] \in Answered
      BY <1>0, <1>8 DEF Publish, Answer, Answered
    <2>2. QED
      BY <1>3, <1>4, <2>1
  <1>9. ASSUME NEW i \in Instances, Stop(i)
        PROVE Goal
    <2>1. /\ actor' = actor /\ orgUsers' = orgUsers
          /\ pc'[q] = pc[q] \/ pc'[q] \in Answered
      BY <1>9 DEF Stop, Answered
    <2>2. QED
      BY <1>3, <1>4, <2>1
  <1>10. CASE UNCHANGED <<serving, pc, actor, orgUsers>>
    BY <1>3, <1>4, <1>10
  <1>11. QED
    BY <1>5, <1>6, <1>7, <1>8, <1>9, <1>10, OtherSteps

(* Whatever fails or stops on the way, a record on the stream belongs to a *)
(* user its organization knows.                                            *)
THEOREM UsersAreKnown == Spec => []UserKnown
  <1>1. Init => UserInv
    <2> SUFFICES ASSUME Init, NEW r \in Requests
                 PROVE /\ actor[r] = Requested(r)
                       /\ pc[r] # "publish" /\ r \notin Published
      BY DEF UserInv
    <2>1. QED
      BY DEF Init, Requested, Published
  <1>2. UserInv => UserKnown
    BY DEF UserInv, UserKnown, Published, Known
  <1>3. QED
    BY <1>1, <1>2, InitSafe, NextSafe, NextUserInv, PTL DEF Spec
===============================================================================
