------------------------ MODULE CleanReconcileProofs ------------------------
(***************************************************************************)
(* Proofs about reconciles that are not cut short: no call fails, and a    *)
(* failing pod reports one container, whose logs can be read.  For any     *)
(* releases, pods, messages and texts, any number of events, and for       *)
(* incidents that are made again in their second of creation.              *)
(***************************************************************************)
EXTENDS ReconcilerProofs

Clean ==
  /\ ~Fallible
  /\ \A c, d \in Container : c = d
  /\ LogReply \cap {Unavailable, StreamError} = {}

(* Only a reconcile that records goes on with an incident it made.          *)
NewWhileRecording ==
  /\ newIncident => pc[Worker] \in RecordLabel
  /\ pc[Worker] \in {"expireEvents", "expirePods", "announce"} => newIncident

(* An incident that was not made by this reconcile exists.                  *)
OldExists == pc[Worker] \in RecordLabel /\ ~newIncident => IncidentExists(mine)

(* The active incident exists, or is the one to get its first event.        *)
ActiveRecorded ==
  \A r \in Release : active[r] # None =>
    \/ IncidentExists(active[r])
    \/ newIncident /\ pc[Worker] \in {"dedup", "logs"} /\ active[r] = mine

(* Logs come just before the event they belong to.                          *)
LogsRecorded ==
  \A i \in Incident : logs[i] # None =>
    IncidentExists(i) \/ (at("logs") /\ unlogged = {} /\ i = mine)

(* An incident that exists is announced, or is on the way to it.            *)
Announced ==
  \A i \in Incident : IncidentExists(i) =>
    \/ [kind |-> "new", incident |-> i] \in queued
    \/ /\ newIncident /\ i = mine
       /\ pc[Worker] \in {"expireEvents", "addPod", "expirePods", "announce"}

Expiring ==
  \A i \in Incident : IncidentExists(i) =>
    "events" \in expiring[i] \/ (at("expireEvents") /\ i = mine)

(* One that is announced is active, resolved, or on the way to it.          *)
Resolving ==
  /\ \A i \in Incident : [kind |-> "new", incident |-> i] \in queued =>
       \/ active[i.release] = i
       \/ [kind |-> "resolved", incident |-> i] \in queued
       \/ at("queueResolved") /\ i = mine
  /\ at("queueResolved") => active[mine.release] # mine

CleanInv ==
  /\ OngoingInv /\ EventsInv
  /\ NewWhileRecording /\ OldExists /\ ActiveRecorded /\ LogsRecorded /\ Announced /\ Expiring
  /\ Resolving

----------------------------------------------------------------------------
(* A step that leaves the incidents, their logs and the notifications       *)
(* alone, and after which the worker records nothing and has nothing to     *)
(* queue: what was on its way has to be done.                               *)
LEMMA StopsClean ==
  ASSUME CleanInv, OngoingInv', EventsInv', UNCHANGED <<active, events, logs, queued>>,
         newIncident' = FALSE,
         pc'[Worker] \notin RecordLabel \cup {"queueResolved"},
         \A i \in Incident : "events" \in expiring[i] => "events" \in expiring'[i],
         pc[Worker] \notin {"expireEvents", "expirePods", "announce", "queueResolved"},
         newIncident => IncidentExists(mine) /\ [kind |-> "new", incident |-> mine] \in queued
  PROVE  CleanInv'
<1>1. "announce" \in RecordLabel /\ "expireEvents" \in RecordLabel /\ "logs" \in RecordLabel
      /\ "expirePods" \in RecordLabel
  BY DEF RecordLabel
<1>2. NewWhileRecording' /\ OldExists' /\ Resolving'
  BY <1>1 DEF CleanInv, NewWhileRecording, OldExists, Resolving, at
<1>3. ActiveRecorded' /\ Announced' /\ Expiring'
  BY DEF CleanInv, ActiveRecorded, Announced, Expiring, IncidentExists, at
<1>4. LogsRecorded'
  <2>1. at("logs") => IncidentExists(mine)
    BY <1>1 DEF CleanInv, OldExists, at
  <2> QED
    BY <2>1 DEF CleanInv, LogsRecorded, IncidentExists
<1> QED
  BY <1>2, <1>3, <1>4 DEF CleanInv

LEMMA CleanFrame ==
  ASSUME CleanInv
  PROVE  /\ TypeOK /\ FrameTypeOK /\ DataTypeOK
         /\ pc[Worker] \notin RecordLabel => newIncident = FALSE
  BY DEF CleanInv, OngoingInv, TypeOK, StoreTypeOK, WorkerTypeOK, NewWhileRecording

LEMMA ResolveClean ==
  ASSUME CleanInv, OngoingInv', EventsInv', ResolveStep(Worker), UNCHANGED workerVars
  PROVE  CleanInv'
<1>1. {"removePod", "checkPods", "deletePods", "deleteActive", "queueResolved"} \subseteq Label
  BY DEF Label, ResolveLabel
<1>2. pc[Worker] \in ResolveLabel /\ pc[Worker] \notin RecordLabel
  BY DEF ResolveStep, SetPodResolved, RemovePod, CheckPods, SetJobIncidentResolved,
         DeletePods, DeleteActive, QueueResolved, ResolveLabel, RecordLabel
<1>3. newIncident = FALSE /\ newIncident' = FALSE /\ FrameTypeOK /\ DataTypeOK
  BY <1>2, CleanFrame DEF workerVars
<1>4. mine \in Incident /\ mine.release \in Release
  BY <1>2, <1>3, WorkerIsGoroutine DEF FrameTypeOK, mine, Incident
<1>5. CASE \/ SetPodResolved(Worker) \/ RemovePod(Worker) \/ CheckPods(Worker)
           \/ SetJobIncidentResolved(Worker) \/ DeletePods(Worker)
  <2>1. UNCHANGED <<active, events, logs, queued>>
    BY <1>5 DEF SetPodResolved, RemovePod, CheckPods, SetJobIncidentResolved, DeletePods, dataVars,
                queueVars
  <2>2. \A i \in Incident : "events" \in expiring[i] => "events" \in expiring'[i]
    BY <1>3, <1>5 DEF SetPodResolved, RemovePod, CheckPods, SetJobIncidentResolved, DeletePods, dataVars,
                      SetPods, DataTypeOK
  <2>3. pc'[Worker] \in {"idle", "removePod", "checkPods", "deletePods", "deleteActive"}
    BY <1>1, <1>3, <1>5, GotoFrame, ReturnFrame
       DEF SetPodResolved, RemovePod, CheckPods, SetJobIncidentResolved, DeletePods
  <2>4. pc[Worker] # "queueResolved"
    BY <1>5 DEF SetPodResolved, RemovePod, CheckPods, SetJobIncidentResolved, DeletePods
  <2>5. pc'[Worker] \notin RecordLabel \cup {"queueResolved"}
        /\ pc[Worker] \notin {"expireEvents", "expirePods", "announce", "queueResolved"}
    BY <1>2, <2>3, <2>4 DEF RecordLabel
  <2> QED
    BY <1>3, <2>1, <2>2, <2>5, StopsClean
<1>6. CASE DeleteActive(Worker)
  <2>1. /\ UNCHANGED <<events, logs, expiring, queued>>
        /\ active' = [active EXCEPT ![mine.release] = None]
        /\ pc'[Worker] = "queueResolved" /\ mine' = mine /\ pc[Worker] = "deleteActive"
    BY <1>1, <1>3, <1>6, GotoFrame DEF DeleteActive, queueVars, mine
  <2>2. \A r \in Release : active'[r] = IF r = mine.release THEN None ELSE active[r]
    BY <1>3, <2>1 DEF DataTypeOK
  <2>3. NewWhileRecording' /\ OldExists'
    BY <1>3, <2>1 DEF NewWhileRecording, OldExists, RecordLabel
  <2>4. ActiveRecorded' /\ LogsRecorded' /\ Announced' /\ Expiring'
    BY <1>3, <2>1, <2>2
       DEF CleanInv, ActiveRecorded, LogsRecorded, Announced, Expiring, IncidentExists, at
  <2>5. Resolving'
    <3>1. \A i \in Incident : i.release = mine.release /\ active[i.release] = i => i = mine
      BY <2>1 DEF CleanInv, OngoingInv, WorksOnActive, ResolveLabel
    <3> QED
      BY <1>4, <2>1, <2>2, <3>1, StoreAssumption DEF CleanInv, Resolving, at, Incident
  <2> QED
    BY <2>3, <2>4, <2>5 DEF CleanInv
<1>7. CASE QueueResolved(Worker)
  <2>1. /\ UNCHANGED <<active, events, logs, expiring>>
        /\ queued' = queued \cup {[kind |-> "resolved", incident |-> mine]}
        /\ pc'[Worker] = "idle" /\ pc[Worker] = "queueResolved"
    BY <1>3, <1>7, ReturnFrame DEF QueueResolved, AppendToNotifyWorkQueue, dataVars, mine
  <2>2. NewWhileRecording' /\ OldExists'
    BY <1>3, <2>1 DEF NewWhileRecording, OldExists, RecordLabel
  <2>3. ActiveRecorded' /\ LogsRecorded' /\ Announced' /\ Expiring'
    BY <1>3, <2>1
       DEF CleanInv, ActiveRecorded, LogsRecorded, Announced, Expiring, IncidentExists, at
  <2>4. Resolving'
    BY <2>1 DEF CleanInv, Resolving, at
  <2> QED
    BY <2>2, <2>3, <2>4 DEF CleanInv
<1> QED
  BY <1>5, <1>6, <1>7 DEF ResolveStep

LEMMA BeginClean ==
  ASSUME CleanInv, OngoingInv', EventsInv', GetActiveIncident \/ CreateActiveIncident
  PROVE  CleanInv'
<1>1. TypeOK /\ FrameTypeOK /\ DataTypeOK /\ "dedup" \in Label /\ "dedup" \in RecordLabel
  BY CleanFrame DEF Label, RecordLabel
<1>2. pc[Worker] = "failing" /\ newIncident = FALSE /\ UNCHANGED <<events, logs, expiring, queued>>
  BY CleanFrame DEF GetActiveIncident, CreateActiveIncident, at, RecordLabel, dataVars, queueVars
<1>3. myPod \in Pod /\ myRelease \in Release
  BY <1>1, <1>2, PodFrame DEF at
<1>4. CASE GetActiveIncident
  <2>1. active[myRelease] # None /\ newIncident' = FALSE /\ UNCHANGED active
    BY <1>2, <1>4 DEF GetActiveIncident, dataVars, workerVars
  <2>2. active[myRelease] \in Incident
    BY <1>1, <1>3, <2>1 DEF DataTypeOK
  <2>3. pc'[Worker] = "dedup" /\ mine' = active[myRelease]
    BY <1>1, <1>3, <1>4, <2>2, CallFrame DEF GetActiveIncident
  <2>4. NewWhileRecording' /\ OldExists'
    BY <1>2, <1>3, <2>1, <2>3
       DEF CleanInv, NewWhileRecording, OldExists, ActiveRecorded, IncidentExists
  <2>5. ActiveRecorded' /\ LogsRecorded' /\ Announced' /\ Expiring' /\ Resolving'
    BY <1>2, <2>1, <2>3
       DEF CleanInv, ActiveRecorded, LogsRecorded, Announced, Expiring, Resolving, IncidentExists, at
  <2> QED
    BY <2>4, <2>5 DEF CleanInv
<1>5. CASE CreateActiveIncident
  <2>1. Created(now) \in Incident /\ Created(now).release = myRelease
    BY <1>1, <1>3 DEF Created, Incident, TypeOK, ClusterTypeOK
  <2>2. /\ newIncident' = TRUE /\ active[myRelease] = None
        /\ active' = [active EXCEPT ![myRelease] = Created(now)]
    BY <1>5 DEF CreateActiveIncident
  <2>3. pc'[Worker] = "dedup" /\ mine' = Created(now)
    BY <1>1, <1>3, <1>5, <2>1, CallFrame DEF CreateActiveIncident
  <2>4. \A r \in Release : active'[r] = IF r = myRelease THEN Created(now) ELSE active[r]
    BY <1>1, <1>3, <2>2 DEF DataTypeOK
  <2>5. NewWhileRecording' /\ OldExists' /\ ActiveRecorded'
    BY <1>1, <1>2, <2>2, <2>3, <2>4
       DEF CleanInv, NewWhileRecording, OldExists, ActiveRecorded, IncidentExists
  <2>6. LogsRecorded' /\ Announced' /\ Expiring'
    BY <1>2, <2>3 DEF CleanInv, LogsRecorded, Announced, Expiring, IncidentExists, at
  <2>7. Resolving'
    <3>1. \A i \in Incident : active[i.release] = i => i.release # myRelease
      BY <2>2, StoreAssumption
    <3> QED
      BY <1>2, <2>3, <2>4, <3>1 DEF CleanInv, Resolving, at, Incident
  <2> QED
    BY <2>5, <2>6, <2>7 DEF CleanInv
<1> QED
  BY <1>4, <1>5

LEMMA CheckClean ==
  ASSUME CleanInv, OngoingInv', EventsInv', CheckDuplicate
  PROVE  CleanInv'
<1>1. TypeOK /\ FrameTypeOK /\ DataTypeOK /\ "logs" \in Label
  BY CleanFrame DEF Label, RecordLabel
<1>2. pc[Worker] = "dedup" /\ mine \in Incident
  BY <1>1, RecordFrame DEF CheckDuplicate, at, RecordLabel
<1>3. UNCHANGED <<active, events, logs, expiring, queued>>
  BY DEF CheckDuplicate, dataVars, queueVars
<1>4. CASE IncidentExists(mine) /\ EndReconcile
  <2>1. pc'[Worker] = "idle" /\ newIncident' = FALSE
    BY <1>1, <1>4, ReturnFrame DEF EndReconcile
  <2>2. [kind |-> "new", incident |-> mine] \in queued
    BY <1>2, <1>4 DEF CleanInv, Announced
  <2> QED
    BY <1>2, <1>3, <1>4, <2>1, <2>2, StopsClean DEF RecordLabel
<1>5. CASE Goto(Worker, "logs") /\ UNCHANGED newIncident
  <2>1. pc'[Worker] = "logs" /\ mine' = mine
    BY <1>1, <1>5, GotoFrame
  <2>2. NewWhileRecording' /\ OldExists' /\ ActiveRecorded'
    BY <1>2, <1>3, <1>5, <2>1
       DEF CleanInv, NewWhileRecording, OldExists, ActiveRecorded, IncidentExists, RecordLabel
  <2>3. LogsRecorded' /\ Announced' /\ Expiring' /\ Resolving'
    BY <1>2, <1>3, <1>5, <2>1
       DEF CleanInv, LogsRecorded, Announced, Expiring, Resolving, IncidentExists, at
  <2> QED
    BY <2>2, <2>3 DEF CleanInv
<1> QED
  BY <1>4, <1>5 DEF CheckDuplicate

(* With one container whose logs can be read, only logs that were seen      *)
(* before end a reconcile: those of an incident that exists.                *)
LEMMA FetchClean ==
  ASSUME Clean, CleanInv, OngoingInv', EventsInv', NEW c \in Container, FetchLogs(c)
  PROVE  CleanInv'
<1>1. TypeOK /\ FrameTypeOK /\ DataTypeOK
  BY CleanFrame
<1>2. pc[Worker] = "logs" /\ mine \in Incident /\ c \in unlogged
  BY <1>1, RecordFrame DEF FetchLogs, at, RecordLabel
<1>3. unlogged \subseteq {c}
  BY <1>1 DEF TypeOK, WorkerTypeOK, Clean
<1>4. UNCHANGED <<active, events, queued>>
  BY DEF FetchLogs, queueVars
<1>5. logs[mine] # None => IncidentExists(mine)
  BY <1>2 DEF CleanInv, LogsRecorded
<1>6. PICK reply \in LogReply :
        \/ /\ EndsReconcile(reply)
           /\ EndReconcile
           /\ UNCHANGED <<logs, expiring>>
        \/ /\ Continues(reply)
           /\ IF reply = NoLogs THEN UNCHANGED <<logs, expiring>> ELSE AddLogs(mine, reply)
           /\ unlogged' = unlogged \ {c}
           /\ UNCHANGED <<frameVars, message, newIncident>>
  BY DEF FetchLogs
<1>7. CASE EndsReconcile(reply) /\ EndReconcile /\ UNCHANGED <<logs, expiring>>
  <2>1. IncidentExists(mine)
    BY <1>5, <1>7, ReconcilerAssumption DEF EndsReconcile, Clean
  <2>2. pc'[Worker] = "idle" /\ newIncident' = FALSE
    BY <1>1, <1>7, ReturnFrame DEF EndReconcile
  <2>3. [kind |-> "new", incident |-> mine] \in queued
    BY <1>2, <2>1 DEF CleanInv, Announced
  <2> QED
    BY <1>2, <1>4, <1>7, <2>1, <2>2, <2>3, StopsClean DEF RecordLabel
<1>8. CASE /\ IF reply = NoLogs THEN UNCHANGED <<logs, expiring>> ELSE AddLogs(mine, reply)
           /\ unlogged' = unlogged \ {c}
           /\ UNCHANGED <<frameVars, message, newIncident>>
  <2>1. pc'[Worker] = "logs" /\ mine' = mine /\ unlogged' = {}
    BY <1>2, <1>3, <1>8 DEF frameVars, mine
  <2>2. \A i \in Incident : i # mine => logs'[i] = logs[i]
    BY <1>1, <1>8 DEF AddLogs, DataTypeOK
  <2>3. \A i \in Incident : expiring[i] \subseteq expiring'[i]
    BY <1>1, <1>8 DEF AddLogs, DataTypeOK
  <2>4. NewWhileRecording' /\ OldExists' /\ ActiveRecorded'
    BY <1>2, <1>4, <1>8, <2>1
       DEF CleanInv, NewWhileRecording, OldExists, ActiveRecorded, IncidentExists
  <2>5. LogsRecorded'
    BY <1>2, <1>4, <2>1, <2>2 DEF CleanInv, LogsRecorded, IncidentExists, at
  <2>6. Announced' /\ Expiring' /\ Resolving'
    BY <1>2, <1>4, <1>8, <2>1, <2>3 DEF CleanInv, Announced, Expiring, Resolving, IncidentExists, at
  <2> QED
    BY <2>4, <2>5, <2>6 DEF CleanInv
<1> QED
  BY <1>6, <1>7, <1>8

LEMMA AddEventClean ==
  ASSUME CleanInv, OngoingInv', EventsInv', AddEventToIncident
  PROVE  CleanInv'
<1>1. TypeOK /\ FrameTypeOK /\ DataTypeOK /\ "expireEvents" \in Label /\ "addPod" \in Label
  BY CleanFrame DEF Label, RecordLabel
<1>2. pc[Worker] = "logs" /\ mine \in Incident
  BY <1>1, RecordFrame DEF AddEventToIncident, at, RecordLabel
<1>3. UNCHANGED <<active, logs, expiring, queued>>
  BY DEF AddEventToIncident, queueVars
<1>4. ~newIncident => /\ IncidentExists(mine)
                      /\ [kind |-> "new", incident |-> mine] \in queued
  BY <1>2 DEF CleanInv, OldExists, Announced, RecordLabel
<1>5. CASE AtCap
  <2>1. pc'[Worker] = "idle" /\ newIncident' = FALSE /\ UNCHANGED events /\ ~newIncident
    BY <1>1, <1>5, ReturnFrame DEF AddEventToIncident, EndReconcile, AtCap
  <2> QED
    BY <1>2, <1>3, <1>4, <2>1, StopsClean DEF RecordLabel
<1>6. CASE ~AtCap
  <2>1. /\ pc'[Worker] = IF newIncident THEN "expireEvents" ELSE "addPod"
        /\ mine' = mine /\ newIncident' = newIncident
    BY <1>1, <1>6, GotoFrame DEF AddEventToIncident, workerVars
  <2>2. /\ \A i \in Incident : i # mine => events'[i] = events[i]
        /\ IncidentExists(mine)'
    BY <1>1, <1>2, <1>6, <2>1 DEF AddEventToIncident, IncidentExists, DataTypeOK
  <2>3. \A i \in Incident : IncidentExists(i) => IncidentExists(i)'
    BY <2>1, <2>2 DEF IncidentExists
  <2>4. active' = active /\ \A r \in Release : active[r] # None => active[r] \in Incident
    BY <1>1, <1>3 DEF DataTypeOK
  <2>5. NewWhileRecording' /\ OldExists' /\ ActiveRecorded'
    BY <1>2, <2>1, <2>2, <2>3, <2>4
       DEF CleanInv, NewWhileRecording, OldExists, ActiveRecorded, RecordLabel, IncidentExists
  <2>6. LogsRecorded'
    BY <1>2, <1>3, <2>1, <2>2, <2>3 DEF CleanInv, LogsRecorded, IncidentExists, at
  <2>7. Announced'
    BY <1>2, <1>3, <1>4, <2>1, <2>2 DEF CleanInv, Announced, IncidentExists
  <2>8. Expiring' /\ Resolving'
    BY <1>2, <1>3, <1>4, <2>1, <2>2 DEF CleanInv, Expiring, Resolving, IncidentExists, at
  <2> QED
    BY <2>5, <2>6, <2>7, <2>8 DEF CleanInv
<1> QED
  BY <1>5, <1>6

LEMMA FinishClean ==
  ASSUME CleanInv, OngoingInv', EventsInv', ExpireEvents \/ AddPod \/ ExpirePods \/ Announce
  PROVE  CleanInv'
<1>1. TypeOK /\ FrameTypeOK /\ DataTypeOK /\ {"addPod", "expirePods", "announce"} \subseteq Label
  BY CleanFrame DEF Label, RecordLabel
<1>2. mine \in Incident /\ UNCHANGED <<active, events, logs>>
  BY <1>1, RecordFrame DEF ExpireEvents, AddPod, ExpirePods, Announce, at, RecordLabel, dataVars
<1>3. IncidentExists(mine)
  BY DEF CleanInv, EventsInv, KnowsEvents, Knowing, ExpireEvents, AddPod, ExpirePods, Announce, at
<1>4. CASE ExpireEvents \/ ExpirePods \/ (AddPod /\ newIncident)
  <2>1. /\ newIncident /\ newIncident' /\ UNCHANGED queued /\ mine' = mine
        /\ \/ pc[Worker] = "expireEvents" /\ pc'[Worker] = "addPod" /\ ExpireEvents
           \/ pc[Worker] = "addPod" /\ pc'[Worker] = "expirePods"
           \/ pc[Worker] = "expirePods" /\ pc'[Worker] = "announce"
    BY <1>1, <1>4, GotoFrame
       DEF CleanInv, NewWhileRecording, ExpireEvents, AddPod, ExpirePods, at, queueVars, workerVars
  <2>2. /\ \A i \in Incident : "events" \in expiring[i] => "events" \in expiring'[i]
        /\ pc[Worker] = "expireEvents" => "events" \in expiring'[mine]
    BY <1>1, <1>2, <1>4, <2>1 DEF ExpireEvents, AddPod, ExpirePods, SetPods, DataTypeOK
  <2>3. NewWhileRecording' /\ OldExists' /\ ActiveRecorded'
    BY <1>2, <1>3, <2>1
       DEF CleanInv, NewWhileRecording, OldExists, ActiveRecorded, RecordLabel, IncidentExists
  <2>4. LogsRecorded' /\ Announced' /\ Expiring' /\ Resolving'
    BY <1>2, <1>3, <2>1, <2>2
       DEF CleanInv, LogsRecorded, Announced, Expiring, Resolving, IncidentExists, at
  <2> QED
    BY <2>3, <2>4 DEF CleanInv
<1>5. CASE AddPod /\ ~newIncident
  <2>1. pc[Worker] = "addPod" /\ pc'[Worker] = "idle" /\ newIncident' = FALSE /\ UNCHANGED queued
    BY <1>1, <1>5, ReturnFrame DEF AddPod, at, queueVars, EndReconcile
  <2>2. \A i \in Incident : "events" \in expiring[i] => "events" \in expiring'[i]
    BY <1>1, <1>5 DEF AddPod, SetPods, DataTypeOK
  <2> QED
    BY <1>2, <1>5, <2>1, <2>2, StopsClean DEF RecordLabel
<1>6. CASE Announce
  <2>1. /\ pc[Worker] = "announce" /\ pc'[Worker] = "idle" /\ newIncident' = FALSE
        /\ UNCHANGED expiring
        /\ queued' = queued \cup {[kind |-> "new", incident |-> mine]}
    BY <1>1, <1>6, ReturnFrame DEF Announce, at, dataVars, EndReconcile, AppendToNotifyWorkQueue
  <2>2. NewWhileRecording' /\ OldExists'
    BY <2>1 DEF NewWhileRecording, OldExists, RecordLabel
  <2>3. ActiveRecorded' /\ LogsRecorded' /\ Announced' /\ Expiring'
    BY <1>2, <2>1 DEF CleanInv, ActiveRecorded, LogsRecorded, Announced, Expiring, IncidentExists, at
  <2>4. active[mine.release] = mine
    <3>1. active[myRelease] = mine /\ myRelease \in Release /\ mine # None
      BY <1>1, <1>2, <2>1, PodFrame, StoreAssumption
         DEF CleanInv, OngoingInv, WorksOnActive, RecordLabel, at
    <3> QED
      BY <3>1 DEF CleanInv, OngoingInv, ActiveOfRelease
  <2>5. Resolving'
    <3> SUFFICES ASSUME NEW i \in Incident, [kind |-> "new", incident |-> i] \in queued'
                 PROVE  active[i.release] = i \/ [kind |-> "resolved", incident |-> i] \in queued
      BY <1>2, <2>1 DEF Resolving, at
    <3>1. i = mine \/ [kind |-> "new", incident |-> i] \in queued
      BY <2>1
    <3> QED
      BY <2>1, <2>4, <3>1 DEF CleanInv, Resolving, at
  <2> QED
    BY <2>2, <2>3, <2>5 DEF CleanInv
<1> QED
  BY <1>4, <1>5, <1>6

LEMMA NextClean ==
  ASSUME Clean, CleanInv, [Next]_vars
  PROVE  CleanInv'
<1>1. OngoingInv' /\ EventsInv' /\ FrameTypeOK
  BY NextOngoing, NextEvents, CleanFrame DEF CleanInv
<1>2. CASE UNCHANGED <<storeVars, workerVars>>
  BY <1>1, <1>2
     DEF CleanInv, NewWhileRecording, OldExists, ActiveRecorded, LogsRecorded, Announced, Expiring,
         Resolving, IncidentExists, at, mine, storeVars, dataVars, queueVars, frameVars, workerVars
<1>3. ASSUME pc[Worker] \in {"idle", "healthy", "failing"}, UNCHANGED <<dataVars, queueVars>>,
             newIncident' \in {newIncident, FALSE},
             pc'[Worker] \in {"idle", "healthy", "failing", "podResolved", "jobResolved"}
      PROVE  CleanInv'
  <2>1. newIncident = FALSE /\ newIncident' = FALSE
    BY <1>3, CleanFrame DEF RecordLabel
  <2> QED
    BY <1>1, <1>3, <2>1, StopsClean DEF dataVars, queueVars, RecordLabel
<1>4. CASE \E p \in Pod : Reconcile(p)
  <2>1. pc'[Worker] \in {"healthy", "failing"}
    BY <1>1, <1>4, WorkerIsGoroutine DEF Reconcile, FrameTypeOK
  <2> QED
    BY <1>3, <1>4, <2>1 DEF Reconcile, at
<1>5. CASE ResolveHealthy
  <2>1. pc'[Worker] \in {"idle", "jobResolved", "podResolved"}
    <3>1. CASE Return(Worker)
      BY <1>1, <3>1, ReturnFrame
    <3>2. ASSUME NEW method \in {"jobResolved", "podResolved"},
                 Call(Worker, method, active[myRelease], myPod)
          PROVE  pc'[Worker] = method
      BY <1>1, <3>2, WorkerIsGoroutine DEF Call, FrameTypeOK
    <3> QED
      BY <1>5, <3>1, <3>2 DEF ResolveHealthy
  <2> QED
    BY <1>3, <1>5, <2>1 DEF ResolveHealthy, at, workerVars
<1>6. CASE IgnoreMultipodDeployment
  BY <1>1, <1>3, <1>6, ReturnFrame DEF IgnoreMultipodDeployment, at, EndReconcile
<1>7. CASE RecordStep
  BY <1>1, <1>6, <1>7, BeginClean, CheckClean, FetchClean, AddEventClean, FinishClean DEF RecordStep
<1> QED
  BY <1>1, <1>2, <1>4, <1>5, <1>7, ResolveClean DEF Next, WorkerStep, AbortReconcile, Clean, vars

LEMMA InitClean ==
  ASSUME Init
  PROVE  CleanInv
<1>1. TypeOK /\ pc[Worker] = "idle" /\ newIncident = FALSE
  BY InitTypeOK, WorkerIsGoroutine DEF Init, StoreInit, ReconcilerInit
<1>2. OngoingInv
  BY <1>1 DEF Init, StoreInit, OngoingInv, ActiveOfRelease, WorksOnActive, DropsHealthy, OngoingIsActive,
              RecordLabel, ResolveLabel
<1>3. EventsInv
  BY <1>1 DEF Init, StoreInit, EventsInv, KnowsEvents, Knowing, NoticesHaveEvents, AffectedHaveEvents
<1> QED
  BY <1>1, <1>2, <1>3
     DEF Init, StoreInit, CleanInv, NewWhileRecording, OldExists, ActiveRecorded, LogsRecorded,
         Announced, Expiring, Resolving, IncidentExists, at, RecordLabel

(* Clean reconciles keep the strengthening.                                 *)
LEMMA CleanInvariant == Clean => (Spec => []CleanInv)
<1> SUFFICES ASSUME Clean PROVE Spec => []CleanInv
  OBVIOUS
<1>1. Init => CleanInv
  BY InitClean
<1>2. CleanInv /\ [Next]_vars => CleanInv'
  BY NextClean
<1> QED
  BY <1>1, <1>2, PTL DEF Spec

(* Between clean reconciles, every incident that has an event was announced *)
(* as new: none was recorded and then taken for a duplicate of itself       *)
(* (pkg/redis/client.go:276).                                               *)
THEOREM CleanReconcilesAnnounce == Clean => (Spec => []EveryIncidentAnnounced)
<1>1. CleanInv => EveryIncidentAnnounced
  BY DEF CleanInv, Announced, EveryIncidentAnnounced, at
<1> QED
  BY <1>1, CleanInvariant, PTL

(* An announced incident that is not active any more was announced as       *)
(* resolved, whichever of the two methods closed it                         *)
(* (pkg/redis/client.go:309), and however often it was made again.          *)
THEOREM CleanReconcilesResolve == Clean => (Spec => []ResolutionQueued)
<1>1. CleanInv => ResolutionQueued
  BY DEF CleanInv, Resolving, ResolutionQueued, at
<1> QED
  BY <1>1, CleanInvariant, PTL

(* The events of every incident expire (AddEventToIncident,                 *)
(* pkg/redis/client.go:257): the expiry hangs on the flag of the reconcile  *)
(* that made the incident, and only that one records its first event.       *)
THEOREM CleanReconcilesExpire == Clean => (Spec => []EventsExpire)
<1>1. CleanInv => EventsExpire
  BY DEF CleanInv, Expiring, EventsExpire, at
<1> QED
  BY <1>1, CleanInvariant, PTL

(* The active incident has events, so that SetPodResolved and               *)
(* SetJobIncidentResolved do not refuse to resolve it                       *)
(* (pkg/redis/client.go:286).                                               *)
THEOREM CleanReconcilesRecord == Clean => (Spec => []ActiveExists)
<1>1. CleanInv => ActiveExists
  BY DEF CleanInv, ActiveRecorded, ActiveExists, at
<1> QED
  BY <1>1, CleanInvariant, PTL

----------------------------------------------------------------------------
(* Clean reconciles implement the incident's life as the server sees it.    *)

(* What a step makes of an incident's history: nothing, or one milestone.   *)
LEMMA HistoryKept ==
  ASSUME UNCHANGED queued, \A i \in Incident : IncidentExists(i)' <=> IncidentExists(i)
  PROVE  [i \in Incident |-> Happened(i)]' = [i \in Incident |-> Happened(i)]
<1>1. \A i \in Incident : Happened(i)' = Happened(i)
  BY DEF Happened
<1> QED
  BY <1>1

LEMMA HistoryGrows ==
  ASSUME NEW i \in Incident, NEW m,
         \A j \in Incident : Happened(j)' = IF j = i THEN Happened(j) \cup {m} ELSE Happened(j)
  PROVE  [j \in Incident |-> Happened(j)]'
           = [[j \in Incident |-> Happened(j)] EXCEPT ![i] = @ \cup {m}]
  OBVIOUS

LEMMA HappenedMembers ==
  ASSUME NEW i \in Incident, QueueTypeOK
  PROVE  /\ "recorded" \in Happened(i) <=> IncidentExists(i)
         /\ "new" \in Happened(i) <=> [kind |-> "new", incident |-> i] \in queued
  BY DEF Happened, QueueTypeOK

(* A notification that is appended becomes part of one incident's history.  *)
LEMMA AppendHistory ==
  ASSUME NEW kind, NEW i \in Incident, UNCHANGED events,
         queued' = queued \cup {[kind |-> kind, incident |-> i]}
  PROVE  \A j \in Incident :
           Happened(j)' = IF j = i THEN Happened(j) \cup {kind} ELSE Happened(j)
<1> SUFFICES ASSUME NEW j \in Incident
             PROVE  Happened(j)' = IF j = i THEN Happened(j) \cup {kind} ELSE Happened(j)
  OBVIOUS
<1> DEFINE q == [kind |-> kind, incident |-> i]
<1>1. q.kind = kind /\ q.incident = i /\ queued' = queued \cup {q}
  OBVIOUS
<1>2. IncidentExists(j)' <=> IncidentExists(j)
  BY DEF IncidentExists
<1> HIDE DEF q
<1> QED
  BY <1>1, <1>2 DEF Happened

LEMMA StepFollowsLifecycle ==
  ASSUME Clean, CleanInv, [Next]_vars
  PROVE  [Life!LifecycleNext]_Life!lifecycleVars
<1> DEFINE history == [i \in Incident |-> Happened(i)]
<1>1. TypeOK /\ FrameTypeOK /\ DataTypeOK /\ QueueTypeOK
  BY CleanFrame DEF TypeOK, StoreTypeOK
<1>2. CASE UNCHANGED <<active, events, queued>>
  <2>1. history' = history
    BY <1>2, HistoryKept DEF IncidentExists
  <2> QED
    BY <1>2, <2>1 DEF Life!lifecycleVars
<1>3. CASE CreateActiveIncident
  <2>1. myPod \in Pod /\ myRelease \in Release
    BY <1>1, <1>3, PodFrame DEF CreateActiveIncident, at
  <2>2. Created(now) \in Incident /\ Created(now).release = myRelease
    BY <1>1, <2>1 DEF Created, Incident, TypeOK, ClusterTypeOK
  <2>3. /\ UNCHANGED <<events, queued>> /\ active[myRelease] = None
        /\ active' = [active EXCEPT ![myRelease] = Created(now)]
    BY <1>3 DEF CreateActiveIncident, queueVars
  <2>4. history' = history
    BY <2>3, HistoryKept DEF IncidentExists
  <2>5. Life!Open(Created(now))
    BY <2>2, <2>3, <2>4 DEF Life!Open
  <2> QED
    BY <2>2, <2>5 DEF Life!LifecycleNext
<1>4. CASE AddEventToIncident
  <2>1. pc[Worker] \in RecordLabel /\ mine \in Incident /\ ~at("idle")
    BY <1>1, <1>4, RecordFrame DEF AddEventToIncident, at, RecordLabel
  <2>2. active[mine.release] = mine
    BY <1>1, <2>1, PodFrame, StoreAssumption
       DEF CleanInv, OngoingInv, WorksOnActive, ActiveOfRelease
  <2>3. CASE ~AtCap
    <3>1. /\ UNCHANGED <<active, queued>>
          /\ events'[mine] # {}
          /\ \A j \in Incident : j # mine => events'[j] = events[j]
      BY <1>1, <1>4, <2>1, <2>3 DEF AddEventToIncident, DataTypeOK, queueVars
    <3>2. \A j \in Incident :
            Happened(j)' = IF j = mine THEN Happened(j) \cup {"recorded"} ELSE Happened(j)
      <4> SUFFICES ASSUME NEW j \in Incident
                   PROVE  Happened(j)' = IF j = mine THEN Happened(j) \cup {"recorded"} ELSE Happened(j)
        OBVIOUS
      <4>1. CASE j = mine
        <5>1. events'[j] # {}
          BY <3>1, <4>1
        <5>2. Happened(j)' = {"recorded"} \cup {n.kind : n \in {q \in queued : q.incident = j}}
          BY <3>1, <5>1 DEF Happened, IncidentExists
        <5> QED
          BY <4>1, <5>2 DEF Happened
      <4>2. CASE j # mine
        BY <3>1, <4>2 DEF Happened, IncidentExists
      <4> QED
        BY <4>1, <4>2
    <3>3. history' = [history EXCEPT ![mine] = @ \cup {"recorded"}]
      BY <2>1, <3>2, HistoryGrows
    <3>4. Life!Record(mine)
      BY <2>2, <3>1, <3>3 DEF Life!Record, Life!isOpen, Life!Reached
    <3> QED
      BY <2>1, <3>4 DEF Life!LifecycleNext
  <2> QED
    BY <1>2, <1>4, <2>3 DEF AddEventToIncident, queueVars
<1>5. CASE Announce
  <2>1. pc[Worker] = "announce" /\ pc[Worker] \in RecordLabel /\ mine \in Incident /\ ~at("idle")
    BY <1>1, <1>5, RecordFrame DEF Announce, at, RecordLabel
  <2>2. active[mine.release] = mine /\ IncidentExists(mine)
    BY <1>1, <2>1, PodFrame, StoreAssumption
       DEF CleanInv, OngoingInv, WorksOnActive, ActiveOfRelease, EventsInv, KnowsEvents, Knowing
  <2>3. /\ UNCHANGED <<active, events>>
        /\ queued' = queued \cup {[kind |-> "new", incident |-> mine]}
    BY <1>5 DEF Announce, AppendToNotifyWorkQueue, dataVars
  <2>4. history' = [history EXCEPT ![mine] = @ \cup {"new"}]
    BY <2>1, <2>3, AppendHistory, HistoryGrows
  <2>5. "recorded" \in history[mine]
    BY <1>1, <2>1, <2>2, HappenedMembers
  <2>6. Life!AnnounceNew(mine)
    BY <2>2, <2>3, <2>4, <2>5 DEF Life!AnnounceNew, Life!isOpen, Life!Reached
  <2> QED
    BY <2>1, <2>6 DEF Life!LifecycleNext
<1>6. CASE DeleteActive(Worker) \/ QueueResolved(Worker)
  <2>1. pc[Worker] \in {"deleteActive", "queueResolved"} /\ mine \in Incident
    BY <1>1, <1>6, WorkerIsGoroutine DEF DeleteActive, QueueResolved, FrameTypeOK, ResolveLabel, mine
  <2>2. [kind |-> "new", incident |-> mine] \in queued
    BY <2>1 DEF CleanInv, EventsInv, KnowsEvents, Knowing, Announced
  <2>3. "new" \in history[mine]
    BY <1>1, <2>1, <2>2, HappenedMembers
  <2>4. CASE DeleteActive(Worker)
    <3>1. /\ UNCHANGED <<events, queued>>
          /\ active' = [active EXCEPT ![mine.release] = None]
          /\ active[mine.release] = mine
      BY <2>4 DEF DeleteActive, queueVars, mine, CleanInv, OngoingInv, WorksOnActive, ResolveLabel
    <3>2. history' = history
      BY <3>1, HistoryKept DEF IncidentExists
    <3>3. Life!Close(mine)
      BY <2>3, <3>1, <3>2 DEF Life!Close, Life!isOpen
    <3> QED
      BY <2>1, <3>3 DEF Life!LifecycleNext
  <2>5. CASE QueueResolved(Worker)
    <3>1. /\ UNCHANGED <<active, events>>
          /\ queued' = queued \cup {[kind |-> "resolved", incident |-> mine]}
          /\ active[mine.release] # mine
      BY <2>5 DEF QueueResolved, AppendToNotifyWorkQueue, dataVars, mine, CleanInv, Resolving, at
    <3>2. history' = [history EXCEPT ![mine] = @ \cup {"resolved"}]
      BY <2>1, <3>1, AppendHistory, HistoryGrows
    <3>3. Life!AnnounceResolved(mine)
      BY <2>3, <3>1, <3>2 DEF Life!AnnounceResolved, Life!isOpen, Life!Reached
    <3> QED
      BY <2>1, <3>3 DEF Life!LifecycleNext
  <2> QED
    BY <1>6, <2>4, <2>5
<1>7. CASE ResolveStep(Worker)
  BY <1>2, <1>6, <1>7
     DEF ResolveStep, SetPodResolved, RemovePod, CheckPods, SetJobIncidentResolved, DeletePods, dataVars,
         queueVars
<1>8. CASE RecordStep
  BY <1>2, <1>3, <1>4, <1>5, <1>8
     DEF RecordStep, GetActiveIncident, IgnoreMultipodDeployment, CheckDuplicate, FetchLogs, ExpireEvents,
         AddPod, ExpirePods, dataVars, queueVars
<1> QED
  BY <1>2, <1>7, <1>8
     DEF Next, vars, WorkerStep, Reconcile, ResolveHealthy, AbortReconcile, storeVars, dataVars, queueVars

(* Clean reconciles never show the server an incident out of order: one is  *)
(* opened only when none is open, announced once it is recorded, closed     *)
(* once it is announced, and announced as resolved once it is closed.       *)
THEOREM CleanLifecycle == Clean => (Spec => FollowsLifecycle)
<1> SUFFICES ASSUME Clean PROVE Spec => FollowsLifecycle
  OBVIOUS
<1>1. Init => CleanInv /\ Life!LifecycleInit
  <2> SUFFICES ASSUME Init PROVE CleanInv /\ Life!LifecycleInit
    OBVIOUS
  <2>1. active = [r \in Release |-> None] /\ \A i \in Incident : Happened(i) = {}
    BY DEF Init, StoreInit, Happened, IncidentExists
  <2> QED
    BY <2>1, InitClean DEF Life!LifecycleInit
<1>2. CleanInv /\ [Next]_vars => CleanInv'
  BY NextClean
<1>3. CleanInv /\ [Next]_vars => [Life!LifecycleNext]_Life!lifecycleVars
  BY StepFollowsLifecycle
<1> QED
  BY <1>1, <1>2, <1>3, PTL DEF Spec, FollowsLifecycle, Life!LifecycleSpec

=============================================================================
