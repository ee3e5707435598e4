-------------------------- MODULE ReconcilerProofs --------------------------
(***************************************************************************)
(* Proofs about Reconciler, for any releases, pods, messages and bounds,   *)
(* with or without failing calls and crashes.                              *)
(***************************************************************************)
EXTENDS Reconciler, IncidentStoreProofs, FiniteSetTheorems

(* The worker's goroutine has its frame among the others.                   *)
LEMMA WorkerIsGoroutine == Worker \in Goroutine
  BY ReconcilerAssumption

(* A reconcile that ends leaves no locals, and a well-typed frame.          *)
LEMMA EndReconcileTypeOK ==
  ASSUME FrameTypeOK, EndReconcile
  PROVE  FrameTypeOK' /\ WorkerTypeOK'
<1>1. FrameTypeOK'
  BY WorkerIsGoroutine, ReturnTypeOK DEF EndReconcile
<1>2. pc'[Worker] = "idle"
  BY WorkerIsGoroutine DEF FrameTypeOK, EndReconcile, Return
<1>3. WorkerTypeOK'
  BY <1>2 DEF EndReconcile, WorkerTypeOK, RecordLabel
<1> QED
  BY <1>1, <1>3

(* What the worker works on while it records an event.                      *)
LEMMA RecordFrame ==
  ASSUME TypeOK, pc[Worker] \in RecordLabel
  PROVE  /\ mine \in Incident
         /\ myPod \in Pod
         /\ message \in Message
         /\ pc[Worker] \in ResolveLabel \cup RecordLabel
  BY WorkerIsGoroutine DEF TypeOK, StoreTypeOK, FrameTypeOK, WorkerTypeOK, RecordLabel, mine, myPod

(* What it works on while it has no incident yet.                           *)
LEMMA PodFrame ==
  ASSUME TypeOK, ~at("idle")
  PROVE  myPod \in Pod /\ myRelease \in Release
  BY WorkerIsGoroutine, ClusterAssumption
     DEF TypeOK, StoreTypeOK, FrameTypeOK, at, myPod, myRelease

(* Going on recording keeps frame and locals well typed.                    *)
LEMMA GoOnTypeOK ==
  ASSUME TypeOK, pc[Worker] \in RecordLabel, NEW label \in RecordLabel \ {"logs"},
         Goto(Worker, label), UNCHANGED workerVars
  PROVE  FrameTypeOK' /\ WorkerTypeOK'
<1>1. FrameTypeOK'
  BY RecordFrame, WorkerIsGoroutine, GotoTypeOK DEF TypeOK, StoreTypeOK
<1>2. pc'[Worker] # "logs"
  BY WorkerIsGoroutine DEF TypeOK, StoreTypeOK, FrameTypeOK, Goto
<1>3. WorkerTypeOK'
  BY <1>2, RecordFrame DEF TypeOK, WorkerTypeOK, workerVars
<1> QED
  BY <1>1, <1>3

----------------------------------------------------------------------------
(* One step of the worker keeps TypeOK.                                     *)

LEMMA ReconcileTypeOK ==
  ASSUME TypeOK, NEW p \in Pod, Reconcile(p), UNCHANGED clusterVars
  PROVE  TypeOK'
<1> USE DEF TypeOK, StoreTypeOK
<1>1. ClusterTypeOK' /\ DataTypeOK' /\ QueueTypeOK'
  BY DEF Reconcile, clusterVars, dataVars, queueVars, ClusterTypeOK, DataTypeOK, QueueTypeOK
<1>2. FrameTypeOK'
  BY WorkerIsGoroutine DEF Reconcile, FrameTypeOK, Label, ResolveLabel, RecordLabel
<1>3. WorkerTypeOK'
  BY WorkerIsGoroutine DEF Reconcile, FrameTypeOK, WorkerTypeOK, RecordLabel
<1> QED
  BY <1>1, <1>2, <1>3

LEMMA ResolveHealthyTypeOK ==
  ASSUME TypeOK, ResolveHealthy, UNCHANGED clusterVars
  PROVE  TypeOK'
<1> USE DEF TypeOK, StoreTypeOK
<1>1. ClusterTypeOK' /\ DataTypeOK' /\ QueueTypeOK'
  BY DEF ResolveHealthy, clusterVars, dataVars, queueVars, ClusterTypeOK, DataTypeOK, QueueTypeOK
<1>2. myPod \in Pod /\ myRelease \in Release
  BY PodFrame DEF ResolveHealthy, at
<1>3. active[myRelease] # None => active[myRelease] \in Incident
  BY <1>2 DEF DataTypeOK
<1>4. FrameTypeOK' /\ pc'[Worker] \notin RecordLabel \cup {"failing"}
  <2>1. CASE Return(Worker)
    BY <2>1, WorkerIsGoroutine, ReturnTypeOK DEF Return, FrameTypeOK, RecordLabel
  <2>2. ASSUME NEW method \in {"jobResolved", "podResolved"}, active[myRelease] # None,
               Call(Worker, method, active[myRelease], myPod)
        PROVE  FrameTypeOK' /\ pc'[Worker] \notin RecordLabel \cup {"failing"}
    <3>1. method \in ResolveLabel \cup RecordLabel
      BY DEF ResolveLabel
    <3>2. FrameTypeOK'
      BY <1>2, <1>3, <2>2, <3>1, WorkerIsGoroutine, CallTypeOK
    <3>3. pc'[Worker] = method
      BY <2>2, WorkerIsGoroutine DEF Call, FrameTypeOK
    <3> QED
      BY <3>2, <3>3 DEF RecordLabel
  <2> QED
    BY <2>1, <2>2 DEF ResolveHealthy
<1>5. WorkerTypeOK'
  BY <1>4 DEF ResolveHealthy, workerVars, WorkerTypeOK, RecordLabel
<1> QED
  BY <1>1, <1>4, <1>5

LEMMA BeginTypeOK ==
  ASSUME TypeOK, UNCHANGED clusterVars,
         GetActiveIncident \/ IgnoreMultipodDeployment \/ CreateActiveIncident
  PROVE  TypeOK'
<1> USE DEF TypeOK, StoreTypeOK
<1>1. myPod \in Pod /\ myRelease \in Release /\ message \in Message
  BY PodFrame DEF GetActiveIncident, IgnoreMultipodDeployment, CreateActiveIncident, at, WorkerTypeOK
<1>2. "dedup" \in ResolveLabel \cup RecordLabel
  BY DEF RecordLabel
<1>3. ClusterTypeOK'
  BY DEF clusterVars, ClusterTypeOK
<1>4. CASE GetActiveIncident
  <2>1. active[myRelease] \in Incident
    BY <1>1, <1>4 DEF GetActiveIncident, DataTypeOK
  <2>2. FrameTypeOK'
    BY <1>1, <1>2, <1>4, <2>1, WorkerIsGoroutine, CallTypeOK DEF GetActiveIncident
  <2>3. DataTypeOK' /\ QueueTypeOK'
    BY <1>4 DEF GetActiveIncident, dataVars, queueVars, DataTypeOK, QueueTypeOK
  <2>4. pc'[Worker] = "dedup"
    BY <1>4, WorkerIsGoroutine DEF GetActiveIncident, Call, FrameTypeOK
  <2>5. WorkerTypeOK'
    BY <1>1, <1>4, <2>4 DEF GetActiveIncident, workerVars, WorkerTypeOK
  <2> QED
    BY <1>3, <2>2, <2>3, <2>5
<1>5. CASE IgnoreMultipodDeployment
  BY <1>3, <1>5, EndReconcileTypeOK
     DEF IgnoreMultipodDeployment, dataVars, queueVars, DataTypeOK, QueueTypeOK
<1>6. CASE CreateActiveIncident
  <2>1. Created(now) \in Incident
    BY <1>1 DEF Created, Incident, ClusterTypeOK
  <2>2. FrameTypeOK'
    BY <1>1, <1>2, <1>6, <2>1, WorkerIsGoroutine, CallTypeOK DEF CreateActiveIncident
  <2>3. DataTypeOK' /\ QueueTypeOK'
    BY <1>1, <1>6, <2>1 DEF CreateActiveIncident, queueVars, DataTypeOK, QueueTypeOK
  <2>4. pc'[Worker] = "dedup"
    BY <1>6, WorkerIsGoroutine DEF CreateActiveIncident, Call, FrameTypeOK
  <2>5. WorkerTypeOK'
    BY <1>1, <1>6, <2>4 DEF CreateActiveIncident, WorkerTypeOK
  <2> QED
    BY <1>3, <2>2, <2>3, <2>5
<1> QED
  BY <1>4, <1>5, <1>6

LEMMA CheckDuplicateTypeOK ==
  ASSUME TypeOK, CheckDuplicate, UNCHANGED clusterVars
  PROVE  TypeOK'
<1> USE DEF TypeOK, StoreTypeOK
<1>1. ClusterTypeOK' /\ DataTypeOK' /\ QueueTypeOK'
  BY DEF CheckDuplicate, clusterVars, dataVars, queueVars, ClusterTypeOK, DataTypeOK, QueueTypeOK
<1>2. pc[Worker] \in RecordLabel
  BY DEF CheckDuplicate, at, RecordLabel
<1>3. CASE EndReconcile
  BY <1>1, <1>3, EndReconcileTypeOK
<1>4. CASE /\ Goto(Worker, "logs")
           /\ eventTime' = now
           /\ unlogged' = Container
           /\ UNCHANGED <<message, newIncident>>
  <2>1. FrameTypeOK'
    BY <1>2, <1>4, WorkerIsGoroutine, GotoTypeOK DEF RecordLabel
  <2>2. WorkerTypeOK'
    BY <1>2, <1>4, RecordFrame DEF WorkerTypeOK, ClusterTypeOK
  <2> QED
    BY <1>1, <2>1, <2>2
<1> QED
  BY <1>3, <1>4 DEF CheckDuplicate

LEMMA FetchLogsTypeOK ==
  ASSUME TypeOK, NEW c \in Container, FetchLogs(c), UNCHANGED clusterVars
  PROVE  TypeOK'
<1> USE DEF TypeOK, StoreTypeOK
<1>1. pc[Worker] \in RecordLabel
  BY DEF FetchLogs, at, RecordLabel
<1>2. mine \in Incident
  BY <1>1, RecordFrame
<1>3. ClusterTypeOK' /\ QueueTypeOK'
  BY DEF FetchLogs, clusterVars, queueVars, ClusterTypeOK, QueueTypeOK
<1>4. CASE EndReconcile /\ UNCHANGED <<logs, expiring>>
  BY <1>3, <1>4, EndReconcileTypeOK DEF FetchLogs, DataTypeOK
<1>5. ASSUME NEW reply \in LogReply, Continues(reply),
             IF reply = NoLogs THEN UNCHANGED <<logs, expiring>> ELSE AddLogs(mine, reply),
             unlogged' = unlogged \ {c}, UNCHANGED <<frameVars, message, newIncident, eventTime>>
      PROVE  TypeOK'
  <2>1. DataTypeOK'
    BY <1>2, <1>5 DEF FetchLogs, DataTypeOK, Continues, AddLogs, KeyKind
  <2>2. FrameTypeOK' /\ WorkerTypeOK'
    BY <1>5 DEF frameVars, FrameTypeOK, WorkerTypeOK
  <2> QED
    BY <1>3, <2>1, <2>2
<1> QED
  BY <1>4, <1>5 DEF FetchLogs

LEMMA AddEventTypeOK ==
  ASSUME TypeOK, AddEventToIncident \/ ExpireEvents \/ AddPod \/ ExpirePods \/ Announce,
         UNCHANGED clusterVars
  PROVE  TypeOK'
<1> USE DEF TypeOK, StoreTypeOK
<1>1. pc[Worker] \in RecordLabel
  BY DEF AddEventToIncident, ExpireEvents, AddPod, ExpirePods, Announce, at, RecordLabel
<1>2. /\ mine \in Incident /\ myPod \in Pod /\ message \in Message
      /\ at("logs") => eventTime \in Time
  BY <1>1, RecordFrame DEF WorkerTypeOK, at
<1>3. ClusterTypeOK'
  BY DEF clusterVars, ClusterTypeOK
<1>4. {"expireEvents", "addPod", "expirePods", "announce"} \subseteq RecordLabel \ {"logs"}
  BY DEF RecordLabel
<1>5. CASE AddEventToIncident
  <2>1. FrameTypeOK' /\ WorkerTypeOK'
    BY <1>1, <1>4, <1>5, GoOnTypeOK, EndReconcileTypeOK DEF AddEventToIncident
  <2>2. [pod |-> myPod, message |-> message, timestamp |-> eventTime, score |-> now] \in Event
    BY <1>2, <1>5 DEF AddEventToIncident, Event, ClusterTypeOK
  <2>3. DataTypeOK' /\ QueueTypeOK'
    BY <1>2, <1>5, <2>2 DEF AddEventToIncident, queueVars, DataTypeOK, QueueTypeOK
  <2> QED
    BY <1>3, <2>1, <2>3
<1>6. CASE ExpireEvents
  <2>1. FrameTypeOK' /\ WorkerTypeOK'
    BY <1>1, <1>4, <1>6, GoOnTypeOK DEF ExpireEvents
  <2>2. DataTypeOK' /\ QueueTypeOK'
    BY <1>2, <1>6 DEF ExpireEvents, queueVars, DataTypeOK, QueueTypeOK, KeyKind
  <2> QED
    BY <1>3, <2>1, <2>2
<1>7. CASE AddPod
  <2>1. FrameTypeOK' /\ WorkerTypeOK'
    BY <1>1, <1>4, <1>7, GoOnTypeOK, EndReconcileTypeOK DEF AddPod
  <2>2. pods[mine] \cup {myPod} \in SUBSET Pod
    BY <1>2 DEF DataTypeOK
  <2>3. DataTypeOK' /\ QueueTypeOK'
    BY <1>2, <1>7, <2>2, SetPodsTypeOK DEF AddPod, queueVars, QueueTypeOK
  <2> QED
    BY <1>3, <2>1, <2>3
<1>8. CASE ExpirePods
  <2>1. FrameTypeOK' /\ WorkerTypeOK'
    BY <1>1, <1>4, <1>8, GoOnTypeOK DEF ExpirePods
  <2>2. DataTypeOK' /\ QueueTypeOK'
    BY <1>2, <1>8 DEF ExpirePods, queueVars, DataTypeOK, QueueTypeOK, KeyKind
  <2> QED
    BY <1>3, <2>1, <2>2
<1>9. CASE Announce
  <2>1. FrameTypeOK' /\ WorkerTypeOK'
    BY <1>9, EndReconcileTypeOK DEF Announce
  <2>2. DataTypeOK' /\ QueueTypeOK'
    BY <1>2, <1>9, AppendTypeOK DEF Announce, dataVars, DataTypeOK
  <2> QED
    BY <1>3, <2>1, <2>2
<1> QED
  BY <1>5, <1>6, <1>7, <1>8, <1>9

LEMMA WorkerResolveTypeOK ==
  ASSUME TypeOK, ResolveStep(Worker), UNCHANGED <<workerVars, clusterVars>>
  PROVE  TypeOK'
<1>1. StoreTypeOK'
  BY WorkerIsGoroutine, ResolveTypeOK DEF TypeOK
<1>2. pc'[Worker] \notin RecordLabel \cup {"failing"}
  BY WorkerIsGoroutine
     DEF TypeOK, StoreTypeOK, FrameTypeOK, ResolveStep, SetPodResolved, RemovePod, CheckPods,
         SetJobIncidentResolved, DeletePods, DeleteActive, QueueResolved, Goto, Return, RecordLabel
<1>3. ClusterTypeOK' /\ WorkerTypeOK'
  BY <1>2 DEF TypeOK, workerVars, clusterVars, ClusterTypeOK, WorkerTypeOK, RecordLabel
<1> QED
  BY <1>1, <1>3 DEF TypeOK

(* A step of the world does: the clock stays within its bound.              *)
LEMMA ClusterStepTypeOK ==
  ASSUME TypeOK, ClusterStep, UNCHANGED <<storeVars, workerVars>>
  PROVE  TypeOK'
<1>1. ClusterTypeOK'
  BY ClusterAssumption DEF TypeOK, ClusterTypeOK, ClusterStep, Tick, DeletePod, RecreatePod, Time
<1>2. StoreTypeOK' /\ WorkerTypeOK'
  BY DEF TypeOK, StoreTypeOK, DataTypeOK, QueueTypeOK, FrameTypeOK, WorkerTypeOK, storeVars,
         dataVars, queueVars, frameVars, workerVars
<1> QED
  BY <1>1, <1>2 DEF TypeOK

LEMMA NextTypeOK ==
  ASSUME TypeOK, [Next]_vars
  PROVE  TypeOK'
<1>1. CASE UNCHANGED vars
  BY <1>1 DEF TypeOK, ClusterTypeOK, StoreTypeOK, DataTypeOK, QueueTypeOK, FrameTypeOK,
              WorkerTypeOK, vars, clusterVars, storeVars, dataVars, queueVars, frameVars, workerVars
<1>2. CASE ClusterStep /\ UNCHANGED <<storeVars, workerVars>>
  BY <1>2, ClusterStepTypeOK
<1>3. CASE WorkerStep /\ UNCHANGED clusterVars
  <2>1. CASE AbortReconcile
    BY <1>3, <2>1, EndReconcileTypeOK
       DEF AbortReconcile, TypeOK, StoreTypeOK, ClusterTypeOK, DataTypeOK, QueueTypeOK,
           clusterVars, dataVars, queueVars
  <2> QED
    BY <1>3, <2>1, ReconcileTypeOK, ResolveHealthyTypeOK, WorkerResolveTypeOK, BeginTypeOK,
       CheckDuplicateTypeOK, FetchLogsTypeOK, AddEventTypeOK DEF WorkerStep, RecordStep
<1> QED
  BY <1>1, <1>2, <1>3 DEF Next

LEMMA InitTypeOK ==
  ASSUME Init
  PROVE  TypeOK
<1>1. ClusterTypeOK
  BY ClusterAssumption DEF Init, ClusterInit, ClusterTypeOK, Time
<1>2. DataTypeOK /\ QueueTypeOK
  BY DEF Init, StoreInit, DataTypeOK, QueueTypeOK
<1>3. FrameTypeOK
  BY DEF Init, StoreInit, FrameTypeOK, Label, ResolveLabel, RecordLabel
<1>4. WorkerTypeOK
  BY WorkerIsGoroutine DEF Init, StoreInit, ReconcilerInit, WorkerTypeOK, RecordLabel
<1> QED
  BY <1>1, <1>2, <1>3, <1>4 DEF TypeOK, StoreTypeOK

(* Whatever fails and wherever the agent crashes, Redis and the worker's    *)
(* locals hold values of their types; above all, the worker never goes on   *)
(* into a client method without an incident, or into recording without a    *)
(* message.                                                                 *)
THEOREM TypeCorrect == Spec => []TypeOK
<1>1. Init => TypeOK
  BY InitTypeOK
<1>2. TypeOK /\ [Next]_vars => TypeOK'
  BY NextTypeOK
<1> QED
  BY <1>1, <1>2, PTL DEF Spec

----------------------------------------------------------------------------
(* The frame of the worker after a step of control.                         *)

LEMMA GotoFrame ==
  ASSUME FrameTypeOK, NEW label \in Label, Goto(Worker, label)
  PROVE  pc'[Worker] = label /\ mine' = mine /\ myPod' = myPod /\ myRelease' = myRelease
  BY WorkerIsGoroutine DEF FrameTypeOK, Goto, mine, myPod, myRelease

LEMMA CallFrame ==
  ASSUME FrameTypeOK, NEW method \in Label, NEW i \in Incident, NEW p \in Pod,
         Call(Worker, method, i, p)
  PROVE  pc'[Worker] = method /\ mine' = i /\ myPod' = p /\ myRelease' = ReleaseOf[p]
  BY WorkerIsGoroutine DEF FrameTypeOK, Call, mine, myPod, myRelease

LEMMA ReturnFrame ==
  ASSUME FrameTypeOK, Return(Worker) \/ EndReconcile
  PROVE  pc'[Worker] = "idle"
  BY WorkerIsGoroutine DEF FrameTypeOK, Return, EndReconcile

----------------------------------------------------------------------------
(* An ONGOING incident is the active one of its release.  Inductively: what *)
(* the worker records for or resolves is the active incident, up to the     *)
(* command that drops the key, and by then the incident has no pods.        *)

ActiveOfRelease ==
  \A r \in Release : active[r] # None => active[r].release = r

WorksOnActive ==
  /\ pc[Worker] \in RecordLabel => active[myRelease] = mine
  /\ pc[Worker] \in ResolveLabel \ {"queueResolved"} => active[mine.release] = mine

DropsHealthy == pc[Worker] = "deleteActive" => pods[mine] = {}

OngoingInv == TypeOK /\ ActiveOfRelease /\ WorksOnActive /\ DropsHealthy /\ OngoingIsActive

(* A step that leaves the active incidents and the affected pods alone, and *)
(* after which the worker is idle, healthy or failing.                      *)
LEMMA RestOngoing ==
  ASSUME OngoingInv, TypeOK', UNCHANGED <<active, pods>>,
         pc'[Worker] \in {"idle", "healthy", "failing"}
  PROVE  OngoingInv'
  BY DEF OngoingInv, ActiveOfRelease, WorksOnActive, DropsHealthy, OngoingIsActive,
         RecordLabel, ResolveLabel

(* One that does, and after which the worker works on as it did.            *)
LEMMA GoOnOngoing ==
  ASSUME OngoingInv, TypeOK', UNCHANGED <<active, pods>>,
         UNCHANGED mine, UNCHANGED myRelease,
         \/ pc[Worker] \in RecordLabel /\ pc'[Worker] \in RecordLabel
         \/ /\ pc[Worker] \in ResolveLabel \ {"queueResolved"}
            /\ pc'[Worker] \in ResolveLabel \ {"deleteActive", "queueResolved"}
  PROVE  OngoingInv'
  BY DEF OngoingInv, ActiveOfRelease, WorksOnActive, DropsHealthy, OngoingIsActive,
         RecordLabel, ResolveLabel

LEMMA ResolveOngoing ==
  ASSUME OngoingInv, TypeOK', ResolveStep(Worker)
  PROVE  OngoingInv'
<1> USE DEF OngoingInv
<1>1. FrameTypeOK /\ DataTypeOK
  BY DEF TypeOK, StoreTypeOK
<1>2. pc[Worker] \in ResolveLabel
  BY DEF ResolveStep, SetPodResolved, RemovePod, CheckPods, SetJobIncidentResolved,
         DeletePods, DeleteActive, QueueResolved, ResolveLabel
<1>3. mine \in Incident /\ mine.release \in Release
  BY <1>1, <1>2, WorkerIsGoroutine DEF FrameTypeOK, mine, Incident
<1>4. {"removePod", "checkPods", "deletePods", "deleteActive", "queueResolved"} \subseteq Label
  BY DEF Label, ResolveLabel
<1>5. CASE SetPodResolved(Worker) \/ CheckPods(Worker) \/ SetJobIncidentResolved(Worker)
  <2>1. UNCHANGED <<active, pods>>
    BY <1>5 DEF SetPodResolved, CheckPods, SetJobIncidentResolved, dataVars
  <2>2. CASE Return(Worker)
    BY <1>1, <2>1, <2>2, ReturnFrame, RestOngoing
  <2>3. ASSUME NEW label \in {"removePod", "deletePods"}, Goto(Worker, label),
               pc[Worker] \in {"podResolved", "checkPods", "jobResolved"}
        PROVE  OngoingInv'
    BY <1>1, <1>4, <2>1, <2>3, GotoFrame, GoOnOngoing DEF ResolveLabel
  <2> QED
    BY <1>5, <2>2, <2>3 DEF SetPodResolved, CheckPods, SetJobIncidentResolved
<1>6. CASE RemovePod(Worker) \/ DeletePods(Worker)
  <2>1. /\ UNCHANGED active
        /\ mine' = mine
        /\ \A i \in Incident : i # mine => pods'[i] = pods[i]
        /\ pc'[Worker] = "deleteActive" => pods'[mine] = {}
        /\ pc[Worker] \in ResolveLabel \ {"queueResolved"}
        /\ pc'[Worker] \in {"checkPods", "deleteActive"}
    BY <1>1, <1>3, <1>4, <1>6, GotoFrame
       DEF RemovePod, DeletePods, SetPods, DataTypeOK, ResolveLabel, mine
  <2>2. active[mine.release] = mine
    BY <2>1 DEF WorksOnActive
  <2>3. ActiveOfRelease' /\ WorksOnActive' /\ DropsHealthy'
    BY <2>1, <2>2 DEF ActiveOfRelease, WorksOnActive, DropsHealthy, RecordLabel
  <2>4. OngoingIsActive'
    BY <2>1, <2>2 DEF OngoingIsActive
  <2> QED
    BY <2>3, <2>4
<1>7. CASE DeleteActive(Worker)
  <2>1. /\ UNCHANGED pods
        /\ active' = [active EXCEPT ![mine.release] = None]
        /\ pc'[Worker] = "queueResolved"
    BY <1>1, <1>4, <1>7, GotoFrame DEF DeleteActive, mine
  <2>2. active[mine.release] = mine /\ pods[mine] = {}
    BY <1>7 DEF DeleteActive, WorksOnActive, DropsHealthy, mine, ResolveLabel
  <2>3. ActiveOfRelease' /\ WorksOnActive' /\ DropsHealthy'
    BY <1>1, <2>1 DEF ActiveOfRelease, WorksOnActive, DropsHealthy, RecordLabel, ResolveLabel,
                      DataTypeOK
  <2>4. ASSUME NEW i \in Incident, pods[i] # {}
        PROVE  active'[i.release] = i
    <3>1. active[i.release] = i /\ i # mine
      BY <2>2, <2>4 DEF OngoingIsActive
    <3>2. i.release # mine.release
      BY <2>2, <3>1
    <3> QED
      BY <1>1, <2>1, <3>1, <3>2 DEF DataTypeOK, Incident
  <2> QED
    BY <2>1, <2>3, <2>4 DEF OngoingIsActive
<1>8. CASE QueueResolved(Worker)
  BY <1>1, <1>8, ReturnFrame, RestOngoing DEF QueueResolved, dataVars
<1> QED
  BY <1>5, <1>6, <1>7, <1>8 DEF ResolveStep

LEMMA RecordOngoing ==
  ASSUME OngoingInv, TypeOK', RecordStep
  PROVE  OngoingInv'
<1> USE DEF OngoingInv
<1>1. FrameTypeOK /\ DataTypeOK
  BY DEF TypeOK, StoreTypeOK
<1>2. RecordLabel \subseteq Label /\ "dedup" \in RecordLabel
  BY DEF Label, RecordLabel
<1>3. CASE EndReconcile /\ UNCHANGED <<active, pods>>
  BY <1>1, <1>3, ReturnFrame, RestOngoing
<1>4. ASSUME NEW label \in RecordLabel, pc[Worker] \in RecordLabel, Goto(Worker, label),
             UNCHANGED <<active, pods>>
      PROVE  OngoingInv'
  BY <1>1, <1>2, <1>4, GotoFrame, GoOnOngoing
<1>5. {"logs", "expireEvents", "addPod", "expirePods", "announce"} \subseteq RecordLabel
  BY DEF RecordLabel
<1>6. CASE GetActiveIncident
  <2>1. myPod \in Pod /\ myRelease = ReleaseOf[myPod] /\ myRelease \in Release
    BY <1>6, PodFrame DEF GetActiveIncident, at, myRelease
  <2>2. active[myRelease] \in Incident
    BY <1>1, <1>6, <2>1 DEF GetActiveIncident, DataTypeOK
  <2>3. pc'[Worker] = "dedup" /\ mine' = active[myRelease] /\ myRelease' = myRelease
    BY <1>1, <1>2, <1>6, <2>1, <2>2, CallFrame DEF GetActiveIncident
  <2>4. UNCHANGED <<active, pods>>
    BY <1>6 DEF GetActiveIncident, dataVars
  <2> QED
    BY <2>3, <2>4
       DEF ActiveOfRelease, WorksOnActive, DropsHealthy, OngoingIsActive, RecordLabel, ResolveLabel
<1>7. CASE CreateActiveIncident
  <2>1. myPod \in Pod /\ myRelease = ReleaseOf[myPod] /\ myRelease \in Release
    BY <1>7, PodFrame DEF CreateActiveIncident, at, myRelease
  <2>2. Created(now) \in Incident /\ Created(now).release = myRelease
    BY <2>1 DEF Created, Incident, TypeOK, ClusterTypeOK
  <2>3. pc'[Worker] = "dedup" /\ mine' = Created(now) /\ myRelease' = myRelease
    BY <1>1, <1>2, <1>7, <2>1, <2>2, CallFrame DEF CreateActiveIncident
  <2>4. active' = [active EXCEPT ![myRelease] = Created(now)] /\ UNCHANGED pods
    BY <1>7 DEF CreateActiveIncident
  <2>5. active[myRelease] = None
    BY <1>7 DEF CreateActiveIncident
  <2>6. ActiveOfRelease' /\ WorksOnActive' /\ DropsHealthy'
    BY <1>1, <2>1, <2>2, <2>3, <2>4
       DEF ActiveOfRelease, WorksOnActive, DropsHealthy, DataTypeOK, RecordLabel, ResolveLabel
  <2>7. ASSUME NEW i \in Incident, pods[i] # {}
        PROVE  active'[i.release] = i
    <3>1. active[i.release] = i
      BY <2>7 DEF OngoingIsActive
    <3>2. i.release # myRelease
      BY <2>5, <3>1, StoreAssumption
    <3> QED
      BY <1>1, <2>4, <3>1, <3>2 DEF DataTypeOK, Incident
  <2> QED
    BY <2>4, <2>6, <2>7 DEF OngoingIsActive
<1>8. CASE IgnoreMultipodDeployment
  BY <1>3, <1>8 DEF IgnoreMultipodDeployment, dataVars
<1>9. CASE CheckDuplicate
  BY <1>3, <1>4, <1>5, <1>9 DEF CheckDuplicate, dataVars, at, RecordLabel
<1>10. ASSUME NEW c \in Container, FetchLogs(c)
       PROVE  OngoingInv'
  <2>1. CASE UNCHANGED frameVars
    BY <1>10, <2>1, GoOnOngoing DEF FetchLogs, at, frameVars, mine, myPod, myRelease, RecordLabel
  <2> QED
    BY <1>3, <1>10, <2>1 DEF FetchLogs
<1>11. CASE AddEventToIncident
  BY <1>3, <1>4, <1>5, <1>11 DEF AddEventToIncident, at
<1>12. CASE ExpireEvents \/ ExpirePods
  BY <1>4, <1>5, <1>12 DEF ExpireEvents, ExpirePods, at
<1>13. CASE AddPod
  <2>1. active[mine.release] = mine /\ active[myRelease] = mine
    BY <1>5, <1>13, RecordFrame, PodFrame, StoreAssumption
       DEF AddPod, at, WorksOnActive, ActiveOfRelease
  <2>2. \A i \in Incident : i # mine => pods'[i] = pods[i]
    BY <1>1, <1>13 DEF AddPod, SetPods, DataTypeOK
  <2>3. UNCHANGED active
    BY <1>13 DEF AddPod
  <2>4. \/ pc'[Worker] = "idle"
        \/ pc'[Worker] = "expirePods" /\ mine' = mine /\ myRelease' = myRelease
    BY <1>1, <1>2, <1>5, <1>13, GotoFrame, ReturnFrame DEF AddPod
  <2> QED
    BY <2>1, <2>2, <2>3, <2>4
       DEF ActiveOfRelease, WorksOnActive, DropsHealthy, OngoingIsActive, RecordLabel, ResolveLabel
<1>14. CASE Announce
  BY <1>3, <1>14 DEF Announce, dataVars
<1> QED
  BY <1>6, <1>7, <1>8, <1>9, <1>10, <1>11, <1>12, <1>13, <1>14 DEF RecordStep

LEMMA NextOngoing ==
  ASSUME OngoingInv, [Next]_vars
  PROVE  OngoingInv'
<1>1. TypeOK' /\ FrameTypeOK /\ DataTypeOK
  BY NextTypeOK DEF OngoingInv, TypeOK, StoreTypeOK
<1>2. CASE UNCHANGED storeVars
  BY <1>1, <1>2
     DEF OngoingInv, ActiveOfRelease, WorksOnActive, DropsHealthy, OngoingIsActive, mine, myPod,
         myRelease, storeVars, dataVars, frameVars
<1>3. CASE \E p \in Pod : Reconcile(p)
  <2>1. pc'[Worker] \in {"healthy", "failing"}
    BY <1>1, <1>3, WorkerIsGoroutine DEF Reconcile, FrameTypeOK
  <2> QED
    BY <1>1, <1>3, <2>1, RestOngoing DEF Reconcile, dataVars
<1>4. CASE ResolveHealthy
  <2>1. UNCHANGED <<active, pods>>
    BY <1>4 DEF ResolveHealthy, dataVars
  <2>2. CASE Return(Worker)
    BY <1>1, <2>1, <2>2, ReturnFrame, RestOngoing
  <2>3. ASSUME NEW method \in {"jobResolved", "podResolved"}, active[myRelease] # None,
               Call(Worker, method, active[myRelease], myPod)
        PROVE  OngoingInv'
    <3>1. myPod \in Pod /\ myRelease \in Release
      BY <1>4, PodFrame DEF OngoingInv, ResolveHealthy, at
    <3>2. active[myRelease] \in Incident /\ active[myRelease].release = myRelease
      BY <1>1, <2>3, <3>1 DEF DataTypeOK, OngoingInv, ActiveOfRelease
    <3>3. method \in Label
      BY DEF Label, ResolveLabel
    <3>4. pc'[Worker] = method /\ mine' = active[myRelease]
      BY <1>1, <2>3, <3>1, <3>2, <3>3, CallFrame
    <3> QED
      BY <1>1, <2>1, <3>2, <3>4
         DEF OngoingInv, ActiveOfRelease, WorksOnActive, DropsHealthy, OngoingIsActive, RecordLabel
  <2> QED
    BY <1>4, <2>2, <2>3 DEF ResolveHealthy
<1>5. CASE AbortReconcile
  BY <1>1, <1>5, ReturnFrame, RestOngoing DEF AbortReconcile, dataVars
<1>6. CASE ResolveStep(Worker)
  BY <1>1, <1>6, ResolveOngoing
<1>7. CASE RecordStep
  BY <1>1, <1>7, RecordOngoing
<1>8. CASE WorkerStep
  BY <1>3, <1>4, <1>5, <1>6, <1>7, <1>8 DEF WorkerStep
<1> QED
  BY <1>2, <1>8 DEF Next, vars

(* As long as only the worker changes incidents, an incident that has       *)
(* affected pods is the active one of its release, whatever call fails and  *)
(* wherever the agent crashes: it can be found again, and resolved.         *)
THEOREM OngoingIsAlwaysActive == Spec => []OngoingIsActive
<1>1. Init => OngoingInv
  <2> SUFFICES ASSUME Init PROVE OngoingInv
    OBVIOUS
  <2>1. TypeOK
    BY InitTypeOK
  <2>2. pc[Worker] = "idle"
    BY WorkerIsGoroutine DEF Init, StoreInit
  <2> QED
    BY <2>1, <2>2
       DEF Init, StoreInit, OngoingInv, ActiveOfRelease, WorksOnActive, DropsHealthy,
           OngoingIsActive, RecordLabel, ResolveLabel
<1>2. OngoingInv /\ [Next]_vars => OngoingInv'
  BY NextOngoing
<1>3. OngoingInv => OngoingIsActive
  BY DEF OngoingInv
<1> QED
  BY <1>1, <1>2, <1>3, PTL DEF Spec

----------------------------------------------------------------------------
(* Notifications and affected pods come after events.  Inductively: past    *)
(* the test that the incident exists, or past the write of its first event, *)
(* the incident of the worker exists, and has an event of the pod that is   *)
(* about to be added.                                                       *)

Knowing == {"removePod", "checkPods", "deletePods", "deleteActive", "queueResolved",
            "expireEvents", "addPod", "expirePods", "announce"}

KnowsEvents ==
  /\ pc[Worker] \in Knowing => IncidentExists(mine)
  /\ pc[Worker] \in {"expireEvents", "addPod"} => \E e \in events[mine] : e.pod = myPod

EventsInv == TypeOK /\ KnowsEvents /\ NoticesHaveEvents /\ AffectedHaveEvents

(* A step that leaves notifications, events and affected pods alone, and    *)
(* after which the worker knows no more of its incident.                    *)
LEMMA RestEvents ==
  ASSUME EventsInv, TypeOK', UNCHANGED <<events, pods, pending>>,
         pc'[Worker] \notin Knowing
  PROVE  EventsInv'
  BY DEF EventsInv, KnowsEvents, NoticesHaveEvents, AffectedHaveEvents, IncidentExists, Knowing

(* One that does, and after which it knows what it knew.                    *)
LEMMA GoOnEvents ==
  ASSUME EventsInv, TypeOK', UNCHANGED <<events, pods, pending>>,
         UNCHANGED mine, UNCHANGED myPod,
         IncidentExists(mine),
         pc'[Worker] \in {"expireEvents", "addPod"} => pc[Worker] \in {"expireEvents", "addPod"}
  PROVE  EventsInv'
  BY DEF EventsInv, KnowsEvents, Knowing, NoticesHaveEvents, AffectedHaveEvents, IncidentExists

(* A notification of the worker's incident may be appended.                 *)
LEMMA AppendEvents ==
  ASSUME EventsInv, TypeOK', UNCHANGED <<events, pods>>, NEW kind,
         IncidentExists(mine), AppendToNotifyWorkQueue(kind, mine),
         pc'[Worker] = "idle"
  PROVE  EventsInv'
<1>1. \A n \in pending' : n \in pending \/ n.incident = mine
  BY DEF AppendToNotifyWorkQueue, ZAddPending
<1>2. NoticesHaveEvents'
  BY <1>1 DEF EventsInv, NoticesHaveEvents, IncidentExists
<1> QED
  BY <1>2 DEF EventsInv, KnowsEvents, Knowing, AffectedHaveEvents

LEMMA ResolveEvents ==
  ASSUME EventsInv, TypeOK', ResolveStep(Worker)
  PROVE  EventsInv'
<1>1. FrameTypeOK /\ DataTypeOK
  BY DEF EventsInv, TypeOK, StoreTypeOK
<1>2. {"removePod", "checkPods", "deletePods", "deleteActive", "queueResolved"} \subseteq Label
  BY DEF Label, ResolveLabel
<1>3. pc[Worker] \in Knowing => IncidentExists(mine)
  BY DEF EventsInv, KnowsEvents, Knowing
<1>4. ASSUME Return(Worker), UNCHANGED <<events, pods, pending>>
      PROVE  EventsInv'
  BY <1>1, <1>4, ReturnFrame, RestEvents DEF Knowing
<1>5. ASSUME NEW label \in {"removePod", "checkPods", "deletePods", "deleteActive", "queueResolved"},
             Goto(Worker, label), IncidentExists(mine), UNCHANGED <<events, pods, pending>>
      PROVE  EventsInv'
  BY <1>1, <1>2, <1>5, GotoFrame, GoOnEvents
<1>6. CASE SetPodResolved(Worker)
  BY <1>4, <1>5, <1>6 DEF SetPodResolved, dataVars, queueVars, mine
<1>7. CASE CheckPods(Worker)
  BY <1>3, <1>4, <1>5, <1>7 DEF CheckPods, dataVars, queueVars, Knowing
<1>8. CASE SetJobIncidentResolved(Worker)
  BY <1>4, <1>5, <1>8 DEF SetJobIncidentResolved, dataVars, queueVars, mine
<1>9. CASE RemovePod(Worker) \/ DeletePods(Worker)
  <2>1. /\ UNCHANGED <<events, pending>>
        /\ \A i \in Incident : pods'[i] \subseteq pods[i]
        /\ pc[Worker] \in Knowing
        /\ pc'[Worker] \in {"checkPods", "deleteActive"} /\ mine' = mine
    BY <1>1, <1>2, <1>9, GotoFrame
       DEF RemovePod, DeletePods, SetPods, DataTypeOK, queueVars, Knowing
  <2> QED
    BY <1>3, <2>1
       DEF EventsInv, KnowsEvents, Knowing, NoticesHaveEvents, AffectedHaveEvents, IncidentExists
<1>10. CASE DeleteActive(Worker)
  BY <1>3, <1>5, <1>10 DEF DeleteActive, queueVars, Knowing
<1>11. CASE QueueResolved(Worker)
  <2>1. AppendToNotifyWorkQueue("resolved", mine) /\ IncidentExists(mine)
    BY <1>3, <1>11 DEF QueueResolved, Knowing, mine
  <2>2. pc'[Worker] = "idle" /\ UNCHANGED <<events, pods>>
    BY <1>1, <1>11, ReturnFrame DEF QueueResolved, dataVars
  <2> QED
    BY <2>1, <2>2, AppendEvents
<1> QED
  BY <1>6, <1>7, <1>8, <1>9, <1>10, <1>11 DEF ResolveStep

LEMMA RecordEvents ==
  ASSUME EventsInv, TypeOK', RecordStep
  PROVE  EventsInv'
<1>1. FrameTypeOK /\ DataTypeOK
  BY DEF EventsInv, TypeOK, StoreTypeOK
<1>2. {"dedup", "logs", "expireEvents", "addPod", "expirePods", "announce"} \subseteq Label
  BY DEF Label, RecordLabel
<1>3. pc[Worker] \in Knowing => IncidentExists(mine)
  BY DEF EventsInv, KnowsEvents, Knowing
<1>4. ASSUME EndReconcile, UNCHANGED <<events, pods, pending>>
      PROVE  EventsInv'
  BY <1>1, <1>4, ReturnFrame, RestEvents DEF Knowing
<1>5. CASE GetActiveIncident \/ CreateActiveIncident
  <2>1. pc'[Worker] = "dedup"
    BY <1>1, <1>5, WorkerIsGoroutine DEF GetActiveIncident, CreateActiveIncident, Call, FrameTypeOK
  <2> QED
    BY <1>5, <2>1, RestEvents DEF GetActiveIncident, CreateActiveIncident, dataVars, queueVars, Knowing
<1>6. CASE IgnoreMultipodDeployment
  BY <1>4, <1>6 DEF IgnoreMultipodDeployment, dataVars, queueVars
<1>7. CASE CheckDuplicate
  <2>1. ASSUME Goto(Worker, "logs"), UNCHANGED <<events, pods, pending>>
        PROVE  EventsInv'
    BY <1>1, <1>2, <2>1, GotoFrame, RestEvents DEF Knowing
  <2> QED
    BY <1>4, <1>7, <2>1 DEF CheckDuplicate, dataVars, queueVars
<1>8. ASSUME NEW c \in Container, FetchLogs(c)
      PROVE  EventsInv'
  <2>1. CASE UNCHANGED frameVars
    BY <1>8, <2>1, RestEvents DEF FetchLogs, at, frameVars, queueVars, Knowing
  <2> QED
    BY <1>4, <1>8, <2>1 DEF FetchLogs, queueVars
<1>9. CASE AddEventToIncident
  <2>1. CASE AtCap
    BY <1>4, <1>9, <2>1 DEF AddEventToIncident, queueVars
  <2>2. CASE ~AtCap
    <3> DEFINE e == [pod |-> myPod, message |-> message, timestamp |-> eventTime, score |-> now]
    <3>1. mine \in Incident
      BY <1>9, RecordFrame DEF EventsInv, AddEventToIncident, at, RecordLabel
    <3>2. /\ UNCHANGED <<pods, pending>>
          /\ events' = [events EXCEPT ![mine] = @ \cup {e}]
          /\ mine' = mine /\ myPod' = myPod
      BY <1>1, <1>2, <1>9, <2>2, GotoFrame DEF AddEventToIncident, queueVars
    <3>3. \A i \in Incident : events[i] \subseteq events'[i]
      BY <1>1, <3>2 DEF DataTypeOK
    <3>4. e \in events'[mine] /\ e.pod = myPod
      BY <1>1, <3>1, <3>2 DEF DataTypeOK
    <3>5. KnowsEvents'
      BY <3>2, <3>4 DEF KnowsEvents, Knowing, IncidentExists
    <3>6. NoticesHaveEvents'
      <4>1. \A n \in pending : n.incident \in Incident
        BY DEF EventsInv, TypeOK, StoreTypeOK, QueueTypeOK, Notice
      <4> QED
        BY <3>2, <3>3, <4>1 DEF EventsInv, NoticesHaveEvents, IncidentExists
    <3>7. AffectedHaveEvents'
      BY <3>2, <3>3 DEF EventsInv, AffectedHaveEvents
    <3> QED
      BY <3>5, <3>6, <3>7 DEF EventsInv
  <2> QED
    BY <2>1, <2>2
<1>10. CASE ExpireEvents \/ ExpirePods
  <2>1. UNCHANGED <<events, pods, pending>> /\ pc[Worker] \in {"expireEvents", "expirePods"}
    BY <1>10 DEF ExpireEvents, ExpirePods, at, queueVars
  <2>2. IncidentExists(mine)
    BY <1>3, <2>1 DEF Knowing
  <2>3. /\ mine' = mine /\ myPod' = myPod
        /\ \/ pc'[Worker] = "announce"
           \/ pc'[Worker] = "addPod" /\ pc[Worker] = "expireEvents"
    BY <1>1, <1>2, <1>10, GotoFrame DEF ExpireEvents, ExpirePods, at
  <2> QED
    BY <2>1, <2>2, <2>3, GoOnEvents
<1>11. CASE AddPod
  <2>1. mine \in Incident
    BY <1>11, RecordFrame DEF EventsInv, AddPod, at, RecordLabel
  <2>2. IncidentExists(mine) /\ \E e \in events[mine] : e.pod = myPod
    BY <1>11 DEF EventsInv, KnowsEvents, Knowing, AddPod, at
  <2>3. /\ UNCHANGED <<events, pending>>
        /\ pods' = [pods EXCEPT ![mine] = @ \cup {myPod}]
    BY <1>1, <1>11, <2>1 DEF AddPod, SetPods, queueVars, DataTypeOK
  <2>4. \/ pc'[Worker] = "idle"
        \/ pc'[Worker] = "expirePods" /\ mine' = mine
    BY <1>1, <1>2, <1>11, GotoFrame, ReturnFrame DEF AddPod
  <2>5. AffectedHaveEvents'
    BY <1>1, <2>1, <2>2, <2>3 DEF EventsInv, AffectedHaveEvents, DataTypeOK
  <2>6. NoticesHaveEvents' /\ KnowsEvents'
    BY <2>2, <2>3, <2>4 DEF EventsInv, KnowsEvents, Knowing, NoticesHaveEvents, IncidentExists
  <2> QED
    BY <2>5, <2>6 DEF EventsInv
<1>12. CASE Announce
  <2>1. AppendToNotifyWorkQueue("new", mine) /\ IncidentExists(mine)
    BY <1>3, <1>12 DEF Announce, at, Knowing
  <2>2. pc'[Worker] = "idle" /\ UNCHANGED <<events, pods>>
    BY <1>1, <1>12, ReturnFrame DEF Announce, dataVars
  <2> QED
    BY <2>1, <2>2, AppendEvents
<1> QED
  BY <1>5, <1>6, <1>7, <1>8, <1>9, <1>10, <1>11, <1>12 DEF RecordStep

LEMMA NextEvents ==
  ASSUME EventsInv, [Next]_vars
  PROVE  EventsInv'
<1>1. TypeOK' /\ FrameTypeOK
  BY NextTypeOK DEF EventsInv, TypeOK, StoreTypeOK
<1>2. CASE UNCHANGED storeVars
  BY <1>1, <1>2
     DEF EventsInv, KnowsEvents, Knowing, NoticesHaveEvents, AffectedHaveEvents, IncidentExists, mine, myPod,
         storeVars, dataVars, queueVars, frameVars
<1>3. CASE \E p \in Pod : Reconcile(p)
  <2>1. pc'[Worker] \in {"healthy", "failing"}
    BY <1>1, <1>3, WorkerIsGoroutine DEF Reconcile, FrameTypeOK
  <2> QED
    BY <1>1, <1>3, <2>1, RestEvents DEF Reconcile, dataVars, queueVars, Knowing
<1>4. CASE ResolveHealthy
  <2>1. pc'[Worker] \in {"idle", "jobResolved", "podResolved"}
    <3>1. CASE Return(Worker)
      BY <1>1, <3>1, ReturnFrame
    <3>2. ASSUME NEW method \in {"jobResolved", "podResolved"},
                 Call(Worker, method, active[myRelease], myPod)
          PROVE  pc'[Worker] = method
      BY <1>1, <3>2, WorkerIsGoroutine DEF Call, FrameTypeOK
    <3> QED
      BY <1>4, <3>1, <3>2 DEF ResolveHealthy
  <2> QED
    BY <1>1, <1>4, <2>1, RestEvents DEF ResolveHealthy, dataVars, queueVars, Knowing
<1>5. CASE AbortReconcile
  BY <1>1, <1>5, ReturnFrame, RestEvents DEF AbortReconcile, dataVars, queueVars, Knowing
<1>6. CASE ResolveStep(Worker)
  BY <1>1, <1>6, ResolveEvents
<1>7. CASE RecordStep
  BY <1>1, <1>7, RecordEvents
<1>8. CASE WorkerStep
  BY <1>3, <1>4, <1>5, <1>6, <1>7, <1>8 DEF WorkerStep
<1> QED
  BY <1>2, <1>8 DEF Next, vars

(* The strengthening holds throughout, whatever fails and crashes.          *)
LEMMA EventsInvariant == Spec => []EventsInv
<1>1. Init => EventsInv
  <2> SUFFICES ASSUME Init PROVE EventsInv
    OBVIOUS
  <2>1. TypeOK
    BY InitTypeOK
  <2>2. pc[Worker] = "idle"
    BY WorkerIsGoroutine DEF Init, StoreInit
  <2> QED
    BY <2>1, <2>2
       DEF Init, StoreInit, EventsInv, KnowsEvents, Knowing, NoticesHaveEvents, AffectedHaveEvents
<1>2. EventsInv /\ [Next]_vars => EventsInv'
  BY NextEvents
<1> QED
  BY <1>1, <1>2, PTL DEF Spec

(* Every notification in the queue is about an incident that exists: after  *)
(* any failed call and any crash, for any queue and incident                *)
(* (pkg/redis/client.go:276).                                               *)
THEOREM EventsComeFirst == Spec => []NoticesHaveEvents
<1>1. EventsInv => NoticesHaveEvents
  BY DEF EventsInv
<1> QED
  BY <1>1, EventsInvariant, PTL

(* Every affected pod has an event among those of its incident: the write   *)
(* of the pod (pkg/redis/client.go:263) never stands without the one before *)
(* it, for whatever message, after whichever failed call or crash.          *)
THEOREM AffectedComeAfterEvents == Spec => []AffectedHaveEvents
<1>1. EventsInv => AffectedHaveEvents
  BY DEF EventsInv
<1> QED
  BY <1>1, EventsInvariant, PTL

----------------------------------------------------------------------------
(* The active incident is the newest.  Inductively: none is of the future.  *)

NoneOfFuture ==
  /\ \A i \in Incident : IncidentExists(i) => i.at <= now
  /\ \A r \in Release : active[r] # None => active[r].at <= now

NewestInv == OngoingInv /\ NoneOfFuture /\ ActiveIsNewest

(* A step after which no other incidents exist or are active than before.   *)
LEMMA RestNewest ==
  ASSUME NewestInv, OngoingInv', now' = now,
         \A i \in Incident : IncidentExists(i)' => IncidentExists(i),
         \A r \in Release : active'[r] \in {active[r], None}
  PROVE  NewestInv'
<1>1. \A i \in Incident : i.release \in Release
  BY DEF Incident
<1>2. NoneOfFuture'
  BY DEF NewestInv, NoneOfFuture
<1>3. ActiveIsNewest'
  BY <1>1 DEF NewestInv, ActiveIsNewest
<1> QED
  BY <1>2, <1>3 DEF NewestInv

LEMMA NextNewest ==
  ASSUME NewestInv, [Next]_vars
  PROVE  NewestInv'
<1>1. OngoingInv' /\ TypeOK /\ DataTypeOK /\ ClusterTypeOK
  BY NextOngoing DEF NewestInv, OngoingInv, TypeOK, StoreTypeOK
<1>2. \A i \in Incident : i.release \in Release /\ i.at \in Nat
  BY DEF Incident, Time
<1>3. CASE AddEventToIncident /\ UNCHANGED clusterVars
  <2>1. pc[Worker] \in RecordLabel /\ myRelease \in Release /\ mine \in Incident
    BY <1>1, <1>3, RecordFrame, PodFrame DEF AddEventToIncident, at, RecordLabel
  <2>2. active[myRelease] = mine /\ mine # None
    BY <2>1, StoreAssumption DEF NewestInv, OngoingInv, WorksOnActive
  <2>3. mine.release = myRelease /\ mine.at <= now
    BY <2>1, <2>2 DEF NewestInv, OngoingInv, ActiveOfRelease, NoneOfFuture
  <2>4. UNCHANGED <<active, now>>
    BY <1>3 DEF AddEventToIncident, clusterVars
  <2>5. \A i \in Incident : IncidentExists(i)' => IncidentExists(i) \/ i = mine
    BY <1>1, <1>3 DEF AddEventToIncident, IncidentExists, DataTypeOK
  <2>6. NoneOfFuture'
    BY <2>3, <2>4, <2>5 DEF NewestInv, NoneOfFuture
  <2>7. ActiveIsNewest'
    BY <1>2, <2>2, <2>3, <2>4, <2>5 DEF NewestInv, ActiveIsNewest
  <2> QED
    BY <1>1, <2>6, <2>7 DEF NewestInv
<1>4. CASE CreateActiveIncident /\ UNCHANGED clusterVars
  <2>1. myRelease \in Release
    BY <1>1, <1>4, PodFrame DEF CreateActiveIncident, at
  <2>2. /\ active' = [active EXCEPT ![myRelease] = Created(now)]
        /\ UNCHANGED <<events, now>>
    BY <1>4 DEF CreateActiveIncident, clusterVars
  <2>3. Created(now).at = now /\ now \in Nat
    BY <1>1 DEF Created, ClusterTypeOK, Time
  <2>4. \A r \in Release : active'[r] = IF r = myRelease THEN Created(now) ELSE active[r]
    BY <1>1, <2>1, <2>2 DEF DataTypeOK
  <2>5. NoneOfFuture'
    BY <2>2, <2>3, <2>4 DEF NewestInv, NoneOfFuture, IncidentExists
  <2>6. ActiveIsNewest'
    BY <1>2, <2>2, <2>3, <2>4 DEF NewestInv, NoneOfFuture, ActiveIsNewest, IncidentExists
  <2> QED
    BY <1>1, <2>5, <2>6 DEF NewestInv
<1>5. CASE DeleteActive(Worker) /\ UNCHANGED clusterVars
  <2>1. now' = now /\ UNCHANGED events
    BY <1>5 DEF DeleteActive, clusterVars
  <2>2. \A r \in Release : active'[r] \in {active[r], None}
    BY <1>1, <1>5 DEF DeleteActive, DataTypeOK
  <2> QED
    BY <1>1, <2>1, <2>2, RestNewest DEF IncidentExists
<1>6. CASE ClusterStep /\ UNCHANGED <<storeVars, workerVars>>
  <2>1. UNCHANGED <<active, events>>
    BY <1>6 DEF storeVars, dataVars
  <2>2. now' >= now /\ now' \in Nat /\ now \in Nat
    BY <1>1, <1>6 DEF ClusterStep, Tick, DeletePod, RecreatePod, ClusterTypeOK, Time
  <2>3. \A r \in Release : active[r] # None => active[r].at \in Nat
    BY <1>1, <1>2 DEF DataTypeOK
  <2>4. NoneOfFuture'
    BY <1>2, <2>1, <2>2, <2>3 DEF NewestInv, NoneOfFuture, IncidentExists
  <2>5. ActiveIsNewest'
    BY <2>1 DEF NewestInv, ActiveIsNewest, IncidentExists
  <2> QED
    BY <1>1, <2>4, <2>5 DEF NewestInv
<1>7. CASE UNCHANGED <<active, events, now>>
  BY <1>1, <1>7, RestNewest DEF IncidentExists
<1>8. CASE ResolveStep(Worker) /\ UNCHANGED clusterVars
  <2>1. DeleteActive(Worker) \/ UNCHANGED <<active, events, now>>
    BY <1>8 DEF ResolveStep, SetPodResolved, RemovePod, CheckPods, SetJobIncidentResolved,
                DeletePods, QueueResolved, dataVars, clusterVars
  <2> QED
    BY <1>5, <1>7, <1>8, <2>1
<1>9. CASE RecordStep /\ UNCHANGED clusterVars
  <2>1. \/ AddEventToIncident
        \/ CreateActiveIncident
        \/ UNCHANGED <<active, events, now>>
    BY <1>9 DEF RecordStep, GetActiveIncident, IgnoreMultipodDeployment, CheckDuplicate, FetchLogs,
                ExpireEvents, AddPod, ExpirePods, Announce, dataVars, clusterVars
  <2> QED
    BY <1>3, <1>4, <1>7, <1>9, <2>1
<1>10. CASE /\ \/ \E p \in Pod : Reconcile(p)
               \/ ResolveHealthy
               \/ AbortReconcile
            /\ UNCHANGED clusterVars
  BY <1>7, <1>10 DEF Reconcile, ResolveHealthy, AbortReconcile, dataVars, clusterVars
<1>11. CASE UNCHANGED vars
  BY <1>7, <1>11 DEF vars, storeVars, dataVars, clusterVars
<1> QED
  BY <1>6, <1>8, <1>9, <1>10, <1>11 DEF Next, WorkerStep

(* The active incident of a release is the newest one it ever had: no       *)
(* failed call or crash makes the worker file events under an older one.    *)
THEOREM ActiveIsAlwaysNewest == Spec => []ActiveIsNewest
<1>1. Init => NewestInv
  <2> SUFFICES ASSUME Init PROVE NewestInv
    OBVIOUS
  <2>1. TypeOK
    BY InitTypeOK
  <2>2. pc[Worker] = "idle"
    BY WorkerIsGoroutine DEF Init, StoreInit
  <2> QED
    BY <2>1, <2>2
       DEF Init, StoreInit, NewestInv, OngoingInv, ActiveOfRelease, WorksOnActive, DropsHealthy,
           OngoingIsActive, NoneOfFuture, ActiveIsNewest, IncidentExists, RecordLabel, ResolveLabel
<1>2. NewestInv /\ [Next]_vars => NewestInv'
  BY NextNewest
<1>3. NewestInv => ActiveIsNewest
  BY DEF NewestInv
<1> QED
  BY <1>1, <1>2, <1>3, PTL DEF Spec
----------------------------------------------------------------------------
(* The cap on events.  Inductively: the reconcile that made an incident, or *)
(* made it again in its second, finds no event in it that is later than     *)
(* that second, so the one event it adds uncounted is the only late one.    *)

FiniteEvents == \A i \in Incident : IsFiniteSet(events[i])

NoEventOfFuture == \A i \in Incident : \A e \in events[i] : e.score <= now

NewIsEarly ==
  /\ newIncident => pc[Worker] \in RecordLabel
  /\ newIncident /\ pc[Worker] \in {"dedup", "logs"} =>
       \A e \in events[mine] : e.score <= mine.at

CappedInv == TypeOK /\ FiniteEvents /\ NoEventOfFuture /\ NewIsEarly /\ EventsCapped

(* A step that adds no event and makes no incident.                         *)
LEMMA RestCapped ==
  ASSUME CappedInv, TypeOK', UNCHANGED <<events, now>>,
         newIncident' => pc'[Worker] \in RecordLabel,
         newIncident' /\ pc'[Worker] \in {"dedup", "logs"} =>
           newIncident /\ pc[Worker] \in {"dedup", "logs"} /\ mine' = mine
  PROVE  CappedInv'
  BY DEF CappedInv, FiniteEvents, NoEventOfFuture, NewIsEarly, EventsCapped

LEMMA CreateCapped ==
  ASSUME CappedInv, TypeOK', CreateActiveIncident, now' = now
  PROVE  CappedInv'
<1>1. FrameTypeOK /\ now \in Time /\ "dedup" \in Label /\ "dedup" \in RecordLabel
  BY DEF CappedInv, TypeOK, StoreTypeOK, ClusterTypeOK, Label, RecordLabel
<1>2. myPod \in Pod /\ myRelease \in Release
  BY PodFrame DEF CappedInv, CreateActiveIncident, at
<1>3. Created(now) \in Incident /\ Created(now).at = now
  BY <1>1, <1>2 DEF Created, Incident
<1>4. pc'[Worker] = "dedup" /\ mine' = Created(now) /\ UNCHANGED events
  BY <1>1, <1>2, <1>3, CallFrame DEF CreateActiveIncident
<1>5. NewIsEarly'
  BY <1>1, <1>3, <1>4 DEF CappedInv, NewIsEarly, NoEventOfFuture
<1> QED
  BY <1>4, <1>5 DEF CappedInv, FiniteEvents, NoEventOfFuture, EventsCapped

LEMMA AddCapped ==
  ASSUME CappedInv, TypeOK', AddEventToIncident, ~AtCap, now' = now
  PROVE  CappedInv'
<1> DEFINE e == [pod |-> myPod, message |-> message, timestamp |-> eventTime, score |-> now]
           late == {x \in events[mine] \cup {e} : x.score > mine.at}
<1>1. FrameTypeOK /\ DataTypeOK /\ now \in Nat /\ mine \in Incident /\ mine.at \in Nat
  BY RecordFrame DEF CappedInv, TypeOK, StoreTypeOK, ClusterTypeOK, AddEventToIncident, at, RecordLabel,
                     Time, Incident
<1>2. \A i \in Incident : events'[i] = IF i = mine THEN events[i] \cup {e} ELSE events[i]
  BY <1>1 DEF AddEventToIncident, DataTypeOK
<1>3. e.score = now
  OBVIOUS
<1> HIDE DEF e
<1>4. FiniteEvents'
  <2>1. IsFiniteSet(events[mine] \cup {e})
    BY <1>1, FS_AddElement DEF CappedInv, FiniteEvents
  <2> QED
    BY <1>2, <2>1 DEF CappedInv, FiniteEvents
<1>5. NoEventOfFuture'
  <2> SUFFICES ASSUME NEW i \in Incident, NEW x \in events'[i]
               PROVE  x.score <= now
    BY DEF NoEventOfFuture
  <2>1. x \in events[i] \/ x = e
    BY <1>2
  <2> QED
    BY <1>1, <1>3, <2>1 DEF CappedInv, NoEventOfFuture
<1>6. NewIsEarly'
  <2>1. /\ pc'[Worker] = IF newIncident THEN "expireEvents" ELSE "addPod"
        /\ newIncident' = newIncident
    BY <1>1, GotoFrame DEF AddEventToIncident, workerVars, Label, RecordLabel
  <2> QED
    BY <2>1 DEF NewIsEarly, RecordLabel
<1>7. IsFiniteSet(events[mine]) /\ Cardinality(events[mine]) \in Nat /\ MaxEvents \in Nat
  BY <1>1, FS_CardinalityType, ReconcilerAssumption DEF CappedInv, FiniteEvents
<1>8. \/ Cardinality(events[mine] \cup {e}) <= MaxEvents
      \/ Cardinality(late) <= 1
  <2>1. CASE ~newIncident
    <3>1. Cardinality(events[mine]) < MaxEvents
      BY <1>7, <2>1 DEF AtCap
    <3>2. Cardinality(events[mine] \cup {e}) =
            IF e \in events[mine] THEN Cardinality(events[mine]) ELSE Cardinality(events[mine]) + 1
      BY <1>7, FS_AddElement
    <3> HIDE DEF late
    <3> QED
      BY <1>7, <3>1, <3>2
  <2>2. CASE newIncident
    <3>1. \A x \in events[mine] : x.score <= mine.at
      BY <2>2 DEF CappedInv, NewIsEarly, AddEventToIncident, at
    <3>2. \A x \in events[mine] : x.score \in Nat
      BY <1>1 DEF DataTypeOK, Event, Time
    <3>3. late \in SUBSET {e}
      BY <1>1, <3>1, <3>2
    <3>4. IsFiniteSet({e}) /\ Cardinality({e}) = 1
      BY FS_Singleton
    <3> HIDE DEF late
    <3>5. IsFiniteSet(late) /\ Cardinality(late) <= Cardinality({e})
      BY <3>3, <3>4, FS_Subset
    <3> QED
      BY <3>4, <3>5
  <2> QED
    BY <2>1, <2>2
<1>9. EventsCapped'
  BY <1>2, <1>8 DEF CappedInv, EventsCapped
<1> QED
  BY <1>4, <1>5, <1>6, <1>9 DEF CappedInv

LEMMA NextCapped ==
  ASSUME CappedInv, [Next]_vars
  PROVE  CappedInv'
<1>1. TypeOK /\ TypeOK' /\ FrameTypeOK /\ WorkerTypeOK
  BY NextTypeOK DEF CappedInv, TypeOK, StoreTypeOK
<1>2. CASE UNCHANGED <<storeVars, workerVars>>
  <2>1. UNCHANGED <<events, pc, mine, newIncident>>
    BY <1>2 DEF storeVars, dataVars, frameVars, workerVars, mine
  <2>2. now' >= now /\ now \in Nat /\ now' \in Nat
    BY <1>1 DEF Next, vars, clusterVars, WorkerStep, ClusterStep, Tick, DeletePod, RecreatePod, TypeOK,
                ClusterTypeOK, Time
  <2>3. NoEventOfFuture'
    <3>1. \A i \in Incident : \A e \in events[i] : e.score \in Nat
      BY <1>1 DEF TypeOK, StoreTypeOK, DataTypeOK, Event, Time
    <3> QED
      BY <2>1, <2>2, <3>1 DEF CappedInv, NoEventOfFuture
  <2> QED
    BY <1>1, <2>1, <2>3 DEF CappedInv, FiniteEvents, NewIsEarly, EventsCapped
<1>3. ASSUME UNCHANGED <<events, now>>, newIncident' = FALSE
      PROVE  CappedInv'
  BY <1>1, <1>3, RestCapped
<1>4. ASSUME UNCHANGED <<events, now>>, UNCHANGED newIncident, pc[Worker] \notin RecordLabel
      PROVE  CappedInv'
  BY <1>1, <1>3, <1>4 DEF CappedInv, NewIsEarly, WorkerTypeOK
<1>5. ASSUME UNCHANGED <<events, now, newIncident, mine>>, pc'[Worker] \in RecordLabel,
             pc'[Worker] \in {"dedup", "logs"} => pc[Worker] \in {"dedup", "logs"}
      PROVE  CappedInv'
  BY <1>1, <1>5, RestCapped
<1>6. ASSUME RecordStep, now' = now
      PROVE  CappedInv'
  <2>1. CASE EndReconcile /\ UNCHANGED events
    BY <1>3, <1>6, <2>1 DEF EndReconcile
  <2>2. CASE GetActiveIncident \/ IgnoreMultipodDeployment
    BY <1>4, <1>6, <2>1, <2>2
       DEF GetActiveIncident, IgnoreMultipodDeployment, at, workerVars, dataVars, RecordLabel
  <2>3. ASSUME NEW label \in {"logs", "addPod", "expirePods", "announce"}, Goto(Worker, label),
               UNCHANGED <<events, newIncident>>, label = "logs" => at("dedup")
        PROVE  CappedInv'
    <3>1. label \in Label /\ label \in RecordLabel
      BY DEF Label, RecordLabel
    <3> QED
      BY <1>1, <1>5, <1>6, <2>3, <3>1, GotoFrame DEF at
  <2>4. CASE CheckDuplicate \/ ExpireEvents \/ AddPod \/ ExpirePods \/ Announce
    BY <2>1, <2>3, <2>4 DEF CheckDuplicate, ExpireEvents, AddPod, ExpirePods, Announce, dataVars, workerVars
  <2>5. ASSUME NEW c \in Container, FetchLogs(c)
        PROVE  CappedInv'
    <3>1. CASE UNCHANGED frameVars /\ UNCHANGED newIncident
      BY <1>5, <1>6, <2>5, <3>1 DEF FetchLogs, at, frameVars, mine, RecordLabel
    <3> QED
      BY <2>1, <2>5, <3>1 DEF FetchLogs
  <2>6. CASE AddEventToIncident
    BY <1>1, <1>6, <2>1, <2>6, AddCapped DEF AddEventToIncident
  <2> QED
    BY <1>1, <1>6, <2>2, <2>4, <2>5, <2>6, CreateCapped DEF RecordStep
<1>7. CASE WorkerStep /\ UNCHANGED clusterVars
  <2>1. now' = now
    BY <1>7 DEF clusterVars
  <2>2. CASE ResolveStep(Worker) /\ UNCHANGED workerVars
    BY <1>4, <2>1, <2>2
       DEF ResolveStep, SetPodResolved, RemovePod, CheckPods, SetJobIncidentResolved, DeletePods,
           DeleteActive, QueueResolved, dataVars, workerVars, RecordLabel
  <2>3. CASE (\E p \in Pod : Reconcile(p)) \/ ResolveHealthy
    BY <1>4, <2>1, <2>3 DEF Reconcile, ResolveHealthy, at, dataVars, workerVars, RecordLabel
  <2>4. CASE AbortReconcile
    BY <1>3, <2>1, <2>4 DEF AbortReconcile, EndReconcile, dataVars
  <2> QED
    BY <1>6, <1>7, <2>1, <2>2, <2>3, <2>4 DEF WorkerStep
<1> QED
  BY <1>2, <1>7 DEF Next, vars

LEMMA InitCapped ==
  ASSUME Init
  PROVE  CappedInv
<1>1. TypeOK /\ newIncident = FALSE /\ \A i \in Incident : events[i] = {}
  BY InitTypeOK DEF Init, StoreInit, ReconcilerInit
<1>2. IsFiniteSet({}) /\ Cardinality({}) = 0
  BY FS_EmptySet
<1>3. \A i \in Incident : IsFiniteSet(events[i]) /\ Cardinality(events[i]) <= MaxEvents
  BY <1>1, <1>2, ReconcilerAssumption
<1> QED
  BY <1>1, <1>3 DEF CappedInv, FiniteEvents, NoEventOfFuture, NewIsEarly, EventsCapped

(* AddEventToIncident keeps an incident at MaxEvents events, up to the one  *)
(* it adds uncounted to an incident made again in its second of creation:   *)
(* whatever fails, and however often a pod fails.                           *)
THEOREM EventsAreCapped == Spec => []EventsCapped
<1>1. CappedInv /\ [Next]_vars => CappedInv'
  BY NextCapped
<1>2. CappedInv => EventsCapped
  BY DEF CappedInv
<1> QED
  BY InitCapped, <1>1, <1>2, PTL DEF Spec

=============================================================================
