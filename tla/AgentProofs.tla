---------------------------- MODULE AgentProofs ----------------------------
(***************************************************************************)
(* Proofs about Agent, for any numbers of sweeps and consumers beside the  *)
(* worker, with or without failing calls and crashes.                      *)
(***************************************************************************)
EXTENDS Agent, ReconcilerProofs

(* The frames of the goroutines other than g are left alone.                *)
OthersKept(g) ==
  \A h \in Goroutine \ {g} : pc'[h] = pc[h] /\ inc'[h] = inc[h] /\ pod'[h] = pod[h]

(* A notification is appended to the queue, or the queue is left alone.     *)
MayAppend ==
  \/ UNCHANGED queueVars
  \/ \E kind \in {"new", "resolved"} : \E i \in Incident : AppendToNotifyWorkQueue(kind, i)

LEMMA FrameKeepsOthers ==
  ASSUME NEW g \in Goroutine, FrameTypeOK,
         \/ Return(g)
         \/ \E label \in Label : Goto(g, label)
         \/ \E label \in Label : \E i \in Incident : \E p \in Pod : Call(g, label, i, p)
         \/ UNCHANGED frameVars
  PROVE  OthersKept(g)
  BY DEF FrameTypeOK, Return, Goto, Call, frameVars, OthersKept

----------------------------------------------------------------------------
(* What the steps of the client's resolving methods do to the store,        *)
(* whichever goroutine runs them.                                           *)

LEMMA ResolveEffect ==
  ASSUME StoreTypeOK, NEW g \in Goroutine, ResolveStep(g)
  PROVE  /\ UNCHANGED events
         /\ \A i \in Incident : pods'[i] \subseteq pods[i]
         /\ \A r \in Release : active'[r] \in {active[r], None}
         /\ OthersKept(g)
         /\ \/ UNCHANGED queueVars
            \/ pc[g] = "queueResolved" /\ AppendToNotifyWorkQueue("resolved", inc[g])
         /\ pc'[g] \in Knowing =>
              inc'[g] = inc[g] /\ (pc[g] \in Knowing \/ IncidentExists(inc[g]))
         /\ pc'[g] \notin RecordLabel
<1> USE DEF StoreTypeOK
<1>1. {"removePod", "checkPods", "deletePods", "deleteActive", "queueResolved"} \subseteq Label
  BY DEF Label, ResolveLabel
<1>2. pc[g] \in ResolveLabel /\ inc[g] \in Incident
  BY DEF ResolveStep, SetPodResolved, RemovePod, CheckPods, SetJobIncidentResolved,
         DeletePods, DeleteActive, QueueResolved, ResolveLabel, FrameTypeOK
<1>3. OthersKept(g)
  BY <1>1, FrameKeepsOthers
     DEF ResolveStep, SetPodResolved, RemovePod, CheckPods, SetJobIncidentResolved,
         DeletePods, DeleteActive, QueueResolved
<1>4. UNCHANGED events
  BY DEF ResolveStep, SetPodResolved, RemovePod, CheckPods, SetJobIncidentResolved,
         DeletePods, DeleteActive, QueueResolved, dataVars
<1>5. \A i \in Incident : pods'[i] \subseteq pods[i]
  BY <1>2 DEF ResolveStep, SetPodResolved, RemovePod, CheckPods, SetJobIncidentResolved,
         DeletePods, DeleteActive, QueueResolved, dataVars, SetPods, DataTypeOK
<1>6. \A r \in Release : active'[r] \in {active[r], None}
  BY <1>2 DEF ResolveStep, SetPodResolved, RemovePod, CheckPods, SetJobIncidentResolved,
         DeletePods, DeleteActive, QueueResolved, dataVars, DataTypeOK
<1>7. \/ UNCHANGED queueVars
      \/ pc[g] = "queueResolved" /\ AppendToNotifyWorkQueue("resolved", inc[g])
  BY DEF ResolveStep, SetPodResolved, RemovePod, CheckPods, SetJobIncidentResolved,
         DeletePods, DeleteActive, QueueResolved
<1>8. /\ pc'[g] \in Knowing =>
           inc'[g] = inc[g] /\ (pc[g] \in Knowing \/ IncidentExists(inc[g]))
      /\ pc'[g] \notin RecordLabel
  <2>1. CASE Return(g)
    BY <2>1 DEF Return, FrameTypeOK, Knowing, RecordLabel
  <2>2. CASE SetPodResolved(g) \/ SetJobIncidentResolved(g)
    BY <2>1, <2>2 DEF SetPodResolved, SetJobIncidentResolved, Goto, FrameTypeOK, RecordLabel
  <2>3. CASE RemovePod(g) \/ CheckPods(g) \/ DeletePods(g) \/ DeleteActive(g) \/ QueueResolved(g)
    BY <2>1, <2>3 DEF RemovePod, CheckPods, DeletePods, DeleteActive, QueueResolved, Goto, FrameTypeOK,
           Knowing, RecordLabel
  <2> QED
    BY <2>2, <2>3 DEF ResolveStep
<1> QED
  BY <1>3, <1>4, <1>5, <1>6, <1>7, <1>8

(* And what the worker's steps do to what the others have.                  *)
LEMMA WorkerEffect ==
  ASSUME TypeOK, WorkerStep
  PROVE  /\ \A i \in Incident : events[i] \subseteq events'[i]
         /\ OthersKept(Worker)
         /\ MayAppend
<1>1. FrameTypeOK /\ DataTypeOK
  BY DEF TypeOK, StoreTypeOK
<1>2. {"dedup", "logs", "expireEvents", "addPod", "expirePods", "announce",
       "podResolved", "jobResolved"} \subseteq Label
  BY DEF Label, RecordLabel, ResolveLabel
<1> USE WorkerIsGoroutine
<1>3. ASSUME NEW p \in Pod, Reconcile(p)
      PROVE  /\ \A i \in Incident : events[i] \subseteq events'[i]
             /\ OthersKept(Worker) /\ MayAppend
  BY <1>1, <1>3 DEF Reconcile, dataVars, OthersKept, MayAppend, FrameTypeOK
<1>4. CASE ResolveHealthy
  <2>1. myPod \in Pod /\ myRelease \in Release
    BY <1>4, PodFrame DEF ResolveHealthy, at
  <2>2. active[myRelease] # None => active[myRelease] \in Incident
    BY <1>1, <2>1 DEF DataTypeOK
  <2>3. OthersKept(Worker)
    BY <1>1, <1>2, <1>4, <2>1, <2>2, FrameKeepsOthers DEF ResolveHealthy
  <2> QED
    BY <1>4, <2>3 DEF ResolveHealthy, dataVars, MayAppend
<1>5. CASE ResolveStep(Worker)
  <2>1. pc[Worker] = "queueResolved" => inc[Worker] \in Incident
    BY <1>1 DEF FrameTypeOK, ResolveLabel
  <2> QED
    BY <1>5, <2>1, ResolveEffect DEF TypeOK, MayAppend
<1>6. CASE RecordStep
  <2>1. CASE GetActiveIncident \/ IgnoreMultipodDeployment \/ CreateActiveIncident
    <3>1. myPod \in Pod /\ myRelease \in Release
      BY <2>1, PodFrame DEF GetActiveIncident, IgnoreMultipodDeployment, CreateActiveIncident, at
    <3>2. Created(now) \in Incident
      BY <3>1 DEF TypeOK, ClusterTypeOK, Created, Incident
    <3>3. active[myRelease] # None => active[myRelease] \in Incident
      BY <1>1, <3>1 DEF DataTypeOK
    <3>4. OthersKept(Worker)
      BY <1>1, <1>2, <2>1, <3>1, <3>2, <3>3, FrameKeepsOthers
         DEF GetActiveIncident, IgnoreMultipodDeployment, CreateActiveIncident, EndReconcile
    <3> QED
      BY <2>1, <3>4 DEF GetActiveIncident, IgnoreMultipodDeployment, CreateActiveIncident, dataVars, MayAppend
  <2>2. CASE CheckDuplicate \/ ExpireEvents \/ AddPod \/ ExpirePods
    <3>1. OthersKept(Worker)
      BY <1>1, <1>2, <2>2, FrameKeepsOthers DEF CheckDuplicate, ExpireEvents, AddPod, ExpirePods, EndReconcile
    <3> QED
      BY <2>2, <3>1 DEF CheckDuplicate, ExpireEvents, AddPod, ExpirePods, dataVars, MayAppend
  <2>3. ASSUME NEW c \in Container, FetchLogs(c)
        PROVE  /\ \A i \in Incident : events[i] \subseteq events'[i]
               /\ OthersKept(Worker) /\ MayAppend
    <3>1. OthersKept(Worker)
      BY <1>1, <2>3, FrameKeepsOthers DEF FetchLogs, EndReconcile
    <3> QED
      BY <2>3, <3>1 DEF FetchLogs, MayAppend
  <2>4. CASE AddEventToIncident
    <3>1. OthersKept(Worker)
      BY <1>1, <1>2, <2>4, FrameKeepsOthers DEF AddEventToIncident, EndReconcile
    <3>2. \A i \in Incident : events[i] \subseteq events'[i]
      BY <1>1, <2>4 DEF AddEventToIncident, DataTypeOK
    <3> QED
      BY <2>4, <3>1, <3>2 DEF AddEventToIncident, MayAppend
  <2>5. CASE Announce
    <3>1. mine \in Incident
      BY <2>5, RecordFrame DEF Announce, at, RecordLabel
    <3>2. OthersKept(Worker)
      BY <1>1, <2>5, FrameKeepsOthers DEF Announce, EndReconcile
    <3> QED
      BY <2>5, <3>1, <3>2 DEF Announce, dataVars, MayAppend
  <2> QED
    BY <1>6, <2>1, <2>2, <2>3, <2>4, <2>5 DEF RecordStep
<1>7. CASE AbortReconcile
  <2>1. OthersKept(Worker)
    BY <1>1, <1>7, FrameKeepsOthers DEF AbortReconcile, EndReconcile
  <2> QED
    BY <1>7, <2>1 DEF AbortReconcile, dataVars, MayAppend
<1> QED
  BY <1>3, <1>4, <1>5, <1>6, <1>7 DEF WorkerStep

----------------------------------------------------------------------------
(* Type correctness.                                                        *)

LEMMA InitAgentTypeOK ==
  ASSUME AgentInit
  PROVE  AgentTypeOK
<1>1. TypeOK
  BY InitTypeOK DEF AgentInit
<1>2. SweeperTypeOK
  BY DEF AgentInit, SweeperInit, SweeperTypeOK
<1>3. NotifierTypeOK
  BY DEF AgentInit, NotifierInit, NotifierTypeOK
<1>4. HistoryTypeOK
  BY DEF AgentInit, HistoryTypeOK
<1> QED
  BY <1>1, <1>2, <1>3, <1>4 DEF AgentTypeOK

(* Only incidents are opened, and what is opened again was opened before.   *)
LEMMA HistoryStep ==
  ASSUME HistoryTypeOK, [AgentNext]_agentVars
  PROVE  HistoryTypeOK'
<1>1. CASE UNCHANGED historyVars
  BY <1>1 DEF historyVars, HistoryTypeOK
<1>2. CASE Reconciling
  BY <1>2 DEF Reconciling, Opening, HistoryTypeOK
<1> QED
  BY <1>1, <1>2 DEF AgentNext, Sweeping, Consuming, agentVars

LEMMA SweepingTypeOK ==
  ASSUME AgentTypeOK, NEW s \in Sweepers, Sweeping(s)
  PROVE  AgentTypeOK'
<1> USE DEF AgentTypeOK, TypeOK
<1>1. s \in Goroutine /\ s # Worker
  BY SweeperAssumption, AgentAssumption
<1>2. ClusterTypeOK' /\ NotifierTypeOK' /\ HistoryTypeOK' /\ UNCHANGED <<clusterVars, workerVars>>
  BY DEF Sweeping, clusterVars, consumerVars, historyVars, ClusterTypeOK, NotifierTypeOK, HistoryTypeOK
<1>3. FrameTypeOK /\ DataTypeOK /\ QueueTypeOK
  BY DEF StoreTypeOK
<1>4. UNCHANGED storeVars => StoreTypeOK'
  BY <1>3 DEF StoreTypeOK, FrameTypeOK, DataTypeOK, QueueTypeOK, storeVars, frameVars, dataVars, queueVars
<1>5. ASSUME StoreTypeOK', OthersKept(s)
      PROVE  TypeOK'
  <2>1. pc'[Worker] = pc[Worker]
    BY <1>1, <1>5, WorkerIsGoroutine DEF OthersKept
  <2> QED
    BY <1>2, <1>5, <2>1 DEF WorkerTypeOK, workerVars
<1>6. CASE StartSweep(s) \/ ReadPointer(s) \/ ListPods(s) \/ ReadFails(s)
  <2>1. TypeOK'
    BY <1>1, <1>3, <1>4, <1>5, <1>6, FrameKeepsOthers
       DEF StartSweep, ReadPointer, ListPods, ReadFails, storeVars
  <2>2. SweeperTypeOK'
    BY <1>3, <1>6 DEF StartSweep, ReadPointer, ListPods, ReadFails, SweeperTypeOK, DataTypeOK, Suspect
  <2> QED
    BY <1>2, <2>1, <2>2
<1>7. CASE CheckPod(s)
  <2>1. PICK t \in suspects[s] : IF t.pod \in deleted THEN Call(s, "podResolved", t.incident, t.pod)
                                                       ELSE UNCHANGED frameVars
    BY <1>7 DEF CheckPod
  <2>2. t.incident \in Incident /\ t.pod \in Pod
    BY DEF SweeperTypeOK, Suspect
  <2>3. "podResolved" \in ResolveLabel \cup RecordLabel /\ "podResolved" \in Label
    BY DEF ResolveLabel, Label
  <2>4. FrameTypeOK'
    BY <1>1, <1>3, <2>1, <2>2, <2>3, CallTypeOK DEF FrameTypeOK, frameVars
  <2>5. OthersKept(s)
    BY <1>1, <1>3, <2>1, <2>2, <2>3, FrameKeepsOthers
  <2>6. DataTypeOK' /\ QueueTypeOK'
    BY <1>3, <1>7 DEF CheckPod, dataVars, queueVars, DataTypeOK, QueueTypeOK
  <2>7. SweeperTypeOK'
    BY <1>7 DEF CheckPod, SweeperTypeOK
  <2> QED
    BY <1>2, <1>5, <2>4, <2>5, <2>6, <2>7 DEF StoreTypeOK
<1>8. CASE ResolveStep(s) /\ UNCHANGED sweepVars
  <2>1. TypeOK'
    BY <1>1, <1>5, <1>8, ResolveTypeOK, ResolveEffect
  <2>2. SweeperTypeOK'
    BY <1>8 DEF sweepVars, SweeperTypeOK
  <2> QED
    BY <1>2, <2>1, <2>2
<1>9. CASE (CallFails(s) /\ UNCHANGED sweepVars) \/ AbortSweep(s)
  <2>1. Return(s) /\ UNCHANGED <<dataVars, queueVars>>
    BY <1>9 DEF CallFails, AbortSweep
  <2>2. StoreTypeOK'
    BY <1>1, <1>3, <2>1, ReturnTypeOK DEF StoreTypeOK, DataTypeOK, QueueTypeOK, dataVars, queueVars
  <2>3. OthersKept(s)
    BY <1>1, <1>3, <2>1, FrameKeepsOthers
  <2>4. SweeperTypeOK'
    BY <1>9 DEF AbortSweep, sweepVars, SweeperTypeOK
  <2> QED
    BY <1>2, <1>5, <2>2, <2>3, <2>4
<1> QED
  BY <1>6, <1>7, <1>8, <1>9 DEF Sweeping, SweepStep

(* The end of a consumer's turn.                                            *)
LEMMA AwaitPulseTypeOK ==
  ASSUME NotifierTypeOK, NEW c \in Consumers, AwaitPulse(c),
         told' \subseteq [kind : {"new", "resolved"}, incident : Incident, state : {"RESOLVED", "ONGOING"}]
  PROVE  NotifierTypeOK'
  BY DEF NotifierTypeOK, AwaitPulse

LEMMA ConsumingTypeOK ==
  ASSUME AgentTypeOK, NEW c \in Consumers, Consuming(c)
  PROVE  AgentTypeOK'
<1> USE DEF AgentTypeOK
<1>1. /\ ClusterTypeOK' /\ DataTypeOK' /\ FrameTypeOK' /\ WorkerTypeOK' /\ SweeperTypeOK'
      /\ HistoryTypeOK'
  BY DEF Consuming, TypeOK, StoreTypeOK, clusterVars, dataVars, frameVars, workerVars, sweepVars, historyVars,
         ClusterTypeOK, DataTypeOK, FrameTypeOK, WorkerTypeOK, SweeperTypeOK, HistoryTypeOK
<1>2. QueueTypeOK
  BY DEF TypeOK, StoreTypeOK
<1>3. cpc[c] \in {"details", "posting", "requeue"} => held[c] \in Notice
  BY DEF NotifierTypeOK
<1>4. UNCHANGED told =>
        told' \subseteq [kind : {"new", "resolved"}, incident : Incident, state : {"RESOLVED", "ONGOING"}]
  BY DEF NotifierTypeOK
<1>5. SUFFICES QueueTypeOK' /\ NotifierTypeOK'
  BY <1>1 DEF TypeOK, StoreTypeOK
<1>6. UNCHANGED queueVars => QueueTypeOK'
  BY <1>2 DEF queueVars, QueueTypeOK
<1>7. CASE CheckPending(c)
  BY <1>6, <1>7 DEF CheckPending, NotifierTypeOK
<1>8. CASE PopPending(c)
  <2>1. QueueTypeOK'
    BY <1>2, <1>8 DEF PopPending, QueueTypeOK
  <2>2. pending \subseteq Notice /\ Oldest \subseteq pending
    BY <1>2 DEF QueueTypeOK, Oldest
  <2>3. NotifierTypeOK'
    BY <1>8, <2>2 DEF PopPending, NotifierTypeOK
  <2> QED
    BY <2>1, <2>3
<1>9. CASE GetIncidentDetails(c)
  <2>1. CASE AwaitPulse(c) /\ UNCHANGED <<told, queueVars>>
    BY <1>4, <1>6, <2>1, AwaitPulseTypeOK
  <2>2. CASE IncidentExists(held[c].incident)
    BY <1>3, <1>6, <1>9, <2>2 DEF GetIncidentDetails, NotifierTypeOK
  <2> QED
    BY <1>9, <2>1, <2>2 DEF GetIncidentDetails
<1>10. CASE PostNotification(c)
  <2>1. cpc[c] = "posting" /\ held[c] \in Notice /\ state[c] \in {"RESOLVED", "ONGOING"}
    BY <1>10 DEF PostNotification, NotifierTypeOK
  <2>2. [kind |-> held[c].kind, incident |-> held[c].incident, state |-> state[c]]
          \in [kind : {"new", "resolved"}, incident : Incident, state : {"RESOLVED", "ONGOING"}]
    BY <2>1 DEF Notice
  <2>5. told' \subseteq [kind : {"new", "resolved"}, incident : Incident, state : {"RESOLVED", "ONGOING"}]
    <3>1. CASE UNCHANGED told
      BY <1>4, <3>1
    <3>2. CASE Tell(c)
      BY <2>2, <3>2 DEF Tell, NotifierTypeOK
    <3> QED
      BY <1>10, <3>1, <3>2 DEF PostNotification
  <2>3. CASE AwaitPulse(c)
    BY <1>6, <1>10, <2>3, <2>5, AwaitPulseTypeOK DEF PostNotification
  <2>4. CASE cpc' = [cpc EXCEPT ![c] = "requeue"] /\ UNCHANGED <<held, state>>
    BY <1>6, <1>10, <2>1, <2>4, <2>5 DEF PostNotification, NotifierTypeOK
  <2> QED
    BY <1>10, <2>3, <2>4 DEF PostNotification
<1>11. CASE RequeueItemWithScore(c)
  <2>1. held[c] \in Notice
    BY <1>3, <1>11 DEF RequeueItemWithScore
  <2>2. QueueTypeOK'
    BY <1>2, <1>11, <2>1 DEF RequeueItemWithScore, ZAddPending, QueueTypeOK, Notice
  <2> QED
    BY <1>4, <1>11, <2>2, AwaitPulseTypeOK DEF RequeueItemWithScore
<1>12. CASE ConsumerCallFails(c) \/ RestartConsumer(c)
  <2>1. CASE AwaitPulse(c)
    BY <1>4, <1>6, <1>12, <2>1, AwaitPulseTypeOK DEF ConsumerCallFails, RestartConsumer
  <2>2. CASE cpc[c] = "details" /\ cpc' = [cpc EXCEPT ![c] = "requeue"] /\ UNCHANGED <<held, state>>
    BY <1>3, <1>6, <1>12, <2>2 DEF ConsumerCallFails, RestartConsumer, NotifierTypeOK
  <2> QED
    BY <1>12, <2>1, <2>2 DEF ConsumerCallFails, RestartConsumer
<1> QED
  BY <1>7, <1>8, <1>9, <1>10, <1>11, <1>12 DEF Consuming, ConsumerStep

LEMMA NextAgentTypeOK ==
  ASSUME AgentTypeOK, [AgentNext]_agentVars
  PROVE  AgentTypeOK'
<1> USE DEF AgentTypeOK
<1>1. UNCHANGED sweepVars => SweeperTypeOK'
  BY DEF sweepVars, SweeperTypeOK
<1>2. UNCHANGED consumerVars => NotifierTypeOK'
  BY DEF consumerVars, NotifierTypeOK
<1>3. CASE [Next]_vars /\ UNCHANGED <<sweepVars, consumerVars>>
  BY <1>1, <1>2, <1>3, NextTypeOK, HistoryStep
<1>4. CASE AgentNext
  BY <1>3, <1>4, SweepingTypeOK, ConsumingTypeOK DEF AgentNext, Reconciling, Next
<1> QED
  BY <1>3, <1>4 DEF agentVars

(* The store, the worker, every sweep and every consumer only ever hold     *)
(* values of their types, whatever their interleaving: what a sweep holds   *)
(* of its stale reads is a release, an incident or a pod                    *)
(* (process_deleted_pods.go), and a consumer past the queue a notification. *)
THEOREM AgentTypeCorrect == AgentSpec => []AgentTypeOK
<1>1. AgentInit => AgentTypeOK
  BY InitAgentTypeOK
<1>2. AgentTypeOK /\ [AgentNext]_agentVars => AgentTypeOK'
  BY NextAgentTypeOK
<1> QED
  BY <1>1, <1>2, PTL DEF AgentSpec

----------------------------------------------------------------------------
(* Incidents exist before anything is said of them.  Inductively, on top of *)
(* what the worker knows: every sweep past the test that its incident       *)
(* exists, and every consumer past the queue, has one that does.  Events    *)
(* are never taken away, so the steps of the others cannot falsify it.      *)

SweepsKnow ==
  \A s \in Sweepers : pc[s] \in Knowing => IncidentExists(inc[s])

AgentEventsInv == AgentTypeOK /\ EventsInv /\ SweepsKnow /\ HeldHaveEvents

(* What a step of a sweep does to the store and to the others.              *)
LEMMA SweepEffect ==
  ASSUME AgentTypeOK, NEW s \in Sweepers, Sweeping(s)
  PROVE  /\ UNCHANGED events
         /\ \A i \in Incident : pods'[i] \subseteq pods[i]
         /\ \A r \in Release : active'[r] \in {active[r], None}
         /\ OthersKept(s)
         /\ \/ UNCHANGED queueVars
            \/ pc[s] = "queueResolved" /\ AppendToNotifyWorkQueue("resolved", inc[s])
         /\ pc'[s] \in Knowing =>
              inc'[s] = inc[s] /\ (pc[s] \in Knowing \/ IncidentExists(inc[s]))
<1>1. s \in Goroutine /\ FrameTypeOK
  BY SweeperAssumption DEF AgentTypeOK, TypeOK, StoreTypeOK
<1>2. StoreTypeOK
  BY DEF AgentTypeOK, TypeOK
<1>3. CASE UNCHANGED storeVars
  BY <1>1, <1>3, FrameKeepsOthers DEF storeVars, dataVars, frameVars
<1>4. CASE ResolveStep(s)
  BY <1>1, <1>2, <1>4, ResolveEffect
<1>5. CASE Return(s) /\ UNCHANGED <<dataVars, queueVars>>
  BY <1>1, <1>5, FrameKeepsOthers, ReturnFrame DEF dataVars, Return, FrameTypeOK, Knowing
<1>6. CASE CheckPod(s)
  <2>1. UNCHANGED <<dataVars, queueVars>>
    BY <1>6 DEF CheckPod
  <2>2. CASE UNCHANGED frameVars
    BY <1>3, <2>1, <2>2 DEF storeVars
  <2>3. ASSUME NEW t \in suspects[s], Call(s, "podResolved", t.incident, t.pod)
        PROVE  OthersKept(s) /\ pc'[s] \notin Knowing
    <3>1. t.incident \in Incident /\ t.pod \in Pod /\ "podResolved" \in Label
      BY DEF AgentTypeOK, SweeperTypeOK, Suspect, Label, ResolveLabel
    <3>2. OthersKept(s)
      BY <1>1, <2>3, <3>1, FrameKeepsOthers
    <3> QED
      BY <1>1, <2>3, <3>2 DEF Call, FrameTypeOK, Knowing
  <2> QED
    BY <1>6, <2>1, <2>2, <2>3 DEF CheckPod, dataVars
<1> QED
  BY <1>3, <1>4, <1>5, <1>6
     DEF Sweeping, SweepStep, StartSweep, ReadPointer, ListPods, ReadFails, CallFails, AbortSweep

(* A consumer puts back what it held, and holds what it took.               *)
LEMMA ConsumerEffect ==
  ASSUME AgentTypeOK, NEW c \in Consumers, Consuming(c)
  PROVE  /\ \A n \in pending' : \/ n \in pending
                                \/ held[c] # None /\ n.incident = held[c].incident
         /\ \A k \in Consumers : held'[k] # None => held'[k] = held[k] \/ held'[k] \in pending
<1> USE DEF AgentTypeOK, NotifierTypeOK
<1>1. CASE CheckPending(c)
  BY <1>1 DEF CheckPending, queueVars
<1>2. CASE PopPending(c)
  BY <1>2 DEF PopPending, Oldest
<1>3. CASE GetIncidentDetails(c) \/ PostNotification(c) \/ ConsumerCallFails(c) \/ RestartConsumer(c)
  <2>1. UNCHANGED queueVars /\ (UNCHANGED held \/ AwaitPulse(c))
    BY <1>3 DEF GetIncidentDetails, PostNotification, ConsumerCallFails, RestartConsumer
  <2> QED
    BY <2>1 DEF AwaitPulse, queueVars
<1>4. CASE RequeueItemWithScore(c)
  <2>1. held[c] \in Notice /\ held[c] # None
    BY <1>4, NotifierAssumption DEF RequeueItemWithScore
  <2> QED
    BY <1>4, <2>1 DEF RequeueItemWithScore, AwaitPulse, ZAddPending
<1> QED
  BY <1>1, <1>2, <1>3, <1>4 DEF Consuming, ConsumerStep

(* A step of the worker, the cluster, or none.                              *)
LEMMA NextAgentEvents ==
  ASSUME AgentEventsInv, [Next]_vars, UNCHANGED <<sweepVars, consumerVars>>, AgentTypeOK'
  PROVE  AgentEventsInv'
<1>1. TypeOK /\ EventsInv'
  BY NextEvents DEF AgentEventsInv, AgentTypeOK
<1>2. /\ \A i \in Incident : events[i] \subseteq events'[i]
      /\ OthersKept(Worker)
  <2>1. CASE UNCHANGED storeVars
    BY <2>1 DEF storeVars, dataVars, frameVars, OthersKept
  <2> QED
    BY <1>1, <2>1, WorkerEffect DEF Next, vars
<1>3. SweepsKnow'
  <2> SUFFICES ASSUME NEW s \in Sweepers, pc'[s] \in Knowing
               PROVE  IncidentExists(inc[s])'
    BY DEF SweepsKnow
  <2>1. pc'[s] = pc[s] /\ inc'[s] = inc[s]
    BY <1>2, SweeperAssumption, AgentAssumption DEF OthersKept
  <2>2. inc[s] \in Incident
    BY <1>1, <2>1, SweeperAssumption
       DEF TypeOK, StoreTypeOK, FrameTypeOK, Knowing, ResolveLabel, RecordLabel
  <2> QED
    BY <1>2, <2>1, <2>2 DEF AgentEventsInv, SweepsKnow, IncidentExists
<1>4. HeldHaveEvents'
  <2>1. \A c \in Consumers : held[c] # None => held[c].incident \in Incident
    BY DEF AgentEventsInv, AgentTypeOK, NotifierTypeOK, Notice
  <2> QED
    BY <1>2, <2>1 DEF AgentEventsInv, HeldHaveEvents, IncidentExists, consumerVars
<1> QED
  BY <1>1, <1>3, <1>4 DEF AgentEventsInv

LEMMA SweepingEvents ==
  ASSUME AgentEventsInv, NEW s \in Sweepers, Sweeping(s), AgentTypeOK'
  PROVE  AgentEventsInv'
<1>1. AgentTypeOK /\ TypeOK'
  BY DEF AgentEventsInv, AgentTypeOK
<1>2. s \in Goroutine /\ s # Worker /\ Sweepers \subseteq Goroutine
  BY SweeperAssumption, AgentAssumption
<1>3. UNCHANGED <<mine, myPod>> /\ pc'[Worker] = pc[Worker]
  BY <1>1, <1>2, SweepEffect, WorkerIsGoroutine DEF OthersKept, mine, myPod
<1>4. SweepsKnow'
  <2> SUFFICES ASSUME NEW t \in Sweepers, pc'[t] \in Knowing
               PROVE  IncidentExists(inc[t])'
    BY DEF SweepsKnow
  <2>1. inc'[t] = inc[t] /\ (pc[t] \in Knowing \/ IncidentExists(inc[t]))
    BY <1>1, <1>2, SweepEffect DEF OthersKept
  <2> QED
    BY <1>1, <2>1, SweepEffect DEF AgentEventsInv, SweepsKnow, IncidentExists
<1>5. KnowsEvents'
  BY <1>1, <1>3, SweepEffect DEF AgentEventsInv, EventsInv, KnowsEvents, IncidentExists
<1>6. NoticesHaveEvents'
  <2>1. \A n \in pending' : n \in pending \/ (n.incident = inc[s] /\ pc[s] \in Knowing)
    BY <1>1, SweepEffect DEF queueVars, AppendToNotifyWorkQueue, ZAddPending, Knowing
  <2> QED
    BY <1>1, <2>1, SweepEffect
       DEF AgentEventsInv, EventsInv, NoticesHaveEvents, SweepsKnow, IncidentExists
<1>7. AffectedHaveEvents'
  BY <1>1, SweepEffect DEF AgentEventsInv, EventsInv, AffectedHaveEvents
<1>8. HeldHaveEvents'
  BY <1>1, SweepEffect DEF AgentEventsInv, HeldHaveEvents, Sweeping, consumerVars, IncidentExists
<1> QED
  BY <1>1, <1>4, <1>5, <1>6, <1>7, <1>8 DEF AgentEventsInv, EventsInv

LEMMA ConsumingEvents ==
  ASSUME AgentEventsInv, NEW c \in Consumers, Consuming(c), AgentTypeOK'
  PROVE  AgentEventsInv'
<1>1. AgentTypeOK /\ TypeOK'
  BY DEF AgentEventsInv, AgentTypeOK
<1>2. UNCHANGED <<events, pods, pc, inc, pod>>
  BY DEF Consuming, dataVars, frameVars
<1>3. KnowsEvents' /\ AffectedHaveEvents' /\ SweepsKnow'
  BY <1>2 DEF AgentEventsInv, EventsInv, KnowsEvents, AffectedHaveEvents, SweepsKnow, IncidentExists,
              mine, myPod
<1>4. NoticesHaveEvents'
  BY <1>1, <1>2, ConsumerEffect
     DEF AgentEventsInv, EventsInv, NoticesHaveEvents, HeldHaveEvents, IncidentExists
<1>5. HeldHaveEvents'
  BY <1>1, <1>2, ConsumerEffect
     DEF AgentEventsInv, EventsInv, NoticesHaveEvents, HeldHaveEvents, IncidentExists
<1> QED
  BY <1>1, <1>3, <1>4, <1>5 DEF AgentEventsInv, EventsInv

LEMMA AgentEvents ==
  ASSUME AgentEventsInv, [AgentNext]_agentVars
  PROVE  AgentEventsInv'
<1>1. AgentTypeOK'
  BY NextAgentTypeOK DEF AgentEventsInv
<1>2. CASE [Next]_vars /\ UNCHANGED <<sweepVars, consumerVars>>
  BY <1>1, <1>2, NextAgentEvents
<1> QED
  BY <1>1, <1>2, SweepingEvents, ConsumingEvents DEF AgentNext, agentVars, Reconciling, Next

LEMMA InitAgentEvents ==
  ASSUME AgentInit
  PROVE  AgentEventsInv
<1>1. AgentTypeOK /\ TypeOK
  BY InitAgentTypeOK DEF AgentTypeOK
<1>2. \A g \in Goroutine : pc[g] = "idle"
  BY DEF AgentInit, Init, StoreInit
<1>3. SweepsKnow /\ KnowsEvents
  BY <1>2, WorkerIsGoroutine, SweeperAssumption DEF SweepsKnow, KnowsEvents, Knowing
<1>4. NoticesHaveEvents /\ AffectedHaveEvents /\ HeldHaveEvents
  BY DEF AgentInit, Init, StoreInit, NotifierInit, NoticesHaveEvents, AffectedHaveEvents, HeldHaveEvents
<1> QED
  BY <1>1, <1>3, <1>4 DEF AgentEventsInv, EventsInv

(* With any number of sweeps and consumers beside the worker, whatever      *)
(* fails and crashes: what is in the queue, what a consumer took off it and *)
(* what has affected pods is an incident that exists, so GetIncidentDetails *)
(* never drops a notification as one for a "non-existent incident"          *)
(* (pkg/consumer/events.go).                                                *)
THEOREM AgentEventsComeFirst ==
  AgentSpec => [](NoticesHaveEvents /\ AffectedHaveEvents /\ HeldHaveEvents)
<1>1. AgentInit => AgentEventsInv
  BY InitAgentEvents
<1>2. AgentEventsInv /\ [AgentNext]_agentVars => AgentEventsInv'
  BY AgentEvents
<1>3. AgentEventsInv => NoticesHaveEvents /\ AffectedHaveEvents /\ HeldHaveEvents
  BY DEF AgentEventsInv, EventsInv
<1> QED
  BY <1>1, <1>2, <1>3, PTL DEF AgentSpec

----------------------------------------------------------------------------
(* The queue with its consumers implements the outbox.  What the refinement *)
(* rests on is that a consumer's hands are empty when it takes something    *)
(* off the queue, and that what it holds exists, so that it is not dropped. *)

HandsEmpty ==
  \A c \in Consumers : cpc[c] \in {"waiting", "popping", "panic"} => held[c] = None

OutboxInv == AgentEventsInv /\ HandsEmpty

LEMMA AgentHandsEmpty ==
  ASSUME AgentTypeOK, HandsEmpty, [AgentNext]_agentVars
  PROVE  HandsEmpty'
<1> USE DEF AgentTypeOK, NotifierTypeOK, HandsEmpty
<1>1. CASE UNCHANGED consumerVars
  BY <1>1 DEF consumerVars
<1>2. ASSUME NEW c \in Consumers, ConsumerStep(c)
      PROVE  HandsEmpty'
  <2>1. CASE AwaitPulse(c)
    BY <2>1 DEF AwaitPulse
  <2>2. CASE CheckPending(c) \/ PopPending(c)
    BY <2>2 DEF CheckPending, PopPending
  <2>3. ASSUME cpc[c] \in {"details", "posting"}, UNCHANGED held,
               NEW label \in {"posting", "requeue"}, cpc' = [cpc EXCEPT ![c] = label]
        PROVE  HandsEmpty'
    BY <2>3
  <2> QED
    BY <1>2, <2>1, <2>2, <2>3
       DEF ConsumerStep, GetIncidentDetails, PostNotification, RequeueItemWithScore, ConsumerCallFails,
           RestartConsumer
<1> QED
  BY <1>1, <1>2 DEF AgentNext, agentVars, Reconciling, Sweeping, Consuming

(* What is outstanding, before and after a step.                            *)
LEMMA OutstandingMembers ==
  /\ \A x : x \in Outstanding <=>
       \/ \E n \in pending : x = Abstractly(n)
       \/ \E c \in Consumers : held[c] # None /\ x = Abstractly(held[c])
  /\ \A x : x \in Outstanding' <=>
       \/ \E n \in pending' : x = Abstractly(n)
       \/ \E c \in Consumers : held'[c] # None /\ x = Abstractly(held'[c])
  BY DEF Outstanding, Abstractly

(* ZADD adds one to what is pending, if it is not there with another score. *)
LEMMA AddedMembers ==
  ASSUME NEW kind, NEW i, NEW score, ZAddPending(kind, i, score)
  PROVE  \A x : (\E n \in pending' : x = Abstractly(n))
                  <=> (\E n \in pending : x = Abstractly(n)) \/ x = [kind |-> kind, incident |-> i]
<1> DEFINE new == [kind |-> kind, incident |-> i, score |-> score]
<1>1. pending' = {n \in pending : ~(n.kind = kind /\ n.incident = i)} \cup {new}
  BY DEF ZAddPending
<1>2. Abstractly(new) = [kind |-> kind, incident |-> i]
  BY DEF Abstractly
<1>3. \A n : n.kind = kind /\ n.incident = i => Abstractly(n) = [kind |-> kind, incident |-> i]
  BY DEF Abstractly
<1> HIDE DEF new
<1> QED
  BY <1>1, <1>2, <1>3

LEMMA NothingDone ==
  ASSUME UNCHANGED <<pending, held, told>>
  PROVE  UNCHANGED Box!outboxVars
  BY DEF Box!outboxVars, Outstanding, Abstractly

(* A notification appended to the queue is put in the outbox.               *)
LEMMA AppendPuts ==
  ASSUME MayAppend, UNCHANGED consumerVars
  PROVE  [Box!OutboxNext]_Box!outboxVars
<1> USE DEF consumerVars
<1>1. CASE UNCHANGED queueVars
  BY <1>1, NothingDone DEF queueVars
<1>2. ASSUME NEW kind \in {"new", "resolved"}, NEW i \in Incident, AppendToNotifyWorkQueue(kind, i)
      PROVE  Box!OutboxNext
  <2> DEFINE x == [kind |-> kind, incident |-> i]
  <2>1. x \in [kind : {"new", "resolved"}, incident : Incident]
    OBVIOUS
  <2>2. \A y : y \in Outstanding' <=> y \in Outstanding \/ y = x
    BY <1>2, OutstandingMembers, AddedMembers DEF AppendToNotifyWorkQueue
  <2>3. Box!Put(x)
    BY <2>2 DEF Box!Put
  <2> QED
    BY <2>1, <2>3 DEF Box!OutboxNext
<1> QED
  BY <1>1, <1>2 DEF MayAppend

(* A consumer that lets go of what it holds takes at most that out of the   *)
(* outbox: less than that when the same is in the queue again.              *)
LEMMA LettingGo ==
  ASSUME NotifierTypeOK, NEW c \in Consumers, AwaitPulse(c), UNCHANGED pending
  PROVE  \/ Outstanding' = Outstanding
         \/ /\ held[c] # None
            /\ Abstractly(held[c]) \in Outstanding
            /\ Outstanding' = Outstanding \ {Abstractly(held[c])}
<1>1. held' = [held EXCEPT ![c] = None] /\ held \in [Consumers -> Notice \cup {None}]
  BY DEF AwaitPulse, NotifierTypeOK
<1>2. CASE held[c] = None
  <2>1. held' = held
    BY <1>1, <1>2
  <2> QED
    BY <2>1 DEF Outstanding
<1>3. CASE held[c] # None
  <2>1. Abstractly(held[c]) \in Outstanding
    BY <1>3, OutstandingMembers
  <2>2. \A x : x \in Outstanding' => x \in Outstanding
    BY <1>1, OutstandingMembers
  <2>3. \A x : x \in Outstanding /\ x # Abstractly(held[c]) => x \in Outstanding'
    BY <1>1, OutstandingMembers
  <2> QED
    BY <1>3, <2>1, <2>2, <2>3
<1> QED
  BY <1>2, <1>3

(* A consumer that lets go without a delivery loses what it held.           *)
LEMMA LettingGoLoses ==
  ASSUME NotifierTypeOK, NEW c \in Consumers, AwaitPulse(c), UNCHANGED <<pending, told>>,
         Fallible \/ BadStatus \in PostReply
  PROVE  [Box!OutboxNext]_Box!outboxVars
<1>1. CASE Outstanding' = Outstanding
  BY <1>1 DEF Box!outboxVars
<1>2. CASE /\ held[c] # None
           /\ Abstractly(held[c]) \in Outstanding
           /\ Outstanding' = Outstanding \ {Abstractly(held[c])}
  <2>1. Abstractly(held[c]) \in [kind : {"new", "resolved"}, incident : Incident]
    BY <1>2 DEF NotifierTypeOK, Notice, Abstractly
  <2>2. Box!Lose(Abstractly(held[c]))
    BY <1>2 DEF Box!Lose
  <2> QED
    BY <2>1, <2>2 DEF Box!OutboxNext
<1> QED
  BY <1>1, <1>2, LettingGo

(* What the server processes is delivered, whether it leaves the outbox or  *)
(* is to be posted again because the answer was lost.                       *)
LEMMA TellDelivers ==
  ASSUME NotifierTypeOK, NEW c \in Consumers, held[c] \in Notice, Tell(c), UNCHANGED pending,
         AwaitPulse(c) \/ UNCHANGED held
  PROVE  Box!OutboxNext
<1> DEFINE x == Abstractly(held[c])
<1>1. x \in [kind : {"new", "resolved"}, incident : Incident] /\ held[c] # None
  BY NotifierAssumption DEF Notice, Abstractly
<1>2. x \in Outstanding
  BY <1>1, OutstandingMembers
<1>3. Outstanding' \in {Outstanding, Outstanding \ {x}}
  <2>1. CASE UNCHANGED held
    BY <2>1 DEF Outstanding
  <2> QED
    BY <2>1, LettingGo
<1>4. {Abstractly(t) : t \in told'} = {Abstractly(t) : t \in told} \cup {x}
  <2> DEFINE t0 == [kind |-> held[c].kind, incident |-> held[c].incident, state |-> state[c]]
  <2>1. told' = told \cup {t0} /\ Abstractly(t0) = x
    BY DEF Tell, Abstractly
  <2> HIDE DEF t0, x
  <2> QED
    BY <2>1
<1>5. Box!Deliver(x)
  BY <1>2, <1>3, <1>4 DEF Box!Deliver
<1> QED
  BY <1>1, <1>5 DEF Box!OutboxNext

LEMMA ConsumerImplementsOutbox ==
  ASSUME OutboxInv, NEW c \in Consumers, Consuming(c)
  PROVE  [Box!OutboxNext]_Box!outboxVars
<1>1. NotifierTypeOK /\ QueueTypeOK /\ HeldHaveEvents /\ HandsEmpty
  BY DEF OutboxInv, AgentEventsInv, AgentTypeOK, TypeOK, StoreTypeOK
<1>2. cpc[c] \in {"details", "posting", "requeue"} => held[c] \in Notice /\ held[c] # None
  BY <1>1, NotifierAssumption DEF NotifierTypeOK
<1>3. CASE CheckPending(c)
  BY <1>3, NothingDone DEF CheckPending, queueVars
<1>4. CASE PopPending(c)
  <2>1. CASE UNCHANGED <<held, pending>>
    BY <1>4, <2>1, NothingDone DEF PopPending
  <2>2. ASSUME NEW n \in Oldest,
               held' = [held EXCEPT ![c] = n],
               pending' = pending \ {n}
        PROVE  UNCHANGED Box!outboxVars
    <3>1. held[c] = None /\ n \in pending /\ n # None /\ held \in [Consumers -> Notice \cup {None}]
      BY <1>1, <1>4, NotifierAssumption DEF PopPending, HandsEmpty, Oldest, QueueTypeOK, NotifierTypeOK
    <3>2. \A x : x \in Outstanding' <=> x \in Outstanding
      BY <2>2, <3>1, OutstandingMembers
    <3>3. Outstanding' = Outstanding
      BY <3>2
    <3> QED
      BY <1>4, <3>3 DEF PopPending, Box!outboxVars
  <2> QED
    BY <1>4, <2>1, <2>2 DEF PopPending
<1>5. CASE GetIncidentDetails(c)
  <2>1. IncidentExists(held[c].incident)
    BY <1>1, <1>2, <1>5 DEF GetIncidentDetails, HeldHaveEvents
  <2> QED
    BY <1>5, <2>1, NothingDone DEF GetIncidentDetails, queueVars
<1>6. CASE PostNotification(c)
  <2>1. UNCHANGED pending /\ held[c] \in Notice
    BY <1>2, <1>6 DEF PostNotification, queueVars
  <2>2. PICK reply \in PostReply :
          /\ IF reply \in {Ok, LostReply} THEN Tell(c) ELSE UNCHANGED told
          /\ IF reply \in {LostReply, Refused}
               THEN cpc' = [cpc EXCEPT ![c] = "requeue"] /\ UNCHANGED <<held, state>>
               ELSE AwaitPulse(c)
    BY <1>6 DEF PostNotification
  <2>3. CASE reply \in {Ok, LostReply}
    BY <1>1, <2>1, <2>2, <2>3, TellDelivers
  <2>4. CASE reply = Refused
    BY <2>1, <2>2, <2>4, NothingDone DEF Ok, LostReply, Refused
  <2>5. CASE reply = BadStatus
    BY <1>1, <2>1, <2>2, <2>5, LettingGoLoses DEF Ok, LostReply, Refused, BadStatus
  <2> QED
    BY <2>3, <2>4, <2>5, NotifierAssumption
<1>7. CASE RequeueItemWithScore(c)
  <2>1. held[c] \in Notice /\ held[c] # None /\ held' = [held EXCEPT ![c] = None] /\ UNCHANGED told
    BY <1>2, <1>7 DEF RequeueItemWithScore, AwaitPulse
  <2>2. held \in [Consumers -> Notice \cup {None}]
    BY <1>1 DEF NotifierTypeOK
  <2>3. \A x : (\E n \in pending' : x = Abstractly(n))
                 <=> (\E n \in pending : x = Abstractly(n)) \/ x = Abstractly(held[c])
    BY <1>7, AddedMembers DEF RequeueItemWithScore, Abstractly
  <2>4. \A x : x \in Outstanding' <=> x \in Outstanding
    BY <2>1, <2>2, <2>3, OutstandingMembers
  <2>5. Outstanding' = Outstanding
    BY <2>4
  <2> QED
    BY <2>1, <2>5 DEF Box!outboxVars
<1>8. CASE ConsumerCallFails(c) \/ RestartConsumer(c)
  <2>1. Fallible /\ UNCHANGED <<pending, told>> /\ (AwaitPulse(c) \/ UNCHANGED held)
    BY <1>8 DEF ConsumerCallFails, RestartConsumer, queueVars
  <2> QED
    BY <1>1, <2>1, LettingGoLoses, NothingDone
<1> QED
  BY <1>3, <1>4, <1>5, <1>6, <1>7, <1>8 DEF Consuming, ConsumerStep

LEMMA StepImplementsOutbox ==
  ASSUME OutboxInv, [AgentNext]_agentVars
  PROVE  [Box!OutboxNext]_Box!outboxVars
<1>1. AgentTypeOK /\ TypeOK
  BY DEF OutboxInv, AgentEventsInv, AgentTypeOK
<1>2. CASE Reconciling
  BY <1>1, <1>2, WorkerEffect, AppendPuts DEF Reconciling
<1>3. ASSUME NEW s \in Sweepers, Sweeping(s)
      PROVE  [Box!OutboxNext]_Box!outboxVars
  <2>1. pc[s] = "queueResolved" => inc[s] \in Incident
    BY <1>1, SweeperAssumption DEF TypeOK, StoreTypeOK, FrameTypeOK, ResolveLabel
  <2>2. MayAppend
    BY <1>1, <1>3, <2>1, SweepEffect DEF MayAppend
  <2> QED
    BY <1>3, <2>2, AppendPuts DEF Sweeping
<1>4. CASE UNCHANGED <<storeVars, consumerVars>>
  BY <1>4, NothingDone DEF storeVars, queueVars, consumerVars
<1> QED
  BY <1>2, <1>3, <1>4, ConsumerImplementsOutbox DEF AgentNext, agentVars, vars

(* Queue and consumers are an outbox, for any number of each goroutine and  *)
(* any answers of the server: nothing is delivered that was not appended,   *)
(* and nothing is lost but to a failing call, a crash, or an error status   *)
(* that is taken for success (pkg/consumer/events.go).                      *)
THEOREM QueueIsOutbox == AgentSpec => ImplementsOutbox
<1>1. AgentInit => OutboxInv /\ Box!OutboxInit
  <2> SUFFICES ASSUME AgentInit PROVE OutboxInv /\ Box!OutboxInit
    OBVIOUS
  <2>1. HandsEmpty /\ \A c \in Consumers : held[c] = None
    BY DEF AgentInit, NotifierInit, HandsEmpty
  <2>2. pending = {} /\ told = {}
    BY DEF AgentInit, Init, StoreInit, NotifierInit
  <2>3. Box!OutboxInit
    BY <2>1, <2>2, OutstandingMembers DEF Box!OutboxInit
  <2> QED
    BY <2>1, <2>3, InitAgentEvents DEF OutboxInv
<1>2. OutboxInv /\ [AgentNext]_agentVars => OutboxInv'
  BY AgentEvents, AgentHandsEmpty DEF OutboxInv, AgentEventsInv
<1>3. OutboxInv /\ [AgentNext]_agentVars => [Box!OutboxNext]_Box!outboxVars
  BY StepImplementsOutbox
<1> QED
  BY <1>1, <1>2, <1>3, PTL DEF AgentSpec, ImplementsOutbox, Box!OutboxSpec

----------------------------------------------------------------------------
(* Where nothing can be lost, what was ever queued is in the outbox or was  *)
(* delivered.                                                               *)

Kept == \A n \in queued : n \in Outstanding \/ \E t \in told : n = Abstractly(t)

LEMMA AppendKeeps ==
  ASSUME Kept, MayAppend, UNCHANGED consumerVars
  PROVE  Kept'
<1> USE DEF consumerVars
<1>1. CASE UNCHANGED queueVars
  BY <1>1, OutstandingMembers DEF Kept, queueVars, Abstractly
<1>2. ASSUME NEW kind \in {"new", "resolved"}, NEW i \in Incident, AppendToNotifyWorkQueue(kind, i)
      PROVE  Kept'
  <2>1. \A x : x \in Outstanding' <=> x \in Outstanding \/ x = [kind |-> kind, incident |-> i]
    BY <1>2, OutstandingMembers, AddedMembers DEF AppendToNotifyWorkQueue
  <2> QED
    BY <1>2, <2>1 DEF AppendToNotifyWorkQueue, Kept, Abstractly
<1> QED
  BY <1>1, <1>2 DEF MayAppend

LEMMA NextKeeps ==
  ASSUME OutboxInv, Kept, [AgentNext]_agentVars, ~Fallible, BadStatus \notin PostReply
  PROVE  Kept'
<1>1. AgentTypeOK /\ TypeOK
  BY DEF OutboxInv, AgentEventsInv, AgentTypeOK
<1>2. CASE Reconciling
  BY <1>1, <1>2, WorkerEffect, AppendKeeps DEF Reconciling
<1>3. ASSUME NEW s \in Sweepers, Sweeping(s)
      PROVE  Kept'
  <2>1. pc[s] = "queueResolved" => inc[s] \in Incident
    BY <1>1, SweeperAssumption DEF TypeOK, StoreTypeOK, FrameTypeOK, ResolveLabel
  <2>2. MayAppend
    BY <1>1, <1>3, <2>1, SweepEffect DEF MayAppend
  <2> QED
    BY <1>3, <2>2, AppendKeeps DEF Sweeping
<1>4. CASE UNCHANGED <<storeVars, consumerVars>>
  BY <1>4, AppendKeeps DEF storeVars, MayAppend
<1>5. ASSUME NEW c \in Consumers, Consuming(c)
      PROVE  Kept'
  <2>1. UNCHANGED queued
    BY <1>5 DEF Consuming, ConsumerStep, CheckPending, PopPending, GetIncidentDetails, PostNotification,
                RequeueItemWithScore, ConsumerCallFails, RestartConsumer, queueVars
  <2>2. CASE UNCHANGED Box!outboxVars
    BY <2>1, <2>2 DEF Kept, Box!outboxVars
  <2>3. ASSUME NEW n, Box!Put(n) \/ Box!Deliver(n) \/ Box!Lose(n)
        PROVE  Kept'
    BY <2>1, <2>3 DEF Kept, Box!Put, Box!Deliver, Box!Lose
  <2> QED
    BY <1>5, <2>2, <2>3, ConsumerImplementsOutbox DEF Box!OutboxNext
<1> QED
  BY <1>2, <1>3, <1>4, <1>5 DEF AgentNext, agentVars, vars

(* While no call fails, no agent crashes and the server answers no error    *)
(* status, a queued notification is in the queue, in a consumer's hands, or *)
(* was processed by the server, however many consumers, sweeps and reposts  *)
(* there are: an answer lost to the three seconds' timeout loses none.      *)
THEOREM NothingQueuedIsLost ==
  ~Fallible /\ BadStatus \notin PostReply => (AgentSpec => []NoNotificationLost)
<1> SUFFICES ASSUME ~Fallible, BadStatus \notin PostReply
             PROVE  AgentSpec => []NoNotificationLost
  OBVIOUS
<1>1. AgentInit => OutboxInv /\ Kept
  <2> SUFFICES ASSUME AgentInit PROVE OutboxInv /\ Kept
    OBVIOUS
  <2>1. queued = {} /\ HandsEmpty
    BY DEF AgentInit, Init, StoreInit, NotifierInit, HandsEmpty
  <2> QED
    BY <2>1, InitAgentEvents DEF OutboxInv, Kept
<1>2. OutboxInv /\ Kept /\ [AgentNext]_agentVars => (OutboxInv /\ Kept)'
  <2>1. OutboxInv /\ [AgentNext]_agentVars => OutboxInv'
    BY AgentEvents, AgentHandsEmpty DEF OutboxInv, AgentEventsInv
  <2> QED
    BY <2>1, NextKeeps
<1>3. OutboxInv /\ Kept => NoNotificationLost
  <2> SUFFICES ASSUME OutboxInv, Kept, NEW n \in queued
               PROVE  \/ Told(n.kind, n.incident)
                      \/ \E m \in pending : m.kind = n.kind /\ m.incident = n.incident
                      \/ \E c \in Consumers :
                           held[c] # None /\ held[c].kind = n.kind /\ held[c].incident = n.incident
    BY DEF NoNotificationLost
  <2>1. \A m : n = Abstractly(m) => m.kind = n.kind /\ m.incident = n.incident
    BY DEF Abstractly
  <2> QED
    BY <2>1, OutstandingMembers DEF Kept, Told
<1> QED
  BY <1>1, <1>2, <1>3, PTL DEF AgentSpec

----------------------------------------------------------------------------
(* The active incident is the newest beside the sweeps, too.  They may drop *)
(* the pointer while the worker records, so that it no longer works on the  *)
(* active incident; but none other is active then.                          *)

RecordsForActive ==
  pc[Worker] \in RecordLabel =>
    mine.release = myRelease /\ mine.at <= now /\ active[myRelease] \in {mine, None}

AgentNewestInv ==
  AgentTypeOK /\ ActiveOfRelease /\ RecordsForActive /\ NoneOfFuture /\ ActiveIsNewest

(* A step after which no other incidents exist or are active than before,   *)
(* and the worker records for the incident it recorded for, if for any.     *)
LEMMA RestAgentNewest ==
  ASSUME AgentNewestInv, AgentTypeOK', now' = now,
         \A i \in Incident : IncidentExists(i)' => IncidentExists(i),
         \A r \in Release : active'[r] \in {active[r], None},
         pc'[Worker] \in RecordLabel =>
           pc[Worker] \in RecordLabel /\ mine' = mine /\ myPod' = myPod
  PROVE  AgentNewestInv'
<1>1. \A i \in Incident : i.release \in Release
  BY DEF Incident
<1>2. NoneOfFuture' /\ ActiveIsNewest' /\ ActiveOfRelease'
  BY <1>1 DEF AgentNewestInv, NoneOfFuture, ActiveIsNewest, ActiveOfRelease
<1>3. pc[Worker] \in RecordLabel => myRelease \in Release
  <2>1. TypeOK /\ (pc[Worker] \in RecordLabel => ~at("idle"))
    BY DEF AgentNewestInv, AgentTypeOK, RecordLabel, at
  <2> QED
    BY <2>1, PodFrame
<1>4. RecordsForActive'
  BY <1>3 DEF AgentNewestInv, RecordsForActive, myRelease
<1> QED
  BY <1>2, <1>4 DEF AgentNewestInv

(* How the worker comes to record for an incident.                          *)
LEMMA WorkerRecords ==
  ASSUME TypeOK, WorkerStep, pc'[Worker] \in RecordLabel
  PROVE  /\ myPod' = myPod
         /\ \/ GetActiveIncident /\ mine' = active[myRelease]
            \/ CreateActiveIncident /\ mine' = Created(now)
            \/ pc[Worker] \in RecordLabel /\ mine' = mine /\ UNCHANGED active
<1>1. FrameTypeOK /\ DataTypeOK /\ now \in Time
  BY DEF TypeOK, StoreTypeOK, ClusterTypeOK
<1>2. /\ "idle" \notin RecordLabel
      /\ {"dedup", "logs", "expireEvents", "addPod", "expirePods", "announce"} \subseteq Label \cap RecordLabel
  BY DEF Label, RecordLabel
<1>3. CASE EndReconcile
  BY <1>1, <1>2, <1>3, ReturnFrame
<1>4. CASE ~RecordStep
  <2>1. CASE \E p \in Pod : Reconcile(p)
    BY <1>1, <2>1, WorkerIsGoroutine DEF Reconcile, FrameTypeOK, RecordLabel
  <2>2. CASE ResolveHealthy
    <3>1. CASE Return(Worker)
      BY <1>1, <1>2, <3>1, ReturnFrame
    <3>2. ASSUME NEW method \in {"jobResolved", "podResolved"},
                 Call(Worker, method, active[myRelease], myPod)
          PROVE  FALSE
      BY <1>1, <3>2, WorkerIsGoroutine DEF Call, FrameTypeOK, RecordLabel
    <3> QED
      BY <2>2, <3>1, <3>2 DEF ResolveHealthy
  <2>3. CASE ResolveStep(Worker)
    BY <1>1, <2>3, ResolveEffect, WorkerIsGoroutine DEF TypeOK
  <2> QED
    BY <1>3, <1>4, <2>1, <2>2, <2>3 DEF WorkerStep, AbortReconcile
<1>5. CASE GetActiveIncident \/ CreateActiveIncident
  <2>1. myPod \in Pod /\ myRelease \in Release
    BY <1>1, <1>5, PodFrame DEF GetActiveIncident, CreateActiveIncident, at
  <2>2. Created(now) \in Incident
    BY <1>1, <2>1 DEF Created, Incident
  <2>3. active[myRelease] # None => active[myRelease] \in Incident
    BY <1>1, <2>1 DEF DataTypeOK
  <2> QED
    BY <1>1, <1>2, <1>5, <2>1, <2>2, <2>3, CallFrame DEF GetActiveIncident, CreateActiveIncident
<1>6. ASSUME NEW label \in Label, Goto(Worker, label), pc[Worker] \in RecordLabel, UNCHANGED active
      PROVE  myPod' = myPod /\ mine' = mine
  BY <1>1, <1>6, GotoFrame
<1>7. CASE CheckDuplicate \/ AddEventToIncident \/ ExpireEvents \/ AddPod \/ ExpirePods
  <2>1. /\ pc[Worker] \in RecordLabel
        /\ UNCHANGED active
        /\ EndReconcile \/ \E label \in Label : Goto(Worker, label)
    BY <1>2, <1>7 DEF CheckDuplicate, AddEventToIncident, ExpireEvents, AddPod, ExpirePods, at, dataVars
  <2> QED
    BY <1>3, <1>6, <2>1
<1>8. ASSUME NEW c \in Container, FetchLogs(c)
      PROVE  EndReconcile \/ (pc[Worker] \in RecordLabel /\ UNCHANGED <<myPod, mine, active>>)
  BY <1>2, <1>8 DEF FetchLogs, at, frameVars, mine, myPod
<1> QED
  BY <1>3, <1>4, <1>5, <1>7, <1>8 DEF RecordStep, IgnoreMultipodDeployment, Announce

LEMMA ReconcilingNewest ==
  ASSUME AgentNewestInv, Reconciling, AgentTypeOK'
  PROVE  AgentNewestInv'
<1>1. TypeOK /\ FrameTypeOK /\ DataTypeOK /\ ClusterTypeOK /\ WorkerStep /\ now' = now
  BY DEF AgentNewestInv, AgentTypeOK, TypeOK, StoreTypeOK, Reconciling, clusterVars
<1>2. \A i \in Incident : i.release \in Release /\ i.at \in Nat
  BY DEF Incident, Time
<1>3. now \in Nat
  BY <1>1 DEF ClusterTypeOK, Time
<1>4. CASE AddEventToIncident
  <2>1. pc[Worker] \in RecordLabel /\ myRelease \in Release /\ mine \in Incident
    BY <1>1, <1>4, RecordFrame, PodFrame DEF AddEventToIncident, at, RecordLabel
  <2>2. mine.release = myRelease /\ mine.at <= now /\ active[myRelease] \in {mine, None}
    BY <2>1 DEF AgentNewestInv, RecordsForActive
  <2>3. UNCHANGED active
    BY <1>4 DEF AddEventToIncident
  <2>4. \A i \in Incident : IncidentExists(i)' => IncidentExists(i) \/ i = mine
    BY <1>1, <1>4 DEF AddEventToIncident, IncidentExists, DataTypeOK
  <2>5. NoneOfFuture' /\ ActiveOfRelease'
    BY <1>1, <2>2, <2>3, <2>4 DEF AgentNewestInv, NoneOfFuture, ActiveOfRelease
  <2>6. ActiveIsNewest'
    BY <1>2, <2>2, <2>3, <2>4 DEF AgentNewestInv, ActiveIsNewest
  <2>7. pc'[Worker] \in RecordLabel => mine' = mine /\ myPod' = myPod
    BY <1>1, <1>4, <2>1, WorkerRecords DEF AddEventToIncident, GetActiveIncident, CreateActiveIncident, at
  <2>8. RecordsForActive'
    BY <1>1, <2>2, <2>3, <2>7 DEF RecordsForActive, myRelease
  <2> QED
    BY <2>5, <2>6, <2>8 DEF AgentNewestInv
<1>5. CASE CreateActiveIncident
  <2>1. myRelease \in Release
    BY <1>1, <1>5, PodFrame DEF CreateActiveIncident, at
  <2>2. active' = [active EXCEPT ![myRelease] = Created(now)] /\ UNCHANGED events
    BY <1>5 DEF CreateActiveIncident
  <2>3. Created(now).at = now /\ Created(now).release = myRelease
    BY DEF Created
  <2>4. \A r \in Release : active'[r] = IF r = myRelease THEN Created(now) ELSE active[r]
    BY <1>1, <2>1, <2>2 DEF DataTypeOK
  <2>5. NoneOfFuture' /\ ActiveOfRelease'
    BY <1>1, <1>3, <2>2, <2>3, <2>4
       DEF AgentNewestInv, NoneOfFuture, ActiveOfRelease, IncidentExists
  <2>6. ActiveIsNewest'
    BY <1>2, <2>2, <2>3, <2>4 DEF AgentNewestInv, NoneOfFuture, ActiveIsNewest, IncidentExists
  <2>7. pc'[Worker] \in RecordLabel => mine' = Created(now) /\ myPod' = myPod
    BY <1>1, <1>5, WorkerRecords DEF CreateActiveIncident, GetActiveIncident, at, RecordLabel
  <2>8. RecordsForActive'
    BY <1>1, <1>3, <2>1, <2>3, <2>4, <2>7 DEF RecordsForActive, myRelease
  <2> QED
    BY <2>5, <2>6, <2>8 DEF AgentNewestInv
<1>6. CASE GetActiveIncident
  <2>1. myRelease \in Release
    BY <1>1, <1>6, PodFrame DEF GetActiveIncident, at
  <2>2. active[myRelease] # None /\ UNCHANGED <<active, events>>
    BY <1>6 DEF GetActiveIncident, dataVars
  <2>3. pc'[Worker] \in RecordLabel => mine' = active[myRelease] /\ myPod' = myPod
    BY <1>1, <1>6, WorkerRecords DEF CreateActiveIncident, GetActiveIncident, at, RecordLabel
  <2>4. RecordsForActive'
    BY <1>1, <2>1, <2>2, <2>3
       DEF AgentNewestInv, RecordsForActive, ActiveOfRelease, NoneOfFuture, myRelease
  <2>5. NoneOfFuture' /\ ActiveOfRelease' /\ ActiveIsNewest'
    BY <1>1, <2>2 DEF AgentNewestInv, NoneOfFuture, ActiveOfRelease, ActiveIsNewest, IncidentExists
  <2> QED
    BY <2>4, <2>5 DEF AgentNewestInv
<1>7. CASE ~(AddEventToIncident \/ CreateActiveIncident \/ GetActiveIncident)
  <2>1. UNCHANGED events
    BY <1>1, <1>7, ResolveEffect, WorkerIsGoroutine
       DEF WorkerStep, RecordStep, Reconcile, ResolveHealthy, AbortReconcile, IgnoreMultipodDeployment,
           CheckDuplicate, FetchLogs, ExpireEvents, AddPod, ExpirePods, Announce, dataVars, TypeOK
  <2>2. \A r \in Release : active'[r] \in {active[r], None}
    BY <1>1, <1>7, ResolveEffect, WorkerIsGoroutine
       DEF WorkerStep, RecordStep, Reconcile, ResolveHealthy, AbortReconcile, IgnoreMultipodDeployment,
           CheckDuplicate, FetchLogs, ExpireEvents, AddPod, ExpirePods, Announce, dataVars, TypeOK
  <2>3. pc'[Worker] \in RecordLabel =>
          pc[Worker] \in RecordLabel /\ mine' = mine /\ myPod' = myPod
    BY <1>1, <1>7, WorkerRecords
  <2> QED
    BY <1>1, <2>1, <2>2, <2>3, RestAgentNewest DEF IncidentExists
<1> QED
  BY <1>4, <1>5, <1>6, <1>7

LEMMA NextAgentNewest ==
  ASSUME AgentNewestInv, [AgentNext]_agentVars
  PROVE  AgentNewestInv'
<1>1. AgentTypeOK /\ AgentTypeOK' /\ TypeOK
  BY NextAgentTypeOK DEF AgentNewestInv, AgentTypeOK
<1>2. ASSUME NEW s \in Sweepers, Sweeping(s)
      PROVE  AgentNewestInv'
  <2>1. now' = now /\ UNCHANGED events
    BY <1>1, <1>2, SweepEffect DEF Sweeping, clusterVars
  <2>2. pc'[Worker] = pc[Worker] /\ mine' = mine /\ myPod' = myPod
    BY <1>1, <1>2, SweepEffect, WorkerIsGoroutine, AgentAssumption DEF OthersKept, mine, myPod
  <2> QED
    BY <1>1, <1>2, <2>1, <2>2, SweepEffect, RestAgentNewest DEF IncidentExists
<1>3. CASE ClusterStep /\ UNCHANGED storeVars
  <2>1. UNCHANGED <<active, events, pc, mine, myPod, myRelease>>
    BY <1>3 DEF storeVars, dataVars, frameVars, mine, myPod, myRelease
  <2>2. now' >= now /\ now' \in Nat /\ now \in Nat
    BY <1>1, <1>3 DEF ClusterStep, Tick, DeletePod, RecreatePod, TypeOK, ClusterTypeOK, Time
  <2>3. /\ \A i \in Incident : i.at \in Nat
        /\ \A r \in Release : active[r] # None => active[r].at \in Nat
        /\ pc[Worker] \in RecordLabel => mine.at \in Nat
    BY <1>1, RecordFrame DEF TypeOK, StoreTypeOK, DataTypeOK, Incident, Time
  <2>4. NoneOfFuture' /\ RecordsForActive'
    BY <2>1, <2>2, <2>3 DEF AgentNewestInv, NoneOfFuture, RecordsForActive, IncidentExists
  <2>5. ActiveIsNewest' /\ ActiveOfRelease'
    BY <2>1 DEF AgentNewestInv, ActiveIsNewest, ActiveOfRelease, IncidentExists
  <2> QED
    BY <1>1, <2>4, <2>5 DEF AgentNewestInv
<1>4. CASE UNCHANGED <<active, events, now, frameVars>>
  BY <1>1, <1>4, RestAgentNewest DEF IncidentExists, frameVars, mine, myPod
<1>5. ASSUME NEW c \in Consumers, Consuming(c)
      PROVE  AgentNewestInv'
  BY <1>4, <1>5 DEF Consuming, clusterVars, dataVars
<1>6. CASE UNCHANGED agentVars
  BY <1>4, <1>6 DEF agentVars, vars, storeVars, dataVars, clusterVars
<1> QED
  BY <1>1, <1>2, <1>3, <1>5, <1>6, ReconcilingNewest DEF AgentNext

(* Sweeps that close incidents with what they read minutes ago, beside any  *)
(* failure and crash, never make an older incident of a release the active  *)
(* one again, nor let the worker file events under one newer than it.       *)
THEOREM AgentActiveIsNewest == AgentSpec => []ActiveIsNewest
<1>1. AgentInit => AgentNewestInv
  <2> SUFFICES ASSUME AgentInit PROVE AgentNewestInv
    OBVIOUS
  <2>1. AgentTypeOK /\ pc[Worker] = "idle"
    BY InitAgentTypeOK, WorkerIsGoroutine DEF AgentInit, Init, StoreInit
  <2> QED
    BY <2>1
       DEF AgentInit, Init, StoreInit, AgentNewestInv, ActiveOfRelease, RecordsForActive, NoneOfFuture,
           ActiveIsNewest, IncidentExists, RecordLabel
<1>2. AgentNewestInv /\ [AgentNext]_agentVars => AgentNewestInv'
  BY NextAgentNewest
<1>3. AgentNewestInv => ActiveIsNewest
  BY DEF AgentNewestInv
<1> QED
  BY <1>1, <1>2, <1>3, PTL DEF AgentSpec

----------------------------------------------------------------------------
(* The cap on events is the worker's business alone: nobody else adds an    *)
(* event, or touches what the worker knows of its incident.                 *)

LEMMA NextAgentCapped ==
  ASSUME AgentTypeOK, CappedInv, [AgentNext]_agentVars
  PROVE  CappedInv'
<1>1. TypeOK /\ TypeOK'
  BY NextAgentTypeOK DEF AgentTypeOK
<1>2. ASSUME UNCHANGED <<events, now, newIncident, mine>>, pc'[Worker] = pc[Worker]
      PROVE  CappedInv'
  BY <1>1, <1>2, RestCapped DEF CappedInv, NewIsEarly
<1>3. ASSUME NEW s \in Sweepers, Sweeping(s)
      PROVE  CappedInv'
  <2>1. UNCHANGED <<now, newIncident>>
    BY <1>3 DEF Sweeping, clusterVars, workerVars
  <2>2. UNCHANGED <<events, mine>> /\ pc'[Worker] = pc[Worker]
    BY <1>3, SweepEffect, WorkerIsGoroutine, AgentAssumption DEF OthersKept, mine
  <2> QED
    BY <1>2, <2>1, <2>2
<1>4. ASSUME NEW c \in Consumers, Consuming(c)
      PROVE  CappedInv'
  BY <1>2, <1>4 DEF Consuming, clusterVars, dataVars, frameVars, workerVars, mine
<1>5. CASE Reconciling
  BY <1>5, NextCapped DEF Reconciling, Next
<1>6. CASE ClusterStep /\ UNCHANGED <<storeVars, workerVars, sweepVars, consumerVars>>
  BY <1>6, NextCapped DEF Next
<1>7. CASE UNCHANGED agentVars
  BY <1>2, <1>7 DEF agentVars, vars, storeVars, dataVars, clusterVars, frameVars, workerVars, mine
<1> QED
  BY <1>3, <1>4, <1>5, <1>6, <1>7 DEF AgentNext

(* AddEventToIncident keeps to the cap, up to the one event of an incident  *)
(* made again in its second, though sweeps drop the worker's incident from  *)
(* the active ones while it records, and it then makes another.             *)
THEOREM AgentEventsAreCapped == AgentSpec => []EventsCapped
<1>1. AgentInit => AgentTypeOK /\ CappedInv
  BY InitAgentTypeOK, InitCapped DEF AgentInit
<1>2. AgentTypeOK /\ CappedInv /\ [AgentNext]_agentVars => AgentTypeOK' /\ CappedInv'
  BY NextAgentTypeOK, NextAgentCapped
<1>3. CappedInv => EventsCapped
  BY DEF CappedInv
<1> QED
  BY <1>1, <1>2, <1>3, PTL DEF AgentSpec

----------------------------------------------------------------------------
(* One consumer, any number of workers' steps and sweeps: what the queue    *)
(* held at the test, it holds at the pop.                                   *)

OneConsumer == \A c, d \in Consumers : c = d

PopsSomething == \A c \in Consumers : cpc[c] = "popping" => pending # {}

PanicInv == AgentTypeOK /\ PopsSomething /\ ConsumerNeverPanics

LEMMA AppendFills ==
  ASSUME PanicInv, MayAppend, UNCHANGED consumerVars
  PROVE  (PopsSomething /\ ConsumerNeverPanics)'
<1> USE DEF PanicInv, PopsSomething, ConsumerNeverPanics, consumerVars
<1>1. CASE UNCHANGED queueVars
  BY <1>1 DEF queueVars
<1>2. ASSUME NEW kind \in {"new", "resolved"}, NEW i \in Incident, AppendToNotifyWorkQueue(kind, i)
      PROVE  (PopsSomething /\ ConsumerNeverPanics)'
  BY <1>2 DEF AppendToNotifyWorkQueue, ZAddPending
<1> QED
  BY <1>1, <1>2 DEF MayAppend

LEMMA ConsumerPops ==
  ASSUME PanicInv, OneConsumer, NEW c \in Consumers, ConsumerStep(c)
  PROVE  (PopsSomething /\ ConsumerNeverPanics)'
<1>1. cpc \in [Consumers -> {"waiting", "popping", "panic", "details", "posting", "requeue"}]
  BY DEF PanicInv, AgentTypeOK, NotifierTypeOK
<1>2. \A d \in Consumers : d = c
  BY DEF OneConsumer
<1> USE <1>1, <1>2 DEF PanicInv, PopsSomething, ConsumerNeverPanics
<1>3. CASE CheckPending(c)
  BY <1>3 DEF CheckPending, queueVars
<1>4. CASE PopPending(c)
  BY <1>4 DEF PopPending
<1>5. CASE GetIncidentDetails(c)
  BY <1>5 DEF GetIncidentDetails, AwaitPulse
<1>6. CASE PostNotification(c)
  BY <1>6 DEF PostNotification, AwaitPulse
<1>7. CASE RequeueItemWithScore(c)
  BY <1>7 DEF RequeueItemWithScore, AwaitPulse
<1>8. CASE ConsumerCallFails(c) \/ RestartConsumer(c)
  BY <1>8 DEF ConsumerCallFails, RestartConsumer, AwaitPulse
<1> QED
  BY <1>3, <1>4, <1>5, <1>6, <1>7, <1>8 DEF ConsumerStep

LEMMA NextPops ==
  ASSUME PanicInv, OneConsumer, [AgentNext]_agentVars
  PROVE  PanicInv'
<1>1. AgentTypeOK'
  BY NextAgentTypeOK DEF PanicInv
<1>2. AgentTypeOK /\ TypeOK
  BY DEF PanicInv, AgentTypeOK
<1> SUFFICES (PopsSomething /\ ConsumerNeverPanics)'
  BY <1>1 DEF PanicInv
<1>3. CASE Reconciling
  BY <1>2, <1>3, WorkerEffect, AppendFills DEF Reconciling
<1>4. ASSUME NEW s \in Sweepers, Sweeping(s)
      PROVE  (PopsSomething /\ ConsumerNeverPanics)'
  <2>1. pc[s] = "queueResolved" => inc[s] \in Incident
    BY <1>2, SweeperAssumption DEF TypeOK, StoreTypeOK, FrameTypeOK, ResolveLabel
  <2>2. MayAppend
    BY <1>2, <1>4, <2>1, SweepEffect DEF MayAppend
  <2> QED
    BY <1>4, <2>2, AppendFills DEF Sweeping
<1>5. CASE UNCHANGED <<storeVars, consumerVars>>
  BY <1>5, AppendFills DEF storeVars, MayAppend
<1> QED
  BY <1>3, <1>4, <1>5, ConsumerPops DEF AgentNext, Consuming, agentVars, vars

(* An agent that is alone never indexes an empty answer of ZPOPMIN          *)
(* (pkg/redis/client.go:76), whatever fails and however many sweeps overlap:*)
(* nobody but a consumer takes from the queue.                              *)
THEOREM OneConsumerNeverPanics == OneConsumer => (AgentSpec => []ConsumerNeverPanics)
<1> SUFFICES ASSUME OneConsumer PROVE AgentSpec => []ConsumerNeverPanics
  OBVIOUS
<1>1. AgentInit => PanicInv
  BY InitAgentTypeOK DEF AgentInit, NotifierInit, PanicInv, PopsSomething, ConsumerNeverPanics
<1>2. PanicInv /\ [AgentNext]_agentVars => PanicInv'
  BY NextPops
<1>3. PanicInv => ConsumerNeverPanics
  BY DEF PanicInv
<1> QED
  BY <1>1, <1>2, <1>3, PTL DEF AgentSpec

=============================================================================
