----------------------------- MODULE OrderProofs -----------------------------
(***************************************************************************)
(* Proofs about what the Porter server hears, and in which order: an agent *)
(* that is alone, without sweeps, whose calls do not fail and whose POSTs  *)
(* may be refused, or processed and not answered in time.                  *)
(***************************************************************************)
EXTENDS AgentProofs, CleanReconcileProofs

Queued(kind, i) == [kind |-> kind, incident |-> i] \in queued

----------------------------------------------------------------------------
(* The worker's part: when a resolution of an incident may be on its way    *)
(* while the incident is worked on again.                                   *)

(* What was announced was opened, and a resolution only follows an          *)
(* announcement.                                                            *)
NewOpened == \A i \in Incident : Queued("new", i) => i \in opened

ResolvedFollows == \A i \in Incident : Queued("resolved", i) => Queued("new", i)

ActiveOpened == \A r \in Release : active[r] # None => active[r] \in opened

(* An incident that was resolved and is active was opened again.            *)
ActiveReopened ==
  \A r \in Release : active[r] # None /\ Queued("resolved", active[r]) => active[r] \in reopened

RepeatInv == CleanInv /\ NewOpened /\ ResolvedFollows /\ ActiveOpened /\ ActiveReopened

LEMMA RepeatFrame ==
  ASSUME RepeatInv
  PROVE  /\ TypeOK /\ FrameTypeOK /\ DataTypeOK /\ QueueTypeOK
         /\ now \in Nat
         /\ \A r \in Release : active[r] # None => active[r] \in Incident /\ active[r].release = r
<1>1. TypeOK /\ FrameTypeOK /\ DataTypeOK /\ QueueTypeOK /\ ClusterTypeOK
  BY CleanFrame DEF RepeatInv, TypeOK, StoreTypeOK
<1>2. \A r \in Release : active[r] # None => active[r] \in Incident /\ active[r].release = r
  BY <1>1 DEF RepeatInv, CleanInv, OngoingInv, ActiveOfRelease, DataTypeOK
<1> QED
  BY <1>1, <1>2 DEF ClusterTypeOK, Time

(* While it records, the worker's incident is the active one of its release,*)
(* so if it was resolved, it was opened again.                              *)
LEMMA RecordsActive ==
  ASSUME RepeatInv, pc[Worker] \in RecordLabel
  PROVE  /\ mine \in Incident /\ mine \in opened
         /\ Queued("resolved", mine) => mine \in reopened
<1>1. TypeOK /\ ~at("idle")
  BY RepeatFrame DEF at, RecordLabel
<1>2. mine \in Incident /\ mine # None /\ myRelease \in Release
  BY <1>1, RecordFrame, PodFrame, StoreAssumption
<1>3. active[myRelease] = mine
  BY DEF RepeatInv, CleanInv, OngoingInv, WorksOnActive
<1> QED
  BY <1>2, <1>3 DEF RepeatInv, ActiveOpened, ActiveReopened

(* An incident that was resolved has affected pods only once it was opened  *)
(* again: only the active incident of a release has any.                    *)
LEMMA OngoingReopened ==
  ASSUME RepeatInv, NEW i \in Incident, pods[i] # {}, Queued("resolved", i)
  PROVE  i \in reopened
<1>1. i.release \in Release /\ i # None
  BY StoreAssumption DEF Incident
<1>2. active[i.release] = i
  BY DEF RepeatInv, CleanInv, OngoingInv, OngoingIsActive
<1> QED
  BY <1>1, <1>2 DEF RepeatInv, ActiveReopened

(* What is in the history stays there.                                      *)
LEMMA HistoryStays ==
  ASSUME Reconciling \/ UNCHANGED historyVars
  PROVE  opened \subseteq opened' /\ reopened \subseteq reopened'
  BY DEF Reconciling, historyVars

(* A step that makes no incident and queues nothing.                        *)
LEMMA RestRepeat ==
  ASSUME RepeatInv, CleanInv', UNCHANGED queued, Reconciling \/ UNCHANGED historyVars,
         \A r \in Release : active'[r] \in {active[r], None}
  PROVE  RepeatInv'
<1>1. opened \subseteq opened' /\ reopened \subseteq reopened'
  BY HistoryStays
<1> QED
  BY <1>1 DEF RepeatInv, NewOpened, ResolvedFollows, ActiveOpened, ActiveReopened, Queued

LEMMA CreateRepeat ==
  ASSUME RepeatInv, CleanInv', CreateActiveIncident, Reconciling
  PROVE  RepeatInv'
<1> DEFINE i == Created(now)
<1>1. TypeOK /\ DataTypeOK /\ now \in Nat
  BY RepeatFrame
<1>2. myPod \in Pod /\ myRelease \in Release
  BY <1>1, PodFrame DEF CreateActiveIncident, at
<1>3. i \in Incident /\ i.release = myRelease
  BY <1>1, <1>2 DEF Created, Incident, TypeOK, ClusterTypeOK
<1>4. UNCHANGED queued /\ active[myRelease] = None
  BY DEF CreateActiveIncident, queueVars
<1>5. \A r \in Release : active'[r] = IF r = myRelease THEN i ELSE active[r]
  BY <1>1, <1>2 DEF CreateActiveIncident, DataTypeOK
<1> HIDE DEF i
<1>6. i \in Opening
  BY <1>2, <1>3, <1>4, <1>5, StoreAssumption DEF Opening
<1>7. i \in opened' /\ (i \in opened => i \in reopened')
  BY <1>6 DEF Reconciling
<1>8. Queued("resolved", i) => i \in opened
  BY <1>3 DEF RepeatInv, ResolvedFollows, NewOpened
<1> QED
  BY <1>4, <1>5, <1>7, <1>8, HistoryStays
     DEF RepeatInv, NewOpened, ResolvedFollows, ActiveOpened, ActiveReopened, Queued

(* A notification of the worker's incident is queued.                       *)
LEMMA AppendRepeat ==
  ASSUME RepeatInv, CleanInv', UNCHANGED active, Reconciling,
         mine \in Incident, NEW kind \in {"new", "resolved"},
         queued' = queued \cup {[kind |-> kind, incident |-> mine]},
         kind = "new" => mine \in opened,
         kind = "resolved" => Queued("new", mine) /\ active[mine.release] # mine
  PROVE  RepeatInv'
<1>1. \A i \in Incident : \A k \in {"new", "resolved"} :
        Queued(k, i)' <=> Queued(k, i) \/ (k = kind /\ i = mine)
  BY DEF Queued
<1>2. NewOpened' /\ ResolvedFollows' /\ ActiveOpened'
  BY <1>1, HistoryStays DEF RepeatInv, NewOpened, ResolvedFollows, ActiveOpened
<1>3. ActiveReopened'
  BY <1>1, HistoryStays, RepeatFrame DEF RepeatInv, ActiveReopened
<1> QED
  BY <1>2, <1>3 DEF RepeatInv

LEMMA ReconcilingRepeat ==
  ASSUME Clean, RepeatInv, Reconciling
  PROVE  RepeatInv'
<1>1. CleanInv' /\ TypeOK /\ StoreTypeOK /\ FrameTypeOK
  BY NextClean, RepeatFrame DEF RepeatInv, Reconciling, Next, TypeOK
<1>2. CASE QueueResolved(Worker)
  <2>1. /\ pc[Worker] = "queueResolved" /\ UNCHANGED active
        /\ queued' = queued \cup {[kind |-> "resolved", incident |-> mine]}
    BY <1>2 DEF QueueResolved, AppendToNotifyWorkQueue, dataVars, mine
  <2>2. mine \in Incident
    BY <1>1, <2>1, WorkerIsGoroutine DEF FrameTypeOK, ResolveLabel, mine
  <2>3. IncidentExists(mine) /\ active[mine.release] # mine
    BY <2>1 DEF RepeatInv, CleanInv, EventsInv, KnowsEvents, Knowing, Resolving, at
  <2>4. Queued("new", mine)
    BY <2>1, <2>2, <2>3 DEF RepeatInv, CleanInv, Announced, Queued
  <2> QED
    BY <1>1, <2>1, <2>2, <2>3, <2>4, AppendRepeat
<1>3. CASE ResolveStep(Worker) /\ ~QueueResolved(Worker)
  <2>1. UNCHANGED queued
    BY <1>3 DEF ResolveStep, SetPodResolved, RemovePod, CheckPods, SetJobIncidentResolved, DeletePods,
                DeleteActive, queueVars
  <2> QED
    BY <1>1, <1>3, <2>1, ResolveEffect, WorkerIsGoroutine, RestRepeat
<1>4. CASE Announce
  <2>1. /\ pc[Worker] \in RecordLabel /\ UNCHANGED active
        /\ queued' = queued \cup {[kind |-> "new", incident |-> mine]}
    BY <1>4 DEF Announce, AppendToNotifyWorkQueue, at, dataVars, RecordLabel
  <2> QED
    BY <1>1, <2>1, RecordsActive, AppendRepeat
<1>5. CASE RecordStep /\ ~CreateActiveIncident /\ ~Announce
  <2>1. UNCHANGED <<active, queued>>
    BY <1>5 DEF RecordStep, GetActiveIncident, IgnoreMultipodDeployment, CheckDuplicate, FetchLogs,
                AddEventToIncident, ExpireEvents, AddPod, ExpirePods, dataVars, queueVars
  <2> QED
    BY <1>1, <2>1, RestRepeat
<1>6. CASE (\E p \in Pod : Reconcile(p)) \/ ResolveHealthy \/ AbortReconcile
  <2>1. UNCHANGED <<active, queued>>
    BY <1>6 DEF Reconcile, ResolveHealthy, AbortReconcile, dataVars, queueVars
  <2> QED
    BY <1>1, <2>1, RestRepeat
<1> QED
  BY <1>1, <1>2, <1>3, <1>4, <1>5, <1>6, CreateRepeat DEF Reconciling, WorkerStep

(* The cluster's step, or none.                                             *)
LEMMA ClusterRepeat ==
  ASSUME Clean, RepeatInv, [Next]_vars, UNCHANGED <<storeVars, historyVars>>
  PROVE  RepeatInv'
<1>1. CleanInv' /\ UNCHANGED <<active, queued>>
  BY NextClean DEF RepeatInv, storeVars, dataVars, queueVars
<1> QED
  BY <1>1, RestRepeat

LEMMA InitRepeat ==
  ASSUME AgentInit
  PROVE  RepeatInv
<1>1. CleanInv
  BY InitClean DEF AgentInit
<1> QED
  BY <1>1
     DEF AgentInit, Init, StoreInit, RepeatInv, NewOpened, ResolvedFollows, ActiveOpened, ActiveReopened,
         Queued

----------------------------------------------------------------------------
(* The consumer's part.  What is in flight is in the queue or in its hands, *)
(* with the score it is in the queue by.                                    *)

InFlight == pending \cup {held[c] : c \in {k \in Consumers : held[k] # None}}

LEMMA FlightMembers ==
  /\ \A n : n \in InFlight <=> n \in pending \/ \E c \in Consumers : held[c] # None /\ n = held[c]
  /\ \A n : n \in InFlight' <=> n \in pending' \/ \E c \in Consumers : held'[c] # None /\ n = held'[c]
  BY DEF InFlight

(* What is in flight was queued, in the past, and so was what was told.     *)
OnlyQueued ==
  /\ \A n \in InFlight : Queued(n.kind, n.incident) /\ n.score <= now
  /\ \A t \in told : Queued(t.kind, t.incident)

(* The announcement of i is ahead of its resolution, which is still in the  *)
(* queue.                                                                   *)
InOrder(i) ==
  /\ \A m, n \in InFlight :
       m.incident = i /\ n.incident = i /\ m.kind = "new" /\ n.kind = "resolved"
         => m.score <= n.score
  /\ \A c \in Consumers : held[c] # None /\ held[c].incident = i => held[c].kind = "new"
  /\ ~Told("resolved", i)

Ordered == \A i \in Incident : Told("new", i) \/ i \in reopened \/ InOrder(i)

(* The state a consumer is about to post with a resolution.                 *)
StatesResolved ==
  \A c \in Consumers :
    cpc[c] = "posting" /\ held[c].kind = "resolved" /\ state[c] = "ONGOING"
      => held[c].incident \in reopened

OrderInv ==
  /\ OutboxInv /\ Kept /\ RepeatInv
  /\ OnlyQueued /\ Ordered /\ StatesResolved /\ ResolvedSaysResolved

(* The agent is alone, no sweep runs, no call fails, logs can be read, and  *)
(* the server answers no error status.                                      *)
Undisturbed ==
  /\ Clean
  /\ Sweepers = {}
  /\ OneConsumer
  /\ BadStatus \notin PostReply

LEMMA OrderFrame ==
  ASSUME OrderInv
  PROVE  /\ AgentTypeOK /\ NotifierTypeOK /\ QueueTypeOK /\ DataTypeOK
         /\ InFlight \subseteq Notice
         /\ now \in Nat
         /\ \A n \in Notice : n.score \in Nat /\ n.incident \in Incident /\ n.kind \in {"new", "resolved"}
         /\ HandsEmpty /\ HeldHaveEvents
<1>1. AgentTypeOK /\ NotifierTypeOK /\ QueueTypeOK /\ DataTypeOK /\ HandsEmpty /\ HeldHaveEvents
  BY DEF OrderInv, OutboxInv, AgentEventsInv, AgentTypeOK, TypeOK, StoreTypeOK
<1>2. InFlight \subseteq Notice
  BY <1>1, FlightMembers DEF QueueTypeOK, NotifierTypeOK
<1>3. now \in Nat
  BY RepeatFrame DEF OrderInv
<1> QED
  BY <1>1, <1>2, <1>3 DEF Notice, Time

(* What a step of the worker, of the cluster, or none, queues.              *)
LEMMA NextQueues ==
  ASSUME RepeatInv, [Next]_vars
  PROVE  \/ UNCHANGED queueVars
         \/ pc[Worker] = "queueResolved" /\ AppendToNotifyWorkQueue("resolved", mine)
         \/ pc[Worker] = "announce" /\ AppendToNotifyWorkQueue("new", mine)
<1>1. CASE UNCHANGED storeVars
  BY <1>1 DEF storeVars
<1>2. CASE ResolveStep(Worker)
  BY <1>2, RepeatFrame, ResolveEffect, WorkerIsGoroutine DEF TypeOK, mine
<1>3. CASE RecordStep
  BY <1>3
     DEF RecordStep, GetActiveIncident, IgnoreMultipodDeployment, CreateActiveIncident, CheckDuplicate,
         FetchLogs, AddEventToIncident, ExpireEvents, AddPod, ExpirePods, Announce, at
<1>4. CASE (\E p \in Pod : Reconcile(p)) \/ ResolveHealthy \/ AbortReconcile
  BY <1>4 DEF Reconcile, ResolveHealthy, AbortReconcile
<1> QED
  BY <1>1, <1>2, <1>3, <1>4 DEF Next, vars, WorkerStep

(* The worker's steps keep announcements ahead: a resolution is queued      *)
(* later than the announcement, and an announcement after a resolution only *)
(* for an incident that was opened again.                                   *)
LEMMA NextOrdered ==
  ASSUME OrderInv, [Next]_vars, UNCHANGED consumerVars, now' \in Nat, now <= now',
         reopened \subseteq reopened'
  PROVE  (OnlyQueued /\ Ordered /\ StatesResolved /\ ResolvedSaysResolved)'
<1> USE DEF consumerVars
<1>2. \A i \in Incident : \A kind : Told(kind, i)' <=> Told(kind, i)
  BY DEF Told
<1>3. StatesResolved' /\ ResolvedSaysResolved'
  <2>1. \A c \in Consumers : cpc[c] = "posting" => held[c].incident \in Incident
    BY OrderFrame DEF NotifierTypeOK
  <2>2. \A t \in told : t.incident \in Incident
    BY OrderFrame DEF NotifierTypeOK
  <2> QED
    BY <2>1, <2>2 DEF OrderInv, StatesResolved, ResolvedSaysResolved
<1>4. CASE UNCHANGED queueVars
  <2>1. \A n : n \in InFlight' <=> n \in InFlight
    BY <1>4, FlightMembers DEF queueVars
  <2>2. OnlyQueued'
    BY <1>4, <2>1, OrderFrame DEF OrderInv, OnlyQueued, Queued, queueVars
  <2>3. Ordered'
    BY <1>2, <2>1 DEF OrderInv, Ordered, InOrder
  <2> QED
    BY <1>3, <2>2, <2>3
<1>5. ASSUME NEW kind \in {"new", "resolved"}, AppendToNotifyWorkQueue(kind, mine), mine \in Incident,
             kind = "new" => ~Queued("resolved", mine) \/ mine \in reopened
      PROVE  (OnlyQueued /\ Ordered)'
  <2> DEFINE new == [kind |-> kind, incident |-> mine, score |-> now]
  <2>1. \A n \in InFlight' : n \in InFlight \/ n = new
    BY <1>5, FlightMembers DEF AppendToNotifyWorkQueue, ZAddPending
  <2>2. \A k : \A i \in Incident : Queued(k, i)' <=> Queued(k, i) \/ (k = kind /\ i = mine)
    BY <1>5 DEF AppendToNotifyWorkQueue, Queued
  <2>3. new.kind = kind /\ new.incident = mine /\ new.score = now
    OBVIOUS
  <2> HIDE DEF new
  <2>4. OnlyQueued'
    <3>1. \A n \in InFlight' : Queued(n.kind, n.incident)' /\ n.score <= now'
      BY <1>5, <2>1, <2>2, <2>3, OrderFrame DEF OrderInv, OnlyQueued
    <3>2. \A t \in told : Queued(t.kind, t.incident)'
      BY <2>2, OrderFrame DEF OrderInv, OnlyQueued, NotifierTypeOK
    <3> QED
      BY <3>1, <3>2 DEF OnlyQueued
  <2>5. Ordered'
    <3> SUFFICES ASSUME NEW i \in Incident, ~Told("new", i), i \notin reopened'
                 PROVE  InOrder(i)'
      BY <1>2 DEF Ordered
    <3>1. InOrder(i) /\ i \notin reopened
      BY DEF OrderInv, Ordered
    <3>2. ASSUME NEW m \in InFlight', NEW n \in InFlight', m.incident = i, n.incident = i,
                 m.kind = "new", n.kind = "resolved"
          PROVE  m.score <= n.score
      <4>1. CASE m \in InFlight /\ n \in InFlight
        BY <3>1, <3>2, <4>1 DEF InOrder
      <4>2. CASE m \in InFlight /\ n = new
        BY <2>3, <4>2 DEF OrderInv, OnlyQueued
      <4>3. CASE m = new /\ n \in InFlight
        BY <1>5, <2>3, <3>1, <3>2, <4>3 DEF OrderInv, OnlyQueued
      <4>4. CASE m = new /\ n = new
        BY <3>2, <4>4
      <4> QED
        BY <2>1, <4>1, <4>2, <4>3, <4>4
    <3> QED
      BY <1>2, <3>1, <3>2 DEF InOrder
  <2> QED
    BY <2>4, <2>5
<1>6. CASE pc[Worker] = "queueResolved" /\ AppendToNotifyWorkQueue("resolved", mine)
  <2>1. mine \in Incident
    BY <1>6, RepeatFrame, WorkerIsGoroutine DEF OrderInv, FrameTypeOK, ResolveLabel, mine
  <2> QED
    BY <1>3, <1>5, <1>6, <2>1
<1>7. CASE pc[Worker] = "announce" /\ AppendToNotifyWorkQueue("new", mine)
  <2>1. mine \in Incident
    BY <1>7, RecordsActive DEF OrderInv, RecordLabel
  <2>2. Queued("resolved", mine) => mine \in reopened
    BY <1>7, RecordsActive DEF OrderInv, RecordLabel
  <2> QED
    BY <1>3, <1>5, <1>7, <2>1, <2>2
<1> QED
  BY <1>4, <1>6, <1>7, NextQueues DEF OrderInv

(* What a consumer's step does: it puts nothing new in flight, holds what   *)
(* it held or the oldest of the queue, and tells what it holds.             *)
LEMMA ConsumerCarries ==
  ASSUME AgentTypeOK, NEW c \in Consumers, Consuming(c)
  PROVE  /\ UNCHANGED queued
         /\ \A n \in InFlight' : n \in InFlight
         /\ \A k \in Consumers : held'[k] # None =>
              held'[k] = held[k] \/ (k = c /\ cpc[c] = "popping" /\ held'[k] \in Oldest)
         /\ told \subseteq told'
         /\ \A t \in told' : t \in told \/ (/\ cpc[c] = "posting"
                                          /\ t.kind = held[c].kind
                                          /\ t.incident = held[c].incident
                                          /\ t.state = state[c])
<1> USE DEF AgentTypeOK, NotifierTypeOK
<1>1. CASE CheckPending(c)
  BY <1>1, FlightMembers DEF CheckPending, queueVars
<1>2. CASE PopPending(c)
  BY <1>2, FlightMembers DEF PopPending, Oldest
<1>3. ASSUME UNCHANGED queueVars, UNCHANGED held \/ AwaitPulse(c)
      PROVE  /\ UNCHANGED queued
             /\ \A n \in InFlight' : n \in InFlight
             /\ \A k \in Consumers : held'[k] # None => held'[k] = held[k]
  BY <1>3, FlightMembers DEF AwaitPulse, queueVars
<1>4. CASE GetIncidentDetails(c) \/ ConsumerCallFails(c) \/ RestartConsumer(c)
  BY <1>3, <1>4 DEF GetIncidentDetails, ConsumerCallFails, RestartConsumer
<1>5. CASE PostNotification(c)
  BY <1>3, <1>5 DEF PostNotification, Tell
<1>6. CASE RequeueItemWithScore(c)
  <2>1. held[c] \in Notice /\ held[c] # None
    BY <1>6, NotifierAssumption DEF RequeueItemWithScore
  <2>2. [kind |-> held[c].kind, incident |-> held[c].incident, score |-> held[c].score] = held[c]
    BY <2>1 DEF Notice
  <2>3. \A n \in pending' : n \in pending \/ n = held[c]
    BY <1>6, <2>2 DEF RequeueItemWithScore, ZAddPending
  <2> QED
    BY <1>6, <2>1, <2>3, FlightMembers DEF RequeueItemWithScore, AwaitPulse
<1> QED
  BY <1>1, <1>2, <1>4, <1>5, <1>6 DEF Consuming, ConsumerStep

(* When a resolution is the oldest notification in the queue, its incident  *)
(* was announced to the server, or opened again: an announcement that is    *)
(* still to come is in the queue, as no hand holds it, and goes first.      *)
LEMMA AnnouncedFirst ==
  ASSUME OrderInv, OneConsumer, NEW c \in Consumers, cpc[c] = "popping",
         NEW n \in Oldest, n.kind = "resolved"
  PROVE  Told("new", n.incident) \/ n.incident \in reopened
<1> SUFFICES ASSUME ~Told("new", n.incident), n.incident \notin reopened
             PROVE  FALSE
  OBVIOUS
<1>1. n \in pending /\ n \in InFlight /\ n.incident \in Incident
  BY FlightMembers, OrderFrame DEF Oldest
<1>2. Queued("new", n.incident)
  BY <1>1 DEF OrderInv, OnlyQueued, RepeatInv, ResolvedFollows
<1>3. \A d \in Consumers : held[d] = None
  BY OrderFrame DEF HandsEmpty, OneConsumer
<1>4. PICK m \in pending : [kind |-> "new", incident |-> n.incident] = Abstractly(m)
  BY <1>2, <1>3, OutstandingMembers DEF OrderInv, Kept, Queued, Told, Abstractly
<1>5. m.kind = "new" /\ m.incident = n.incident /\ m \in InFlight
  BY <1>4, FlightMembers DEF Abstractly
<1>6. m.score <= n.score /\ m.score \in Nat /\ n.score \in Nat
  BY <1>1, <1>5, OrderFrame DEF OrderInv, Ordered, InOrder
<1>7. Precedes(m, n)
  BY <1>5, <1>6 DEF Precedes
<1> QED
  BY <1>4, <1>7 DEF Oldest

LEMMA ConsumingOrdered ==
  ASSUME OrderInv, OneConsumer, NEW c \in Consumers, Consuming(c)
  PROVE  (OnlyQueued /\ Ordered /\ StatesResolved /\ ResolvedSaysResolved)'
<1>1. AgentTypeOK /\ UNCHANGED <<now, pods>>
  BY OrderFrame DEF Consuming, clusterVars, dataVars
<1>2. UNCHANGED reopened
  BY DEF Consuming, historyVars
<1>3. cpc[c] \in {"details", "posting"} => held[c] \in Notice /\ held[c] \in InFlight
  BY FlightMembers, OrderFrame, NotifierAssumption DEF NotifierTypeOK
<1>4. OnlyQueued'
  BY <1>1, <1>3, ConsumerCarries DEF OrderInv, OnlyQueued, Queued
<1>5. Ordered'
  <2> SUFFICES ASSUME NEW i \in Incident, ~Told("new", i)', i \notin reopened
               PROVE  InOrder(i)'
    BY <1>2 DEF Ordered
  <2>1. ~Told("new", i)
    BY <1>1, ConsumerCarries DEF Told
  <2>2. InOrder(i)
    BY <2>1 DEF OrderInv, Ordered
  <2>3. \A k \in Consumers : held'[k] # None /\ held'[k].incident = i => held'[k].kind = "new"
    <3> SUFFICES ASSUME NEW k \in Consumers, held'[k] # None, held'[k].incident = i, held'[k] # held[k]
                 PROVE  held'[k].kind = "new"
      BY <2>2 DEF InOrder
    <3>1. cpc[c] = "popping" /\ held'[k] \in Oldest
      BY <1>1, ConsumerCarries
    <3>2. held'[k].kind # "resolved"
      BY <2>1, <3>1, AnnouncedFirst
    <3> QED
      BY <3>1, <3>2, FlightMembers, OrderFrame DEF Oldest
  <2>4. ~Told("resolved", i)'
    BY <1>1, <1>3, <2>2, ConsumerCarries, NotifierAssumption DEF InOrder, Told
  <2> QED
    BY <1>1, <2>2, <2>3, <2>4, ConsumerCarries DEF InOrder
<1>6. StatesResolved'
  <2>1. CASE GetIncidentDetails(c)
    <3>1. held[c].kind = "resolved" /\ pods[held[c].incident] # {} /\ cpc[c] = "details"
            => held[c].incident \in reopened
      BY <1>3, OngoingReopened, OrderFrame DEF OrderInv, OnlyQueued
    <3> QED
      BY <1>2, <2>1, <3>1, OrderFrame
         DEF GetIncidentDetails, AwaitPulse, NotifierTypeOK, OrderInv, StatesResolved
  <2>2. CASE ~GetIncidentDetails(c)
    <3>1. \A k \in Consumers : cpc'[k] = "posting" =>
            cpc[k] = "posting" /\ held'[k] = held[k] /\ state'[k] = state[k]
      BY <2>2, OrderFrame
         DEF Consuming, ConsumerStep, CheckPending, PopPending, PostNotification, RequeueItemWithScore,
             ConsumerCallFails, RestartConsumer, AwaitPulse, NotifierTypeOK
    <3> QED
      BY <1>2, <3>1, OrderFrame DEF OrderInv, StatesResolved, NotifierTypeOK, Notice
  <2> QED
    BY <2>1, <2>2
<1>7. ResolvedSaysResolved'
  <2>1. \A t \in told : t.incident \in Incident
    BY OrderFrame DEF NotifierTypeOK
  <2> QED
    BY <1>1, <1>2, <1>3, <2>1, OrderFrame, ConsumerCarries
       DEF OrderInv, StatesResolved, ResolvedSaysResolved
<1> QED
  BY <1>4, <1>5, <1>6, <1>7

(* A consumer takes nothing from the worker, whose invariant does not       *)
(* depend on the queue but for what was put in it.                          *)
LEMMA ConsumingRepeat ==
  ASSUME RepeatInv, EventsInv',
         UNCHANGED <<clusterVars, dataVars, frameVars, workerVars, queued, historyVars>>
  PROVE  RepeatInv'
<1>1. UNCHANGED <<active, events, pods, logs, expiring, pc, mine, myPod, myRelease, newIncident, unlogged>>
  BY DEF clusterVars, dataVars, frameVars, workerVars, mine, myPod, myRelease
<1>2. OngoingInv'
  BY <1>1 DEF EventsInv, RepeatInv, CleanInv, OngoingInv, ActiveOfRelease, WorksOnActive, DropsHealthy,
              OngoingIsActive
<1>3. CleanInv'
  BY <1>1, <1>2
     DEF RepeatInv, CleanInv, NewWhileRecording, OldExists, ActiveRecorded, LogsRecorded, Announced,
         Expiring, Resolving, IncidentExists, at
<1> QED
  BY <1>1, <1>3, RestRepeat

LEMMA NextOrder ==
  ASSUME Undisturbed, OrderInv, [AgentNext]_agentVars
  PROVE  OrderInv'
<1>1. OutboxInv' /\ EventsInv' /\ AgentTypeOK /\ TypeOK
  BY AgentEvents, AgentHandsEmpty DEF OrderInv, OutboxInv, AgentEventsInv, AgentTypeOK
<1>2. Kept'
  BY NextKeeps DEF OrderInv, Undisturbed, Clean
<1>3. CASE /\ [Next]_vars /\ UNCHANGED consumerVars
           /\ Reconciling \/ UNCHANGED <<storeVars, historyVars>>
  <2>1. RepeatInv'
    BY <1>3, ReconcilingRepeat, ClusterRepeat DEF OrderInv, Undisturbed
  <2>2. now' \in Nat /\ now <= now'
    BY <1>3, OrderFrame DEF Next, vars, clusterVars, WorkerStep, ClusterStep, Tick, DeletePod, RecreatePod
  <2>3. reopened \subseteq reopened'
    BY <1>3, HistoryStays
  <2> QED
    BY <1>1, <1>2, <1>3, <2>1, <2>2, <2>3, NextOrdered DEF OrderInv
<1>4. ASSUME NEW c \in Consumers, Consuming(c)
      PROVE  OrderInv'
  <2>1. RepeatInv'
    BY <1>1, <1>4, ConsumerCarries, ConsumingRepeat DEF Consuming, OrderInv
  <2> QED
    BY <1>1, <1>2, <1>4, <2>1, ConsumingOrdered DEF OrderInv, Undisturbed
<1>5. CASE Reconciling
  BY <1>3, <1>5 DEF Reconciling, Next
<1>7. CASE ClusterStep /\ UNCHANGED <<storeVars, workerVars, sweepVars, consumerVars, historyVars>>
  BY <1>3, <1>7 DEF Next
<1>6. CASE UNCHANGED agentVars
  BY <1>3, <1>6 DEF agentVars, vars
<1> QED
  BY <1>4, <1>5, <1>6, <1>7 DEF AgentNext, Undisturbed

LEMMA OrderInvariant == Undisturbed => (AgentSpec => []OrderInv)
<1> SUFFICES ASSUME Undisturbed PROVE AgentSpec => []OrderInv
  OBVIOUS
<1>1. AgentInit => OrderInv
  <2> SUFFICES ASSUME AgentInit PROVE OrderInv
    OBVIOUS
  <2>1. OutboxInv
    BY InitAgentEvents DEF AgentInit, NotifierInit, HandsEmpty, OutboxInv
  <2>2. RepeatInv
    BY InitRepeat
  <2>3. InFlight = {}
    BY FlightMembers DEF AgentInit, Init, StoreInit, NotifierInit
  <2>4. queued = {} /\ told = {} /\ \A c \in Consumers : held[c] = None /\ cpc[c] = "waiting"
    BY DEF AgentInit, Init, StoreInit, NotifierInit
  <2>5. OnlyQueued /\ Ordered /\ StatesResolved /\ ResolvedSaysResolved /\ Kept
    BY <2>3, <2>4
       DEF OnlyQueued, Ordered, InOrder, Told, StatesResolved, ResolvedSaysResolved, Kept
  <2> QED
    BY <2>1, <2>2, <2>5 DEF OrderInv
<1>2. OrderInv /\ [AgentNext]_agentVars => OrderInv'
  BY NextOrder
<1> QED
  BY <1>1, <1>2, PTL DEF AgentSpec

(* The server hears of an incident before it hears that it is resolved,     *)
(* however POSTs are refused or answered too late: a notification is put    *)
(* back with its old score (pkg/redis/client.go:85).  A first resolution    *)
(* overtakes the announcement only of an incident that was opened again in  *)
(* its second, and then the announcement is still to come.                  *)
THEOREM ToldAlwaysInOrder == Undisturbed => (AgentSpec => []ToldInOrder)
<1>1. OrderInv => ToldInOrder
  <2> SUFFICES ASSUME OrderInv, NEW i \in Incident, Told("resolved", i), ~Told("new", i)
               PROVE  i \in reopened /\ [kind |-> "new", incident |-> i] \in Outstanding
    BY DEF ToldInOrder
  <2>1. i \in reopened
    BY DEF OrderInv, Ordered, InOrder
  <2>2. Queued("new", i)
    BY DEF OrderInv, OnlyQueued, RepeatInv, ResolvedFollows, Told
  <2>3. [kind |-> "new", incident |-> i] \in Outstanding
    BY <2>2 DEF OrderInv, Kept, Queued, Told, Abstractly
  <2> QED
    BY <2>1, <2>3
<1> QED
  BY <1>1, OrderInvariant, PTL

(* A resolution the server processes says that the incident is resolved,    *)
(* whenever its state is read (GetIncidentDetails, pkg/redis/client.go:370):*)
(* only an incident that was opened again has affected pods by then.        *)
THEOREM ResolutionsSayResolved == Undisturbed => (AgentSpec => []ResolvedSaysResolved)
<1>1. OrderInv => ResolvedSaysResolved
  BY DEF OrderInv
<1> QED
  BY <1>1, OrderInvariant, PTL

----------------------------------------------------------------------------
(* What holds of the worker alone, holds of it beside consumers: they leave *)
(* all it works with as it is.                                              *)

(* In an agent without sweeps, clean reconciles open, announce and close    *)
(* incidents in their order, whatever any number of consumers does          *)
(* meanwhile.                                                               *)
THEOREM AgentCleanLifecycle == Clean /\ Sweepers = {} => (AgentSpec => FollowsLifecycle)
<1> SUFFICES ASSUME Clean, Sweepers = {} PROVE AgentSpec => FollowsLifecycle
  OBVIOUS
<1> DEFINE Inv == AgentEventsInv /\ CleanInv
<1>1. AgentInit => Inv /\ Life!LifecycleInit
  <2> SUFFICES ASSUME AgentInit PROVE Inv /\ Life!LifecycleInit
    OBVIOUS
  <2>1. active = [r \in Release |-> None] /\ \A i \in Incident : Happened(i) = {}
    BY DEF AgentInit, Init, StoreInit, Happened, IncidentExists
  <2> QED
    BY <2>1, InitAgentEvents, InitClean DEF AgentInit, Life!LifecycleInit
<1>2. Inv /\ [AgentNext]_agentVars => Inv' /\ [Life!LifecycleNext]_Life!lifecycleVars
  <2> SUFFICES ASSUME Inv, [AgentNext]_agentVars
               PROVE  Inv' /\ [Life!LifecycleNext]_Life!lifecycleVars
    OBVIOUS
  <2>1. AgentEventsInv' /\ AgentTypeOK /\ EventsInv' /\ OngoingInv
    BY AgentEvents DEF AgentEventsInv, CleanInv
  <2>2. CASE [Next]_vars
    BY <2>1, <2>2, NextClean, StepFollowsLifecycle
  <2>3. ASSUME NEW c \in Consumers, Consuming(c)
        PROVE  Inv' /\ [Life!LifecycleNext]_Life!lifecycleVars
    <3>1. /\ UNCHANGED <<active, events, pods, logs, expiring, pc, mine, myPod, myRelease, newIncident>>
          /\ UNCHANGED <<unlogged, queued>>
      BY <2>1, <2>3, ConsumerCarries
         DEF Consuming, dataVars, frameVars, workerVars, mine, myPod, myRelease
    <3>2. OngoingInv'
      BY <2>1, <3>1 DEF EventsInv, OngoingInv, ActiveOfRelease, WorksOnActive, DropsHealthy, OngoingIsActive
    <3>3. CleanInv'
      BY <2>1, <3>1, <3>2
         DEF CleanInv, NewWhileRecording, OldExists, ActiveRecorded, LogsRecorded, Announced, Expiring,
             Resolving, IncidentExists, at
    <3>4. UNCHANGED Life!lifecycleVars
      BY <3>1, HistoryKept DEF Life!lifecycleVars, IncidentExists
    <3> QED
      BY <2>1, <3>3, <3>4
  <2> QED
    BY <2>2, <2>3 DEF AgentNext, agentVars, Reconciling, Next
<1> QED
  BY <1>1, <1>2, PTL DEF AgentSpec, FollowsLifecycle, Life!LifecycleSpec

=============================================================================
