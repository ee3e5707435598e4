----------------------------- MODULE Reconciler -----------------------------
(***************************************************************************)
(* PodReconciler.Reconcile (controllers/pod_controller.go) with the client *)
(* methods only it calls: CreateActiveIncident, DuplicateLogs, AddLogs and *)
(* AddEventToIncident.  controller-runtime runs one worker, and only in    *)
(* the elected agent, so there is one goroutine of this kind.              *)
(*                                                                         *)
(* A reconcile is cut where another goroutine could see or disturb it: at  *)
(* its writes and at its reads of the active incident.  Reads of keys that *)
(* only this worker writes (events, logs) join the step they decide.       *)
(***************************************************************************)
EXTENDS IncidentStore, FiniteSets

CONSTANTS
  Worker,      \* the goroutine that reconciles
  Job,         \* releases whose pods a Job owns
  Deployment,  \* releases whose pods a Deployment owns; the others resolve by pod only
  Container,   \* containers a failing pod's event reports
  PullError,   \* messages whose reason is the image-pull special case of line 277
  BackOff,     \* messages that start with "back-off"
  LogReply,    \* what streaming a container's logs can give
  MaxEvents    \* events an incident may hold (500 in the code)

NoLogs == "no logs"              \* an empty stream
Unavailable == "unavailable"     \* "unable to retrieve container logs"
StreamError == "stream error"

ASSUME ReconcilerAssumption ==
  /\ Worker \in Goroutine
  /\ Job \subseteq Release
  /\ Deployment \subseteq Release \ Job
  /\ PullError \subseteq Message
  /\ BackOff \subseteq Message
  /\ LogReply \subseteq Text \cup {NoLogs, Unavailable, StreamError}
  /\ None \notin LogReply
  /\ MaxEvents \in Nat

VARIABLES
  message,      \* what the filter said of the pod
  newIncident,  \* whether this reconcile created the incident
  eventTime,    \* the Timestamp of the event it reports
  unlogged      \* containers whose logs are still to be read

workerVars == <<message, newIncident, eventTime, unlogged>>
vars == <<clusterVars, storeVars, workerVars>>

at(label) == pc[Worker] = label
mine == inc[Worker]              \* incidentID
myPod == pod[Worker]             \* instance.Name
myRelease == ReleaseOf[myPod]    \* porterReleaseName and namespace

ReconcilerInit ==
  /\ message = None
  /\ newIncident = FALSE
  /\ eventTime = None
  /\ unlogged = {}

(* return ctrl.Result{...}: the controller reconciles again at some later   *)
(* time, whether it was asked to requeue or a pod changed.                  *)
EndReconcile ==
  /\ Return(Worker)
  /\ message' = None
  /\ newIncident' = FALSE
  /\ eventTime' = None
  /\ unlogged' = {}

----------------------------------------------------------------------------
(* The head of Reconcile.  The pod comes from the informer's cache, so it   *)
(* may be deleted by the time the filter's answer is acted on.              *)
Reconcile(p) ==
  /\ at("idle")
  /\ p \notin deleted
  /\ pod' = [pod EXCEPT ![Worker] = p]
  /\ \/ /\ pc' = [pc EXCEPT ![Worker] = "healthy"]      \* filteredMsgRes == nil
        /\ UNCHANGED message
     \/ \E m \in Message :
          /\ pc' = [pc EXCEPT ![Worker] = "failing"]
          /\ message' = m
  /\ UNCHANGED <<inc, newIncident, eventTime, unlogged, dataVars, queueVars>>

(* A healthy pod: GetActiveIncident, then one of the two ways to resolve,   *)
(* or nothing when the pod has not run for ten minutes and its deployment   *)
(* is short of ready replicas.                                              *)
ResolveHealthy ==
  LET current == active[myRelease]
      \* Reconcile calls Method on the active incident
      calls(method) == Call(Worker, method, current, myPod)
  IN
  /\ at("healthy")
  /\ \/ current = None /\ Return(Worker)
     \/ current # None /\ myRelease \in Job /\ calls("jobResolved")
     \/ current # None /\ myRelease \notin Job /\ calls("podResolved")
     \/ current # None /\ myRelease \in Deployment /\ calls("jobResolved")
     \/ current # None /\ myRelease \notin Job /\ Return(Worker)
  /\ UNCHANGED <<dataVars, queueVars, workerVars>>

\* Mutant: the key is read without the test that it exists.
GetActiveIncidentUnchecked ==
  /\ at("failing")
  /\ Call(Worker, "dedup", active[myRelease], myPod)
  /\ UNCHANGED <<dataVars, queueVars, workerVars>>

(* A failing pod of a release that has an active incident.  A key that goes *)
(* between the EXISTS and the GET ends the reconcile where it began.        *)
GetActiveIncident ==
  /\ at("failing")
  /\ active[myRelease] # None
  /\ Call(Worker, "dedup", active[myRelease], myPod)
  /\ UNCHANGED <<dataVars, queueVars, workerVars>>

(* canIgnoreMultipodDeployment: enough replicas are ready to open nothing.  *)
IgnoreMultipodDeployment ==
  /\ at("failing")
  /\ active[myRelease] = None
  /\ myRelease \in Deployment
  /\ EndReconcile
  /\ UNCHANGED <<dataVars, queueVars>>

\* utils.NewIncident(releaseName, namespace, time.Now().Unix())
Created(t) == [release |-> myRelease, at |-> t]

\* Mutant: the time is the pod's creation timestamp.
CreateBackdatedIncident ==
  \E t \in 0 .. now :
    /\ at("failing")
    /\ active[myRelease] = None
    /\ active' = [active EXCEPT ![myRelease] = Created(t)]
    /\ Call(Worker, "dedup", Created(t), myPod)
    /\ newIncident' = TRUE
    /\ UNCHANGED <<events, pods, logs, expiring, queueVars, message, eventTime, unlogged>>

(* Only this worker sets the key, so it is still absent when it is set. *)
CreateActiveIncident ==
  /\ at("failing")
  /\ active[myRelease] = None
  /\ active' = [active EXCEPT ![myRelease] = Created(now)]
  /\ Call(Worker, "dedup", Created(now), myPod)
  /\ newIncident' = TRUE
  /\ UNCHANGED <<events, pods, logs, expiring, queueVars, message, eventTime, unlogged>>

----------------------------------------------------------------------------
(* IncidentExists, GetLatestEventForIncident and the checks on the latest   *)
(* event.  The new event has its Timestamp before the logs are streamed.    *)

Ignored(latest, m) ==
  \/ m \in PullError /\ latest \in PullError
  \/ m \in BackOff
  \/ m = latest

\* Mutant: the pod of a duplicate event is added to the affected pods.
CheckDuplicateAddsPod ==
  /\ at("dedup")
  /\ \/ /\ IncidentExists(mine)
        /\ \E e \in LatestEvents(mine) : Ignored(e.message, message)
        /\ Goto(Worker, "addPod")
        /\ UNCHANGED workerVars
     \/ /\ IncidentExists(mine) => \E e \in LatestEvents(mine) : ~Ignored(e.message, message)
        /\ Goto(Worker, "logs")
        /\ eventTime' = now
        /\ unlogged' = Container
        /\ UNCHANGED <<message, newIncident>>
  /\ UNCHANGED <<dataVars, queueVars>>

CheckDuplicate ==
  /\ at("dedup")
  /\ \/ /\ IncidentExists(mine)
        /\ \E e \in LatestEvents(mine) : Ignored(e.message, message)
        /\ EndReconcile
     \/ /\ IncidentExists(mine) => \E e \in LatestEvents(mine) : ~Ignored(e.message, message)
        /\ Goto(Worker, "logs")
        /\ eventTime' = now
        /\ unlogged' = Container
        /\ UNCHANGED <<message, newIncident>>
  /\ UNCHANGED <<dataVars, queueVars>>

(* AddLogs: SET of the text, ZADD of its ID, and only then the test whether *)
(* the set is new and needs an expiry.                                      *)
AddLogs(i, text) ==
  /\ logs' = [logs EXCEPT ![i] = text]
  /\ expiring' = IF logs'[i] = None
                   THEN [expiring EXCEPT ![i] = @ \cup {"logs"}]
                   ELSE expiring

\* Mutant: an empty stream ends the reconcile, as an unhelpful one does.
EmptyEndsReconcile(reply) == reply \in {StreamError, Unavailable, NoLogs, logs[mine]}

\* What DuplicateLogs and the tests before it make of a container's logs: the
\* reconcile ends at them, or it goes on and may have a text to add.
EndsReconcile(reply) == reply \in {StreamError, Unavailable, logs[mine]}
Continues(reply) == reply = NoLogs \/ reply \in Text \ {logs[mine]}

(* One turn of the loop over the event's containers, in any order. *)
FetchLogs(c) ==
  /\ at("logs")
  /\ c \in unlogged
  /\ \E reply \in LogReply :
       \/ /\ EndsReconcile(reply)
          /\ EndReconcile
          /\ UNCHANGED <<logs, expiring>>
       \/ /\ Continues(reply)
          /\ IF reply = NoLogs THEN UNCHANGED <<logs, expiring>> ELSE AddLogs(mine, reply)
          /\ unlogged' = unlogged \ {c}
          /\ UNCHANGED <<frameVars, message, newIncident, eventTime>>
  /\ UNCHANGED <<active, events, pods, queueVars>>

----------------------------------------------------------------------------
(* AddEventToIncident(incidentID, event, newIncident)                       *)

\* Mutant: the count is skipped for the wrong incidents.
AtCapInverted == newIncident /\ Cardinality(events[mine]) >= MaxEvents

AtCap == ~newIncident /\ Cardinality(events[mine]) >= MaxEvents

AddEventToIncident ==
  /\ at("logs")
  /\ unlogged = {}
  /\ \/ /\ AtCap
        /\ EndReconcile
        /\ UNCHANGED events
     \/ /\ ~AtCap
        /\ events' = [events EXCEPT ![mine] = @ \cup
                        {[pod |-> myPod, message |-> message, timestamp |-> eventTime, score |-> now]}]
        /\ Goto(Worker, IF newIncident THEN "expireEvents" ELSE "addPod")
        /\ UNCHANGED workerVars
  /\ UNCHANGED <<active, pods, logs, expiring, queueVars>>

\* Mutant: the events are given no expiry.
ExpireEventsForgotten ==
  /\ at("expireEvents")
  /\ Goto(Worker, "addPod")
  /\ UNCHANGED <<dataVars, queueVars, workerVars>>

ExpireEvents ==
  /\ at("expireEvents")
  /\ expiring' = [expiring EXCEPT ![mine] = @ \cup {"events"}]
  /\ Goto(Worker, "addPod")
  /\ UNCHANGED <<active, events, pods, logs, queueVars, workerVars>>

AddPod ==
  /\ at("addPod")
  /\ SetPods(mine, pods[mine] \cup {myPod})
  /\ IF newIncident
       THEN Goto(Worker, "expirePods") /\ UNCHANGED workerVars
       ELSE EndReconcile
  /\ UNCHANGED <<active, events, logs, queueVars>>

(* EXPIREAT does nothing on a key that is gone. *)
ExpirePods ==
  /\ at("expirePods")
  /\ expiring' = [expiring EXCEPT ![mine] = IF pods[mine] = {} THEN @ ELSE @ \cup {"pods"}]
  /\ Goto(Worker, "announce")
  /\ UNCHANGED <<active, events, pods, logs, queueVars, workerVars>>

\* Mutant: a new incident is not announced.
AnnounceForgotten ==
  /\ at("announce")
  /\ EndReconcile
  /\ UNCHANGED <<dataVars, queueVars>>

Announce ==
  /\ at("announce")
  /\ AppendToNotifyWorkQueue("new", mine)
  /\ EndReconcile
  /\ UNCHANGED dataVars

(* An error of a Redis or Kubernetes call, or a crash of the agent: the     *)
(* reconcile ends where it is, and a later one starts over.                 *)
AbortReconcile ==
  /\ Fallible
  /\ ~at("idle")
  /\ EndReconcile
  /\ UNCHANGED <<dataVars, queueVars>>

----------------------------------------------------------------------------

RecordStep ==
  \/ GetActiveIncident
  \/ IgnoreMultipodDeployment
  \/ CreateActiveIncident
  \/ CheckDuplicate
  \/ \E c \in Container : FetchLogs(c)
  \/ AddEventToIncident
  \/ ExpireEvents
  \/ AddPod
  \/ ExpirePods
  \/ Announce

WorkerStep ==
  \/ \E p \in Pod : Reconcile(p)
  \/ ResolveHealthy
  \/ ResolveStep(Worker) /\ UNCHANGED workerVars
  \/ RecordStep
  \/ AbortReconcile

Init == ClusterInit /\ StoreInit /\ ReconcilerInit

Next ==
  \/ WorkerStep /\ UNCHANGED clusterVars
  \/ ClusterStep /\ UNCHANGED <<storeVars, workerVars>>

Spec == Init /\ [][Next]_vars

----------------------------------------------------------------------------
(* The store and the worker's locals hold values of their types, and while  *)
(* an event is being recorded there is a message for it.                    *)
WorkerTypeOK ==
  /\ message \in Message \cup {None}
  /\ newIncident \in BOOLEAN
  /\ eventTime \in Time \cup {None}
  /\ unlogged \subseteq Container
  /\ pc[Worker] \in RecordLabel \cup {"failing"} => message \in Message
  /\ pc[Worker] = "logs" => eventTime \in Time

TypeOK == ClusterTypeOK /\ StoreTypeOK /\ WorkerTypeOK

----------------------------------------------------------------------------
(* Properties that survive failed calls and crashes at any step.            *)

(* An incident with affected pods, which the server is told is ONGOING, is  *)
(* the one its release's active_incident key names: only through that key   *)
(* can a later reconcile find it and resolve it.                            *)
OngoingIsActive ==
  \A i \in Incident : pods[i] # {} => active[i.release] = i

(* A notification is queued for an incident that exists, so the consumer    *)
(* never drops it as one for a "non-existent incident".                     *)
NoticesHaveEvents ==
  \A n \in pending : IncidentExists(n.incident)

(* A pod counts as affected only after an event of it was recorded: the two *)
(* keys are written one after the other, in that order.                     *)
AffectedHaveEvents ==
  \A i \in Incident : \A p \in pods[i] : \E e \in events[i] : e.pod = p

(* No reconcile brings an older incident of a release back as its active    *)
(* one: events of a newer one would be filed under it.                      *)
ActiveIsNewest ==
  \A i \in Incident :
    IncidentExists(i) /\ active[i.release] # None => i.at <= active[i.release].at

(* The cap on events holds, but for the incident that is made again in its  *)
(* second of creation: it has its ID again, and one event skips the count.  *)
EventsCapped ==
  \A i \in Incident :
    \/ Cardinality(events[i]) <= MaxEvents
    \/ Cardinality({e \in events[i] : e.score > i.at}) <= 1

----------------------------------------------------------------------------
(* Properties of reconciles that are not cut short: no call fails, and the  *)
(* logs of a pod are those of one container and can be read.  Logs that can *)
(* not, and a second container with the same ones, end a reconcile that has *)
(* created an incident and not recorded it.                                 *)

(* Once a reconcile has recorded events of an incident, its "new"           *)
(* notification was queued.                                                 *)
EveryIncidentAnnounced ==
  at("idle") => \A i \in Incident :
    IncidentExists(i) => [kind |-> "new", incident |-> i] \in queued

(* An announced incident is still active or its resolution was queued: the  *)
(* server is not left with an incident nobody will close.                   *)
ResolutionQueued ==
  at("idle") => \A i \in Incident :
    [kind |-> "new", incident |-> i] \in queued /\ active[i.release] # i
      => [kind |-> "resolved", incident |-> i] \in queued

(* Every incident's events expire: the key does not outlive its two weeks.  *)
EventsExpire ==
  at("idle") => \A i \in Incident : IncidentExists(i) => "events" \in expiring[i]

(* The active incident exists, so that resolving it is not refused.         *)
ActiveExists ==
  at("idle") => \A r \in Release : active[r] # None => IncidentExists(active[r])

(* An incident lives as the server is to see it: a reconcile opens one only *)
(* when none is open, announces what it has recorded, and closes and        *)
(* announces as resolved only what it has announced.                        *)
Happened(i) ==
  {m \in {"recorded"} : IncidentExists(i)}
    \cup {n.kind : n \in {q \in queued : q.incident = i}}

Life == INSTANCE Lifecycle WITH
  open <- active,
  history <- [i \in Incident |-> Happened(i)]

FollowsLifecycle == Life!LifecycleSpec

----------------------------------------------------------------------------
(* What the code's comments and messages promise, and the code does not do. *)

(* "error setting expiration time for logs set" (pkg/redis/client.go:541):  *)
(* a set of logs is given an expiry when it is created.                     *)
LogsExpire ==
  at("idle") => \A i \in Incident : logs[i] # None => "logs" \in expiring[i]

=============================================================================
