--------------------------- MODULE IncidentStore ---------------------------
(***************************************************************************)
(* The Redis keyspace behind pkg/redis/client.go, and those of the         *)
(* client's methods that more than one goroutine calls.  A method is cut   *)
(* at its Redis commands: a command is atomic, and other goroutines run    *)
(* between two of them.                                                    *)
(*                                                                         *)
(* The horizon is shorter than the two weeks after which keys expire: what *)
(* is kept of an expiry is whether a key has one.                          *)
(***************************************************************************)
EXTENDS Cluster

CONSTANTS
  Message,    \* what the filter reports of a failing pod: reason, message, containers
  Text,       \* log texts
  Goroutine,  \* the goroutines that call the client on incidents
  Fallible,   \* whether Redis and Kubernetes calls can fail and an agent crash
  None        \* nil, or an absent key

\* incident:<release>:<namespace>:<second of creation>
Incident == [release : Release, at : Time]

\* A member of an incident's sorted set, with its score: the event's Timestamp is
\* the time of the reconcile that reports it, the score that of its recording.
Event == [pod : Pod, message : Message, timestamp : Time, score : Time]

\* A member of the sorted set "pending", with its score.
Notice == [kind : {"new", "resolved"}, incident : Incident, score : Time]

KeyKind == {"events", "pods", "logs"}

ASSUME StoreAssumption ==
  /\ Fallible \in BOOLEAN
  /\ None \notin Incident \cup Pod \cup Message \cup Text

VARIABLES
  active,     \* active_incident:<release>:<namespace> -> incident ID
  events,     \* incident ID -> sorted set of events
  pods,       \* pods:<incident ID> -> set of affected pods
  logs,       \* logs:<incident ID> -> its latest log text
  expiring,   \* the keys of an incident that have an expiry
  pending,    \* the sorted set "pending" of notifications to send
  pc,         \* where a goroutine is, "idle" when it runs none of our calls
  inc,        \* the incidentID argument of the call it runs
  pod         \* the pod it works on

(* History: every notification ever appended, for the properties. *)
VARIABLE queued

dataVars == <<active, events, pods, logs, expiring>>
queueVars == <<pending, queued>>
frameVars == <<pc, inc, pod>>
storeVars == <<dataVars, queueVars, frameVars>>

\* Where a goroutine can be inside SetPodResolved and SetJobIncidentResolved, and
\* inside the parts of Reconcile that have and that do not have an incident yet.
ResolveLabel == {"podResolved", "removePod", "checkPods", "jobResolved", "deletePods",
                 "deleteActive", "queueResolved"}
RecordLabel == {"dedup", "logs", "expireEvents", "addPod", "expirePods", "announce"}
Label == ResolveLabel \cup RecordLabel \cup {"idle", "healthy", "failing"}

StoreInit ==
  /\ active = [r \in Release |-> None]
  /\ events = [i \in Incident |-> {}]
  /\ pods = [i \in Incident |-> {}]
  /\ logs = [i \in Incident |-> None]
  /\ expiring = [i \in Incident |-> {}]
  /\ pending = {}
  /\ queued = {}
  /\ pc = [g \in Goroutine |-> "idle"]
  /\ inc = [g \in Goroutine |-> None]
  /\ pod = [g \in Goroutine |-> None]

----------------------------------------------------------------------------
(* Control of a call.                                                       *)

Goto(g, label) ==
  /\ pc' = [pc EXCEPT ![g] = label]
  /\ UNCHANGED <<inc, pod>>

Return(g) ==
  /\ pc' = [pc EXCEPT ![g] = "idle"]
  /\ inc' = [inc EXCEPT ![g] = None]
  /\ pod' = [pod EXCEPT ![g] = None]

(* Begin a call of a client method on incident i. *)
Call(g, method, i, p) ==
  /\ pc' = [pc EXCEPT ![g] = method]
  /\ inc' = [inc EXCEPT ![g] = i]
  /\ pod' = [pod EXCEPT ![g] = p]

(* A Redis call of g answers with an error (or the minute of a sweep is     *)
(* over): every such error makes the method return at once, and nothing     *)
(* already done is undone.                                                  *)
CallFails(g) ==
  /\ Fallible
  /\ pc[g] # "idle"
  /\ Return(g)
  /\ UNCHANGED <<dataVars, queueVars>>

----------------------------------------------------------------------------
(* Redis commands.                                                          *)

IncidentExists(i) == events[i] # {}

(* GetLatestEventForIncident: the first of the set in reverse.  Members of  *)
(* one score are ordered by their JSON text, which is left open.            *)
LatestEvents(i) == {e \in events[i] : \A f \in events[i] : f.score <= e.score}

(* ZADD "pending": a member that is already there only gets the new score. *)
ZAddPending(kind, i, score) ==
  pending' = {n \in pending : ~(n.kind = kind /\ n.incident = i)}
               \cup {[kind |-> kind, incident |-> i, score |-> score]}

AppendToNotifyWorkQueue(kind, i) ==
  /\ ZAddPending(kind, i, now)
  /\ queued' = queued \cup {[kind |-> kind, incident |-> i]}

(* A set that becomes empty is a deleted key, and its expiry goes with it. *)
SetPods(i, members) ==
  /\ pods' = [pods EXCEPT ![i] = members]
  /\ expiring' = [expiring EXCEPT ![i] = IF members = {} THEN @ \ {"pods"} ELSE @]

----------------------------------------------------------------------------
(* SetPodResolved(podName, incidentID)                                      *)

\* Mutant: without the test that the incident exists.
SetPodResolvedUnchecked(g) ==
  /\ pc[g] = "podResolved"
  /\ Goto(g, "removePod")
  /\ UNCHANGED <<dataVars, queueVars>>

SetPodResolved(g) ==
  /\ pc[g] = "podResolved"
  /\ IF IncidentExists(inc[g]) THEN Goto(g, "removePod") ELSE Return(g)
  /\ UNCHANGED <<dataVars, queueVars>>

RemovePod(g) ==
  /\ pc[g] = "removePod"
  /\ SetPods(inc[g], pods[inc[g]] \ {pod[g]})
  /\ Goto(g, "checkPods")
  /\ UNCHANGED <<active, events, logs, queueVars>>

CheckPods(g) ==
  /\ pc[g] = "checkPods"
  /\ IF pods[inc[g]] = {} THEN Goto(g, "deletePods") ELSE Return(g)
  /\ UNCHANGED <<dataVars, queueVars>>

\* Mutant: without the test that the incident exists.
SetJobIncidentResolvedUnchecked(g) ==
  /\ pc[g] = "jobResolved"
  /\ Goto(g, "deletePods")
  /\ UNCHANGED <<dataVars, queueVars>>

(* SetJobIncidentResolved(incidentID); from the first DEL on it runs as      *)
(* SetPodResolved does.                                                      *)
SetJobIncidentResolved(g) ==
  /\ pc[g] = "jobResolved"
  /\ IF IncidentExists(inc[g]) THEN Goto(g, "deletePods") ELSE Return(g)
  /\ UNCHANGED <<dataVars, queueVars>>

\* Mutant: the set of affected pods is left behind.
DeletePodsForgotten(g) ==
  /\ pc[g] = "deletePods"
  /\ Goto(g, "deleteActive")
  /\ UNCHANGED <<dataVars, queueVars>>

\* Mutant: the pointer to the incident is left behind.
DeletePodsKeepsPointer(g) ==
  /\ pc[g] = "deletePods"
  /\ SetPods(inc[g], {})
  /\ Goto(g, "queueResolved")
  /\ UNCHANGED <<active, events, logs, queueVars>>

DeletePods(g) ==
  /\ pc[g] = "deletePods"
  /\ SetPods(inc[g], {})
  /\ Goto(g, "deleteActive")
  /\ UNCHANGED <<active, events, logs, queueVars>>

\* Mutant: the resolution is not announced.
DeleteActiveSilently(g) ==
  /\ pc[g] = "deleteActive"
  /\ active' = [active EXCEPT ![inc[g].release] = None]
  /\ Return(g)
  /\ UNCHANGED <<events, pods, logs, expiring, queueVars>>

(* The key is built from the release and namespace in the incident's ID, so *)
(* whatever incident it holds by now is dropped.                            *)
DeleteActive(g) ==
  /\ pc[g] = "deleteActive"
  /\ active' = [active EXCEPT ![inc[g].release] = None]
  /\ Goto(g, "queueResolved")
  /\ UNCHANGED <<events, pods, logs, expiring, queueVars>>

QueueResolved(g) ==
  /\ pc[g] = "queueResolved"
  /\ AppendToNotifyWorkQueue("resolved", inc[g])
  /\ Return(g)
  /\ UNCHANGED dataVars

ResolveStep(g) ==
  \/ SetPodResolved(g)
  \/ RemovePod(g)
  \/ CheckPods(g)
  \/ SetJobIncidentResolved(g)
  \/ DeletePods(g)
  \/ DeleteActive(g)
  \/ QueueResolved(g)

----------------------------------------------------------------------------
(* Every variable of the store is a value Redis can hold, and a goroutine   *)
(* inside a client method has the arguments the method works on.            *)
DataTypeOK ==
  /\ active \in [Release -> Incident \cup {None}]
  /\ events \in [Incident -> SUBSET Event]
  /\ pods \in [Incident -> SUBSET Pod]
  /\ logs \in [Incident -> Text \cup {None}]
  /\ expiring \in [Incident -> SUBSET KeyKind]

QueueTypeOK ==
  /\ pending \subseteq Notice
  /\ queued \subseteq [kind : {"new", "resolved"}, incident : Incident]

FrameTypeOK ==
  /\ pc \in [Goroutine -> Label]
  /\ inc \in [Goroutine -> Incident \cup {None}]
  /\ pod \in [Goroutine -> Pod \cup {None}]
  /\ \A g \in Goroutine :
       /\ pc[g] # "idle" => pod[g] \in Pod
       /\ pc[g] \in ResolveLabel \cup RecordLabel => inc[g] \in Incident

StoreTypeOK == DataTypeOK /\ QueueTypeOK /\ FrameTypeOK

=============================================================================
