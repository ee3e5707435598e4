------------------------------- MODULE Agent -------------------------------
(***************************************************************************)
(* The goroutines main.go starts, over one Redis: the controller's worker, *)
(* the sweep for deleted pods and the notification consumer.  Every agent  *)
(* process has a sweep and a consumer, and the elected one has the worker; *)
(* nothing but Redis' own atomicity orders them.                           *)
(***************************************************************************)
EXTENDS Reconciler, Sweeper, Notifier

ASSUME AgentAssumption == Worker \notin Sweepers

(* History: the incidents that were ever opened, and those among them that  *)
(* were opened again: a key is built from a second, so an incident that is  *)
(* closed and followed by the next failure in its second of creation comes  *)
(* back under its ID.                                                       *)
VARIABLES opened, reopened

historyVars == <<opened, reopened>>
agentVars == <<vars, sweepVars, consumerVars, historyVars>>

AgentInit ==
  /\ Init
  /\ SweeperInit
  /\ NotifierInit
  /\ opened = {}
  /\ reopened = {}

(* The incidents a step makes the active ones of their releases.            *)
Opening == {i \in Incident : active[i.release] # i /\ active'[i.release] = i}

Reconciling ==
  /\ WorkerStep
  /\ opened' = opened \cup Opening
  /\ reopened' = reopened \cup (Opening \cap opened)
  /\ UNCHANGED <<clusterVars, sweepVars, consumerVars>>

Sweeping(s) ==
  /\ SweepStep(s)
  /\ UNCHANGED <<clusterVars, workerVars, consumerVars, historyVars>>

Consuming(c) ==
  /\ ConsumerStep(c)
  /\ UNCHANGED <<clusterVars, dataVars, frameVars, workerVars, sweepVars, historyVars>>

AgentNext ==
  \/ Reconciling
  \/ \E s \in Sweepers : Sweeping(s)
  \/ \E c \in Consumers : Consuming(c)
  \/ ClusterStep /\ UNCHANGED <<storeVars, workerVars, sweepVars, consumerVars, historyVars>>

AgentSpec == AgentInit /\ [][AgentNext]_agentVars

(* A goroutine that can take its next step takes it: the Go scheduler runs  *)
(* all of them, the ticker of the consumer pulses and the sweep is called   *)
(* again every five minutes.  Nothing is assumed of the pods, of the clock, *)
(* or of when the controller is told of a pod.  The one thing asked of the  *)
(* outside is that a POST which is made again and again is answered in the  *)
(* end.                                                                     *)
Fairness ==
  /\ WF_agentVars(~at("idle") /\ Reconciling)
  /\ \A s \in Sweepers : WF_agentVars(Sweeping(s))
  /\ \A c \in Consumers :
       /\ WF_agentVars(Consuming(c))
       /\ SF_agentVars(Consuming(c) /\ cpc[c] = "posting" /\ cpc'[c] = "waiting")

FairAgentSpec == AgentSpec /\ Fairness

----------------------------------------------------------------------------
HistoryTypeOK ==
  /\ opened \subseteq Incident
  /\ reopened \subseteq opened

(* Every variable holds a value the code can give it.                       *)
AgentTypeOK == TypeOK /\ SweeperTypeOK /\ NotifierTypeOK /\ HistoryTypeOK

Told(kind, i) == \E t \in told : t.kind = kind /\ t.incident = i

(* A notification that was queued is told or on its way: taken off the      *)
(* queue, it is put back or it has reached the server.                      *)
NoNotificationLost ==
  \A n \in queued :
    \/ Told(n.kind, n.incident)
    \/ \E m \in pending : m.kind = n.kind /\ m.incident = n.incident
    \/ \E c \in Consumers :
         held[c] # None /\ held[c].kind = n.kind /\ held[c].incident = n.incident

(* The queue and its consumers are an outbox.  What is in it is what is     *)
(* pending and what a consumer has in hand; only a failing call of Redis, a  *)
(* crash, and an error status that is taken for success can lose any of it. *)
Abstractly(n) == [kind |-> n.kind, incident |-> n.incident]

Outstanding ==
  {Abstractly(n) : n \in pending \cup {held[c] : c \in {k \in Consumers : held[k] # None}}}

Box == INSTANCE Outbox WITH
  Notification <- [kind : {"new", "resolved"}, incident : Incident],
  Lossy <- Fallible \/ BadStatus \in PostReply,
  box <- Outstanding,
  delivered <- {Abstractly(t) : t \in told}

(* Every step of the goroutines puts a notification in the outbox, delivers *)
(* one that is in it, or leaves it as it is: a notification is taken out of *)
(* the queue and out of the consumer's hands only when it was delivered,    *)
(* and none is delivered that was not put.                                  *)
ImplementsOutbox == Box!OutboxSpec

(* The server hears of an incident before it hears that it is resolved: a   *)
(* notification that could not be sent keeps its place in the queue.  Only  *)
(* that of an incident that was opened twice may be overtaken by the first  *)
(* resolution: announcing it again gives the announcement that is still in  *)
(* the queue a later score, and it is still to come.                        *)
ToldInOrder ==
  \A i \in Incident : Told("resolved", i) =>
    Told("new", i) \/ (i \in reopened /\ [kind |-> "new", incident |-> i] \in Outstanding)

(* A resolution is posted with the state RESOLVED, unless the incident was  *)
(* opened twice: the state is read when the notification is sent, long      *)
(* after it was queued, and by then the affected pods may be those of the   *)
(* next failure.                                                            *)
ResolvedSaysResolved ==
  \A t \in told : t.kind = "resolved" /\ t.state = "ONGOING" => t.incident \in reopened

(* What a consumer took off the queue is about an incident that exists, so  *)
(* it is never given up as one for a "non-existent incident".               *)
HeldHaveEvents ==
  \A c \in Consumers : held[c] # None => IncidentExists(held[c].incident)

(* The consumer never indexes an empty answer: with one of it, what EXISTS  *)
(* saw is still there for ZPOPMIN.                                          *)
ConsumerNeverPanics ==
  \A c \in Consumers : cpc[c] # "panic"

(* Whatever the goroutines interleave, a queued notification reaches the    *)
(* server in the end.                                                       *)
QueuedIsTold ==
  \A kind \in {"new", "resolved"} : \A i \in Incident :
    [kind |-> kind, incident |-> i] \in queued ~> Told(kind, i)

(* An active incident does not stay so when all its affected pods are gone  *)
(* for good: no reconcile will ever resolve them, the sweep has to.         *)
AbandonedIsClosed ==
  \A i \in Incident :
    active[i.release] = i /\ pods[i] # {} /\ pods[i] \subseteq deleted
      ~> \/ active[i.release] # i
         \/ \E p \in pods[i] : p \notin deleted

----------------------------------------------------------------------------
(* What the code's comments promise, and the code does not do.              *)

(* "all pods are now healthy, delete the active incident"                   *)
(* (pkg/redis/client.go:300): the key of an active incident goes only when  *)
(* that incident has no affected pods.                                      *)
OnlyHealthyIncidentsClose ==
  [][\A r \in Release :
       active[r] # None /\ active'[r] = None => pods[active[r]] = {}]_agentVars

=============================================================================
