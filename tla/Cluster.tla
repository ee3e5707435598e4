------------------------------ MODULE Cluster ------------------------------
(***************************************************************************)
(* The world the agent watches: the wall clock and the pods of the         *)
(* Kubernetes cluster.  None of it is the agent's code; it is modelled     *)
(* from how the agent uses it.                                             *)
(***************************************************************************)
EXTENDS Naturals

CONSTANTS
  Release,    \* (release name, namespace) pairs; incidents are kept per pair
  Pod,        \* names of the pods that Reconcile does not filter out at once
  ReleaseOf,  \* the release a pod's app.kubernetes.io/instance label names
  Named,      \* pods that come back under the same name (StatefulSets)
  MaxTime     \* bound: the last second of the clock

ASSUME ClusterAssumption ==
  /\ ReleaseOf \in [Pod -> Release]
  /\ Named \subseteq Pod
  /\ MaxTime \in Nat

Time == 0 .. MaxTime

VARIABLES
  now,        \* time.Now().Unix()
  deleted     \* pods the API server answers NotFound for

clusterVars == <<now, deleted>>

ClusterTypeOK ==
  /\ now \in Time
  /\ deleted \subseteq Pod

ClusterInit ==
  /\ now = 0
  /\ deleted = {}

(* Every stored time is in seconds, so two calls can see the same second. *)
Tick ==
  /\ now < MaxTime
  /\ now' = now + 1
  /\ UNCHANGED deleted

DeletePod(p) ==
  /\ p \notin deleted
  /\ deleted' = deleted \cup {p}
  /\ UNCHANGED now

RecreatePod(p) ==
  /\ p \in deleted \cap Named
  /\ deleted' = deleted \ {p}
  /\ UNCHANGED now

ClusterStep ==
  \/ Tick
  \/ \E p \in Pod : DeletePod(p)
  \/ \E p \in Pod : RecreatePod(p)
=============================================================================
