------------------------------ MODULE Sweeper ------------------------------
(***************************************************************************)
(* ProcessDeletedPods (controllers/process_deleted_pods.go), which main.go *)
(* calls every five minutes in a goroutine of its own: the pods of active  *)
(* incidents that are gone from the cluster are set resolved.  It runs in  *)
(* every agent, elected or not, and beside the reconciler; each of the     *)
(* three reads it acts on can be stale when it does.                       *)
(***************************************************************************)
EXTENDS IncidentStore

CONSTANT Sweepers  \* the goroutines that sweep

ASSUME SweeperAssumption == Sweepers \subseteq Goroutine

VARIABLES
  unread,    \* releases whose active_incident key KEYS listed, not read yet
  ids,       \* incidentIDs read from those keys, whose pods are not listed yet
  suspects   \* [incident, pod]: affected pods listed, not looked up yet

sweepVars == <<unread, ids, suspects>>

Suspect == [incident : Incident, pod : Pod]

SweeperInit ==
  /\ unread = [s \in Sweepers |-> {}]
  /\ ids = [s \in Sweepers |-> {}]
  /\ suspects = [s \in Sweepers |-> {}]

(* GetAllActiveIncidents: the KEYS command. *)
StartSweep(s) ==
  /\ pc[s] = "idle"
  /\ unread[s] = {} /\ ids[s] = {} /\ suspects[s] = {}
  /\ \E r \in Release : active[r] # None
  /\ unread' = [unread EXCEPT ![s] = {r \in Release : active[r] # None}]
  /\ UNCHANGED <<ids, suspects, storeVars>>

\* Mutant: the error of a GET is not looked at.
ReadPointerUnchecked(s) ==
  \E r \in unread[s] :
    /\ unread' = [unread EXCEPT ![s] = @ \ {r}]
    /\ ids' = [ids EXCEPT ![s] = @ \cup {active[r]}]
    /\ UNCHANGED <<suspects, storeVars>>

(* GetAllActiveIncidents: a GET; a key that is gone by now is skipped. *)
ReadPointer(s) ==
  \E r \in unread[s] :
    /\ unread' = [unread EXCEPT ![s] = @ \ {r}]
    /\ ids' = [ids EXCEPT ![s] = @ \cup ({active[r]} \ {None})]
    /\ UNCHANGED <<suspects, storeVars>>

(* GetPodsForIncident for the next incident, once the last one's are done. *)
ListPods(s) ==
  /\ pc[s] = "idle"
  /\ unread[s] = {} /\ suspects[s] = {}
  /\ \E i \in ids[s] :
       /\ ids' = [ids EXCEPT ![s] = @ \ {i}]
       /\ suspects' = [suspects EXCEPT ![s] = {[incident |-> i, pod |-> p] : p \in pods[i]}]
  /\ UNCHANGED <<unread, storeVars>>

\* Mutant: the pods that are found are resolved.
CheckPodInverted(s) ==
  /\ pc[s] = "idle"
  /\ \E t \in suspects[s] :
       /\ suspects' = [suspects EXCEPT ![s] = @ \ {t}]
       /\ IF t.pod \notin deleted
            THEN Call(s, "podResolved", t.incident, t.pod)
            ELSE UNCHANGED frameVars
  /\ UNCHANGED <<unread, ids, dataVars, queueVars>>

(* Look a pod up, and resolve it when the API server does not find it. *)
CheckPod(s) ==
  /\ pc[s] = "idle"
  /\ \E t \in suspects[s] :
       /\ suspects' = [suspects EXCEPT ![s] = @ \ {t}]
       /\ IF t.pod \in deleted
            THEN Call(s, "podResolved", t.incident, t.pod)
            ELSE UNCHANGED frameVars
  /\ UNCHANGED <<unread, ids, dataVars, queueVars>>

(* A read answers with an error: only what it would have found is passed over. *)
ReadFails(s) ==
  /\ Fallible
  /\ pc[s] = "idle"
  /\ \/ /\ \E r \in unread[s] : unread' = [unread EXCEPT ![s] = @ \ {r}]
        /\ UNCHANGED <<ids, suspects>>
     \/ /\ unread[s] = {} /\ suspects[s] = {}
        /\ \E i \in ids[s] : ids' = [ids EXCEPT ![s] = @ \ {i}]
        /\ UNCHANGED <<unread, suspects>>
     \/ /\ \E t \in suspects[s] : suspects' = [suspects EXCEPT ![s] = @ \ {t}]
        /\ UNCHANGED <<unread, ids>>
  /\ UNCHANGED storeVars

(* The context's minute is over, or the agent crashes: the rest is dropped. *)
AbortSweep(s) ==
  /\ Fallible
  /\ unread[s] # {} \/ ids[s] # {} \/ suspects[s] # {}
  /\ unread' = [unread EXCEPT ![s] = {}]
  /\ ids' = [ids EXCEPT ![s] = {}]
  /\ suspects' = [suspects EXCEPT ![s] = {}]
  /\ Return(s)
  /\ UNCHANGED <<dataVars, queueVars>>

SweepStep(s) ==
  \/ StartSweep(s)
  \/ ReadPointer(s)
  \/ ListPods(s)
  \/ CheckPod(s)
  \/ (ResolveStep(s) \/ CallFails(s)) /\ UNCHANGED sweepVars
  \/ ReadFails(s)
  \/ AbortSweep(s)

----------------------------------------------------------------------------
(* A sweep holds releases, incidents and pods it has read from the store.   *)
SweeperTypeOK ==
  /\ unread \in [Sweepers -> SUBSET Release]
  /\ ids \in [Sweepers -> SUBSET Incident]
  /\ suspects \in [Sweepers -> SUBSET Suspect]

=============================================================================
