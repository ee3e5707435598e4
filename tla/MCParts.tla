------------------------------- MODULE MCParts -------------------------------
(* Parts of the agent that share no state, one at a time: the HTTP server over *)
(* the worker's store, the triage of a pod, the agent's creation timestamp and *)
(* the pulsar.  The part that runs is chosen in the initial state.           *)
EXTENDS AgentViews, PodTriage, AgentTimestamp, Pulsar, TLC

CONSTANT r1

OneRelease == [p \in Pod |-> r1]

Ended(why, exitCode, text) == [reason |-> why, code |-> exitCode, message |-> text]

Endings == {
  Ended("Error", 1, ""), Ended("Error", 137, ""), Ended("Error", 255, ""),
  Ended("StartError", 128, "cannot run"), Ended("Completed", 0, ""), Ended("", 2, "")}

VARIABLE part

partsVars == <<part, agentVars, viewVars, triageVars, timestampVars, pulsarVars>>

PartsInit ==
  /\ part \in {"server", "triage", "timestamp", "pulsar"}
  /\ AgentViewsInit
  /\ TriageInit /\ (jobPod => part = "triage")
  /\ TimestampInit
  /\ PulsarInit

Serve ==
  /\ part = "server"
  /\ AgentViewsNext
  /\ UNCHANGED <<part, triageVars, timestampVars, pulsarVars>>

Triage ==
  /\ part = "triage"
  /\ TriageNext
  /\ UNCHANGED <<part, agentVars, viewVars, timestampVars, pulsarVars>>

Timestamp ==
  /\ part = "timestamp"
  /\ TimestampNext
  /\ UNCHANGED <<part, agentVars, viewVars, triageVars, pulsarVars>>

Pulse ==
  /\ part = "pulsar"
  /\ PulsarNext
  /\ UNCHANGED <<part, agentVars, viewVars, triageVars, timestampVars>>

PartsNext == Serve \/ Triage \/ Timestamp \/ Pulse

PartsSpec == PartsInit /\ [][PartsNext]_partsVars /\ PulsarFairness

(* The variables of every part hold values the code can give them. *)
PartsTypeOK == AgentViewsTypeOK /\ TriageTypeOK /\ TimestampTypeOK /\ PulsarTypeOK
=============================================================================
