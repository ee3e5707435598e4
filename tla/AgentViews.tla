----------------------------- MODULE AgentViews -----------------------------
(***************************************************************************)
(* Agent with its HTTP server, which main.go starts in every agent process *)
(* beside the other goroutines.                                            *)
(***************************************************************************)
EXTENDS Agent, IncidentViews

AgentViewsInit == AgentInit /\ ViewsInit

Serving(v) ==
  /\ ViewStep(v)
  /\ UNCHANGED agentVars

AgentViewsNext ==
  \/ AgentNext /\ UNCHANGED viewVars
  \/ \E v \in Readers : Serving(v)

AgentViewsSpec == AgentViewsInit /\ [][AgentViewsNext]_<<agentVars, viewVars>>

(* Every variable, the requests' too, holds a value the code can give it.   *)
AgentViewsTypeOK == AgentTypeOK /\ ViewsTypeOK

=============================================================================
