---------------------------- MODULE MCPodHealth ----------------------------
(* Instances of PodHealth for TLC: one release, all of whose pods it owns.   *)
EXTENDS PodHealth

CONSTANT r1

OneRelease == [p \in Pod |-> r1]
=============================================================================
