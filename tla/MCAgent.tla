------------------------------ MODULE MCAgent ------------------------------
(* Instances of Agent for TLC: one release, all of whose pods it owns.       *)
EXTENDS Agent, TLC

CONSTANT r1

Pods == Permutations(Pod)

Messages == Permutations(Message)

(* Without a sweep, a deleted pod is only one Reconcile is not called for:    *)
(* without deletions the worker can do all it can do with them, and more.   *)
PodsStay == deleted = {}

OneRelease == [p \in Pod |-> r1]
=============================================================================
