---------------------------- MODULE MCReconciler ----------------------------
(* Instances of Reconciler for TLC: one release, all of whose pods it owns. *)
EXTENDS Reconciler, TLC

CONSTANT r1

Pods == Permutations(Pod)

(* A deleted pod is only one Reconcile is not called for any more: without    *)
(* deletions the worker can do all it can do with them, and more.           *)
PodsStay == deleted = {}

OneRelease == [p \in Pod |-> r1]
=============================================================================
