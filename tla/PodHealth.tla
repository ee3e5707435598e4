----------------------------- MODULE PodHealth -----------------------------
(***************************************************************************)
(* Reconciler with a history variable: what the filter last said of a pod. *)
(***************************************************************************)
EXTENDS Reconciler

VARIABLE failing  \* the pods whose last reconcile found them failing

Observe ==
  failing' = IF ~at("idle") THEN failing
             ELSE CASE pc'[Worker] = "failing" -> failing \cup {pod'[Worker]}
                    [] pc'[Worker] = "healthy" -> failing \ {pod'[Worker]}
                    [] OTHER -> failing

HealthInit == Init /\ failing = {}

HealthSpec == HealthInit /\ [][Next /\ Observe]_<<vars, failing>>

(* "all pods are now healthy, delete the active incident"                   *)
(* (pkg/redis/client.go:300): SetPodResolved finds no affected pod left     *)
(* only when no pod of the release was failing when last reconciled, but    *)
(* for pods that are gone.                                                  *)
AllPodsHealthyOnClose ==
  [][CheckPods(Worker) /\ pods[mine] = {}
       => \A p \in failing \ deleted : ReleaseOf[p] # mine.release]_<<vars, failing>>

=============================================================================
