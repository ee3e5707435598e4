------------------------ MODULE IncidentStoreProofs ------------------------
(***************************************************************************)
(* What a goroutine's steps inside the client's methods preserve of the    *)
(* types of the store, for every goroutine and every value of the          *)
(* constants.  The proofs about the components cite these lemmas.          *)
(***************************************************************************)
EXTENDS IncidentStore, TLAPS

(* A method that returns leaves a well-typed frame.                         *)
LEMMA ReturnTypeOK ==
  ASSUME FrameTypeOK, NEW g \in Goroutine, Return(g)
  PROVE  FrameTypeOK'
  BY DEF FrameTypeOK, Return, Label, ResolveLabel, RecordLabel

(* A call of a method on an incident and a pod does.                        *)
LEMMA CallTypeOK ==
  ASSUME FrameTypeOK,
         NEW g \in Goroutine, NEW method \in ResolveLabel \cup RecordLabel,
         NEW i \in Incident, NEW p \in Pod,
         Call(g, method, i, p)
  PROVE  FrameTypeOK'
  BY DEF FrameTypeOK, Call, Label

(* Going on inside a method does.                                           *)
LEMMA GotoTypeOK ==
  ASSUME FrameTypeOK,
         NEW g \in Goroutine, NEW label \in ResolveLabel \cup RecordLabel,
         pc[g] \in ResolveLabel \cup RecordLabel,
         Goto(g, label)
  PROVE  FrameTypeOK'
  BY DEF FrameTypeOK, Goto, Label, ResolveLabel, RecordLabel

(* Replacing the set of affected pods keeps the data's types.               *)
LEMMA SetPodsTypeOK ==
  ASSUME DataTypeOK, NEW i \in Incident, NEW members \in SUBSET Pod,
         SetPods(i, members), UNCHANGED <<active, events, logs>>
  PROVE  DataTypeOK'
  BY DEF DataTypeOK, SetPods

(* Appending a notification keeps the queue's types.                        *)
LEMMA AppendTypeOK ==
  ASSUME QueueTypeOK, ClusterTypeOK, NEW kind \in {"new", "resolved"}, NEW i \in Incident,
         AppendToNotifyWorkQueue(kind, i)
  PROVE  QueueTypeOK'
  BY DEF QueueTypeOK, ClusterTypeOK, AppendToNotifyWorkQueue, ZAddPending, Notice

(* Every step of SetPodResolved and SetJobIncidentResolved keeps the types. *)
LEMMA ResolveTypeOK ==
  ASSUME ClusterTypeOK, StoreTypeOK, NEW g \in Goroutine, ResolveStep(g)
  PROVE  StoreTypeOK'
<1> USE DEF StoreTypeOK
<1>1. pc[g] \in ResolveLabel \cup RecordLabel
  BY DEF ResolveStep, SetPodResolved, RemovePod, CheckPods, SetJobIncidentResolved,
         DeletePods, DeleteActive, QueueResolved, ResolveLabel
<1>2. inc[g] \in Incident
  BY <1>1 DEF FrameTypeOK
<1>3. {"removePod", "checkPods", "deletePods", "deleteActive", "queueResolved"}
        \subseteq ResolveLabel \cup RecordLabel
  BY DEF ResolveLabel
<1>4. ASSUME UNCHANGED <<dataVars, queueVars>>
      PROVE  (DataTypeOK /\ QueueTypeOK)'
  BY <1>4 DEF DataTypeOK, QueueTypeOK, dataVars, queueVars
<1>5. CASE SetPodResolved(g)
  BY <1>1, <1>3, <1>4, <1>5, GotoTypeOK, ReturnTypeOK DEF SetPodResolved
<1>6. CASE RemovePod(g)
  <2>1. FrameTypeOK'
    BY <1>1, <1>3, <1>6, GotoTypeOK DEF RemovePod
  <2>2. DataTypeOK'
    <3>1. pods[inc[g]] \ {pod[g]} \in SUBSET Pod
      BY <1>2 DEF DataTypeOK
    <3> QED
      BY <1>2, <1>6, <3>1, SetPodsTypeOK DEF RemovePod
  <2>3. QueueTypeOK'
    BY <1>6 DEF RemovePod, queueVars, QueueTypeOK
  <2> QED
    BY <2>1, <2>2, <2>3
<1>7. CASE CheckPods(g)
  BY <1>1, <1>3, <1>4, <1>7, GotoTypeOK, ReturnTypeOK DEF CheckPods
<1>8. CASE SetJobIncidentResolved(g)
  BY <1>1, <1>3, <1>4, <1>8, GotoTypeOK, ReturnTypeOK DEF SetJobIncidentResolved
<1>9. CASE DeletePods(g)
  <2>1. FrameTypeOK'
    BY <1>1, <1>3, <1>9, GotoTypeOK DEF DeletePods
  <2>2. DataTypeOK'
    BY <1>2, <1>9, SetPodsTypeOK DEF DeletePods
  <2>3. QueueTypeOK'
    BY <1>9 DEF DeletePods, queueVars, QueueTypeOK
  <2> QED
    BY <2>1, <2>2, <2>3
<1>10. CASE DeleteActive(g)
  <2>1. FrameTypeOK'
    BY <1>1, <1>3, <1>10, GotoTypeOK DEF DeleteActive
  <2>2. DataTypeOK'
    BY <1>10 DEF DeleteActive, DataTypeOK
  <2>3. QueueTypeOK'
    BY <1>10 DEF DeleteActive, queueVars, QueueTypeOK
  <2> QED
    BY <2>1, <2>2, <2>3
<1>11. CASE QueueResolved(g)
  <2>1. FrameTypeOK'
    BY <1>11, ReturnTypeOK DEF QueueResolved
  <2>2. DataTypeOK'
    BY <1>11 DEF QueueResolved, dataVars, DataTypeOK
  <2>3. QueueTypeOK'
    BY <1>2, <1>11, AppendTypeOK DEF QueueResolved
  <2> QED
    BY <2>1, <2>2, <2>3
<1> QED
  BY <1>5, <1>6, <1>7, <1>8, <1>9, <1>10, <1>11 DEF ResolveStep
=============================================================================
