-------------------------- MODULE PodTriageProofs --------------------------
(***************************************************************************)
(* Proofs about PodTriage, for any containers, endings, events and grace.  *)
(***************************************************************************)
EXTENDS PodTriage, WellFoundedInduction, TLAPS

(* Moments are bounded, so a set of them has a last one, which Max picks.   *)
LEMMA MaxIsLast ==
  ASSUME NEW S, S \subseteq Moment, S # {}
  PROVE  Max(S) \in S /\ \A x \in S : Max(S) >= x
<1> USE TriageAssumption DEF Moment
<1> DEFINE T == {n \in Nat : Horizon - n \in S}
<1>1. \A x \in S : Horizon - x \in Nat /\ Horizon - (Horizon - x) = x
  OBVIOUS
<1>2. T \subseteq Nat /\ T # {}
  BY <1>1
<1> HIDE DEF T
<1>3. OpToRel(<, Nat) = {ss \in Nat \X Nat : ss[1] < ss[2]}
  BY DEF OpToRel
<1>4. PICK t \in T : \A u \in T : ~(<<u, t>> \in OpToRel(<, Nat))
  BY <1>2, NatLessThanWellFounded, WFMin
<1>5. \A u \in T : t <= u
  <2> SUFFICES ASSUME NEW u \in T, u < t
               PROVE  FALSE
    BY <1>2
  <2>1. <<u, t>> \in Nat \X Nat
    BY <1>2
  <2>2. <<u, t>> \in OpToRel(<, Nat)
    BY <2>1, <1>3
  <2> QED
    BY <2>2, <1>4
<1>6. Horizon - t \in S
  BY DEF T
<1>7. \A x \in S : Horizon - t >= x
  <2> TAKE x \in S
  <2>1. Horizon - x \in T
    BY <1>1 DEF T
  <2>2. t <= Horizon - x /\ t \in Nat
    BY <2>1, <1>2, <1>5
  <2> QED
    BY <2>2
<1> QED
  BY <1>6, <1>7 DEF Max

----------------------------------------------------------------------------
(* One step of a container that Now describes keeps the types.              *)
LEMMA NowTypeOK ==
  ASSUME TriageTypeOK, UNCHANGED jobPod, failedAt' \in Moment \cup {Never},
         NEW c \in Containers, NEW k \in Kind, NEW r \in WaitReason, NEW t \in Moment,
         NEW e \in SUBSET Ending, k = "terminated" <=> e # {},
         Now(c, k, r, t, e), last' \in [Containers -> SUBSET Ending]
  PROVE  TriageTypeOK'
  BY DEF TriageTypeOK, Now

(* Only the clock itself moves the clock.                                   *)
LEMMA WorldKeepsTime ==
  ASSUME World, ~TimePasses
  PROVE  moment' = moment
<1>1. ASSUME NEW c \in Containers, FailToPull(c) \/ RetryPull(c) \/ StartContainer(c)
      PROVE  moment' = moment
  BY <1>1 DEF FailToPull, RetryPull, StartContainer, Wait, Now
<1>2. ASSUME NEW c \in Containers, EndContainer(c) \/ BackOffContainer(c) \/ RecordEvent(c)
      PROVE  moment' = moment
  BY <1>2 DEF EndContainer, BackOffContainer, RecordEvent, Now
<1> QED
  BY <1>1, <1>2 DEF World, PreparePod, ReplacePod

LEMMA MomentTypeOK ==
  ASSUME TriageTypeOK, World
  PROVE  moment' \in Moment /\ moment \in Nat /\ moment' \in Nat /\ moment <= moment'
<1>1. CASE TimePasses
  BY <1>1, TriageAssumption DEF TimePasses, TriageTypeOK, Moment
<1>2. CASE ~TimePasses
  BY <1>2, WorldKeepsTime, TriageAssumption DEF TriageTypeOK, Moment
<1> QED
  BY <1>1, <1>2

LEMMA TriageNextTypeOK ==
  ASSUME TriageTypeOK, TriageNext
  PROVE  TriageTypeOK'
<1> USE TriageAssumption
<1>1. moment' \in Moment
  BY MomentTypeOK DEF TriageNext
<1>2. UNCHANGED jobPod /\ failedAt' \in Moment \cup {Never}
  BY <1>1 DEF TriageTypeOK, TriageNext
<1>3. 0 \in Moment /\ moment \in Moment
  BY DEF TriageTypeOK, Moment
<1> DEFINE Kinds == {"waiting", "running", "terminated"}
<1>4. /\ Kinds \subseteq Kind /\ {} \in SUBSET Ending
       /\ PullReason \cup {"", "CrashLoopBackOff"} \subseteq WaitReason
  BY DEF Kind, WaitReason
<1>5. CASE PreparePod
  <2>1. \A c \in Containers : ending[c] = {}
    BY <1>5 DEF PreparePod, TriageTypeOK
  <2> QED
    BY <1>2, <1>5, <2>1 DEF PreparePod, TriageTypeOK, Kind, WaitReason
<1>6. ASSUME NEW c \in Containers, FailToPull(c) \/ RetryPull(c)
      PROVE  TriageTypeOK'
  <2>1. PICK r \in PullReason : Wait(c, r)
    BY <1>6 DEF FailToPull, RetryPull, PullReason
  <2>2. last' \in [Containers -> SUBSET Ending]
    BY <2>1 DEF Wait, TriageTypeOK
  <2> QED
    BY <1>2, <1>3, <1>4, <2>1, <2>2, NowTypeOK DEF Wait
<1>7. ASSUME NEW c \in Containers, StartContainer(c)
      PROVE  TriageTypeOK'
  <2>1. last' \in [Containers -> SUBSET Ending]
    BY <1>7 DEF StartContainer, TriageTypeOK
  <2>2. Now(c, "running", "", moment, {})
    BY <1>7 DEF StartContainer
  <2> QED
    BY <1>2, <1>3, <1>4, <2>1, <2>2, NowTypeOK
<1>8. ASSUME NEW c \in Containers, EndContainer(c)
      PROVE  TriageTypeOK'
  <2>1. PICK e \in Ending : Now(c, "terminated", "", 0, {e})
    BY <1>8 DEF EndContainer
  <2>2. last' \in [Containers -> SUBSET Ending]
    BY <1>8 DEF EndContainer, TriageTypeOK
  <2>3. {e} \in SUBSET Ending /\ {e} # {}
    OBVIOUS
  <2> QED
    BY <1>2, <1>3, <1>4, <2>1, <2>2, <2>3, NowTypeOK
<1>9. ASSUME NEW c \in Containers, BackOffContainer(c)
      PROVE  TriageTypeOK'
  <2>1. last' \in [Containers -> SUBSET Ending]
    BY <1>9 DEF BackOffContainer, TriageTypeOK
  <2>2. Now(c, "waiting", "CrashLoopBackOff", 0, {})
    BY <1>9 DEF BackOffContainer
  <2> QED
    BY <1>2, <1>3, <1>4, <2>1, <2>2, NowTypeOK
<1>10. ASSUME NEW c \in Containers, RecordEvent(c)
      PROVE  TriageTypeOK'
  BY <1>2, <1>10 DEF RecordEvent, TriageTypeOK
<1>11. CASE ReplacePod
  BY <1>2, <1>11 DEF ReplacePod, podVars, TriageTypeOK
<1>12. CASE TimePasses
  BY <1>1, <1>2, <1>12 DEF TimePasses, podVars, TriageTypeOK
<1> QED
  BY <1>5, <1>6, <1>7, <1>8, <1>9, <1>10, <1>11, <1>12 DEF TriageNext, World

----------------------------------------------------------------------------
(* A pod is set resolved ten minutes after its last failure.  Inductively:  *)
(* a container that was reported at failedAt has not run since, or was      *)
(* started after it; and the containers' statuses appear together, so none  *)
(* is missing when the running ones are looked at.                          *)

NotRunSince ==
  /\ failedAt <= moment
  /\ failedAt # Never =>
       \E c \in Containers : kind[c] = "running" => startedAt[c] >= failedAt

AppearTogether ==
  \/ \A c \in Containers : kind[c] = "absent"
  \/ \A c \in Containers : kind[c] # "absent"

HealthInv == TriageTypeOK /\ NotRunSince /\ AppearTogether

LEMMA TriageInitHealth ==
  ASSUME TriageInit
  PROVE  HealthInv
<1> USE TriageAssumption
<1>1. TriageTypeOK
  <2>1. replaced \in BOOLEAN /\ jobPod \in BOOLEAN
    BY DEF TriageInit
  <2>2. "absent" \in Kind /\ "" \in WaitReason /\ 0 \in Moment
    BY DEF Kind, WaitReason, Moment
  <2> QED
    BY <2>1, <2>2 DEF TriageInit, TriageTypeOK
<1>2. NotRunSince /\ AppearTogether
  <2>1. Never <= 0
    BY DEF Never
  <2> QED
    BY <2>1 DEF TriageInit, NotRunSince, AppearTogether
<1> QED
  BY <1>1, <1>2 DEF HealthInv

(* A container that starts does so now; all others stay as they were, or    *)
(* stop running.                                                            *)
LEMMA StartsAreNow ==
  ASSUME TriageTypeOK, World, NEW c \in Containers, kind'[c] = "running"
  PROVE  \/ startedAt'[c] = moment
         \/ kind[c] = "running" /\ startedAt'[c] = startedAt[c]
  BY DEF TriageTypeOK, World, PreparePod, FailToPull, RetryPull, StartContainer, EndContainer,
         BackOffContainer, RecordEvent, ReplacePod, TimePasses, Wait, Now, podVars

LEMMA TriageNextHealth ==
  ASSUME HealthInv, [TriageNext]_triageVars
  PROVE  HealthInv'
<1> USE TriageAssumption
<1>1. CASE UNCHANGED triageVars
  <2>1. UNCHANGED <<moment, kind, reason, startedAt, ending, last, recorded, replaced, jobPod, failedAt>>
    BY <1>1 DEF triageVars, podVars
  <2> QED
    BY <2>1 DEF HealthInv, TriageTypeOK, NotRunSince, AppearTogether
<1>2. CASE TriageNext
  <2>1. TriageTypeOK /\ TriageTypeOK'
    BY <1>2, TriageNextTypeOK DEF HealthInv
  <2>2. moment \in Nat /\ moment' \in Nat /\ moment <= moment' /\ failedAt \in Int
    BY <1>2, <2>1, MomentTypeOK DEF TriageNext, TriageTypeOK, Moment, Never
  <2>3. AppearTogether'
    <3>1. \A c \in Containers : kind[c] # "absent" => kind'[c] # "absent"
      BY <1>2, <2>1 DEF TriageTypeOK, TriageNext, World, PreparePod, FailToPull, RetryPull,
             StartContainer, EndContainer, BackOffContainer, RecordEvent, ReplacePod, TimePasses, Wait, Now,
             podVars
    <3>2. CASE \A c \in Containers : kind[c] # "absent"
      BY <3>1, <3>2 DEF AppearTogether
    <3>3. CASE \A c \in Containers : kind[c] = "absent"
      BY <1>2, <3>3 DEF AppearTogether, TriageNext, World, PreparePod, FailToPull, RetryPull,
             StartContainer, EndContainer, BackOffContainer, RecordEvent, ReplacePod, TimePasses, waits,
             podVars
    <3> QED
      BY <3>2, <3>3 DEF HealthInv, AppearTogether
  <2>4. NotRunSince'
    <3>1. CASE Failing'
      <4>1. failedAt' = moment'
        BY <1>2, <3>1 DEF TriageNext
      <4>2. \E c \in Containers : kind'[c] # "running"
        <5>1. PICK c \in Containers : Answer'[c] # {}
          BY <3>1 DEF Failing
        <5>2. Report(c)' # {}
          BY <5>1 DEF Answer
        <5> QED
          BY <5>2 DEF Report
      <4> QED
        BY <2>2, <4>1, <4>2 DEF NotRunSince
    <3>2. CASE ~Failing'
      <4>1. failedAt' = failedAt /\ failedAt <= moment'
        BY <1>2, <2>2, <3>2 DEF TriageNext, HealthInv, NotRunSince
      <4>2. ASSUME failedAt # Never
            PROVE  \E c \in Containers : kind'[c] = "running" => startedAt'[c] >= failedAt
        <5>1. PICK c \in Containers : kind[c] = "running" => startedAt[c] >= failedAt
          BY <4>2 DEF HealthInv, NotRunSince
        <5>2. ASSUME kind'[c] = "running"
              PROVE  startedAt'[c] >= failedAt
          BY <1>2, <2>1, <2>2, <5>1, <5>2, StartsAreNow DEF TriageNext, HealthInv, NotRunSince
        <5> QED
          BY <5>2
      <4> QED
        BY <4>1, <4>2 DEF NotRunSince
    <3> QED
      BY <3>1, <3>2
  <2> QED
    BY <2>1, <2>3, <2>4 DEF HealthInv
<1> QED
  BY <1>1, <1>2

LEMMA HealthInvResolves ==
  ASSUME HealthInv, SetsPodResolved
  PROVE  moment > failedAt + Grace
<1> USE TriageAssumption
<1>1. moment \in Nat /\ failedAt \in Int /\ \A c \in Containers : startedAt[c] \in Moment
  BY DEF HealthInv, TriageTypeOK, Moment, Never
<1>2. CASE failedAt = Never
  BY <1>1, <1>2 DEF Never
<1>3. CASE failedAt # Never
  <2> DEFINE Starts == {startedAt[c] : c \in RunningContainers}
  <2>1. PICK c \in Containers : kind[c] = "running" => startedAt[c] >= failedAt
    BY <1>3 DEF HealthInv, NotRunSince
  <2>2. kind[c] = "running"
    BY DEF SetsPodResolved, AllRunning, RunningContainers, HealthInv, AppearTogether
  <2>3. startedAt[c] \in Starts /\ Starts \subseteq Moment
    BY <1>1, <2>2 DEF RunningContainers
  <2>4. Max(Starts) \in Moment /\ Max(Starts) >= startedAt[c]
    BY <2>3, MaxIsLast
  <2>5. moment > Max(Starts) + Grace
    BY DEF SetsPodResolved, GetLatestRunningStartedAt
  <2> QED
    BY <1>1, <2>1, <2>2, <2>4, <2>5 DEF Moment
<1> QED
  BY <1>2, <1>3

(* Reconcile sets a pod resolved (pod_controller.go:177-180) only ten       *)
(* minutes after any of its containers was last reported, whichever of them *)
(* fail, restart or are passed over meanwhile.                              *)
THEOREM AlwaysResolvesHealthy == TriageSpec => []ResolvesOnlyHealthy
<1>1. TriageInit => HealthInv
  BY TriageInitHealth
<1>2. HealthInv /\ [TriageNext]_triageVars => HealthInv'
  BY TriageNextHealth
<1>3. HealthInv => ResolvesOnlyHealthy
  BY HealthInvResolves DEF ResolvesOnlyHealthy
<1> QED
  BY <1>1, <1>2, <1>3, PTL DEF TriageSpec

----------------------------------------------------------------------------
(* What the kubelet does about a failure.                                   *)

LEMMA SamePassedOver ==
  ASSUME NEW c \in Containers, ~PassedOver(c), UNCHANGED <<recorded, replaced, jobPod>>,
         ending'[c] \cup last'[c] \subseteq ending[c] \cup last[c]
  PROVE  ~PassedOver(c)'
  BY DEF PassedOver

(* The two branches of the filter say the same of an ending with a reason.  *)
LEMMA BranchesAgree ==
  ASSUME NEW c \in Containers, NEW e, e.reason # "", UNCHANGED recorded
  PROVE  BackedOffReport(c, e)' = TerminatedReport(c, e)
<1>1. KillMessages(c)' = KillMessages(c)
  BY DEF KillMessages
<1> HIDE DEF KillMessages
<1> QED
  BY <1>1 DEF BackedOffReport, TerminatedReport, Says, Words

LEMMA RetryIsNotNews ==
  ASSUME TriageTypeOK, NEW c \in Containers, RetryPull(c), UNCHANGED jobPod, Answer[c] # {}
  PROVE  Answer'[c] = Answer[c]
<1>1. /\ kind[c] = "waiting" /\ kind'[c] = "waiting"
      /\ reason[c] \in PullReason /\ reason'[c] \in PullReason
      /\ ending'[c] = {} /\ UNCHANGED <<last, recorded, replaced>>
  BY DEF TriageTypeOK, RetryPull, Wait, Now, waits, PullReason
<1>2. ~PassedOver(c) /\ Answer[c] = Report(c)
  BY DEF Answer
<1>3. ~PassedOver(c)'
  BY <1>1, <1>2, SamePassedOver
<1>4. Report(c) = PullReport(c) /\ Report(c)' = PullReport(c)'
  BY <1>1 DEF Report, WaitReport, PullReason
<1>5. PullReport(c)' = PullReport(c)
  BY DEF PullReport, Says, Words
<1> QED
  BY <1>2, <1>3, <1>4, <1>5 DEF Answer

LEMMA BackOffIsNotNews ==
  ASSUME TriageTypeOK, NEW c \in Containers, BackOffContainer(c), UNCHANGED jobPod, Answer[c] # {},
         \A e \in ending[c] : e.reason # ""
  PROVE  Answer'[c] = Answer[c]
<1>1. /\ kind[c] = "terminated" /\ kind'[c] = "waiting" /\ reason'[c] = "CrashLoopBackOff"
      /\ ending'[c] = {} /\ last'[c] = ending[c] /\ UNCHANGED <<recorded, replaced>>
  BY DEF TriageTypeOK, BackOffContainer, Now
<1>2. ~PassedOver(c) /\ Answer[c] = Report(c)
  BY DEF Answer
<1>3. ~PassedOver(c)'
  BY <1>1, <1>2, SamePassedOver
<1>4. Report(c) = UNION {TerminatedReport(c, e) : e \in ending[c]}
  BY <1>1 DEF Report
<1>5. Report(c)' = UNION {BackedOffReport(c, e)' : e \in last'[c]}
  BY <1>1 DEF Report, WaitReport, PullReason
<1>6. Report(c)' = Report(c)
  BY <1>1, <1>4, <1>5, BranchesAgree
<1> QED
  BY <1>2, <1>3, <1>6 DEF Answer

(* A container that was reported goes on being reported in the same words   *)
(* when the kubelet backs off from it or retries its image, so the          *)
(* reconciler takes what follows for the duplicate it is                    *)
(* (pod_controller.go:288): for any containers, endings and events.         *)
THEOREM RetriesAreNeverNews == TriageSpec => RetriesAreNotNews
<1>1. TriageInit => HealthInv
  BY TriageInitHealth
<1>2. HealthInv /\ [TriageNext]_triageVars => HealthInv'
  BY TriageNextHealth
<1>3. HealthInv /\ [TriageNext]_triageVars =>
        [\A c \in Containers :
           /\ RetryPull(c) \/ BackOffContainer(c)
           /\ Answer[c] # {}
           /\ \A e \in ending[c] : e.reason # ""
           => Answer'[c] = Answer[c]]_triageVars
  BY RetryIsNotNews, BackOffIsNotNews DEF HealthInv, TriageNext
<1> QED
  BY <1>1, <1>2, <1>3, PTL DEF TriageSpec, RetriesAreNotNews

=============================================================================
