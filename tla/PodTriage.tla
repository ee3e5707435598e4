----------------------------- MODULE PodTriage -----------------------------
(***************************************************************************)
(* What Reconcile makes of a pod before it looks at any incident: the      *)
(* filter (pkg/utils/filter.go), which reports the containers that fail,   *)
(* and the test by which a pod without a report is healthy again.  The pod *)
(* is one whose containers the kubelet starts, restarts and backs off      *)
(* from; what the kubelet does is external.                                *)
(***************************************************************************)
EXTENDS Integers, FiniteSetsExt

CONSTANTS
  Containers,   \* the pod's containers
  Sidecars,     \* those named "sidecar" or "cloud-sql-proxy"
  Ending,       \* how a container can end: reason, exit code and message
  KubeEvent,    \* reasons of the events that are recorded about containers
  Grace,        \* ten minutes
  Horizon       \* bound: the last moment of the clock

ASSUME TriageAssumption ==
  /\ Sidecars \subseteq Containers
  /\ \A e \in Ending : DOMAIN e = {"reason", "code", "message"}
  /\ KubeEvent \subseteq {"Killing", "Unhealthy", "ScaleDown"}
  /\ Grace \in Nat
  /\ Horizon \in Nat

Moment == 0 .. Horizon

VARIABLES
  moment,     \* time.Now()
  kind,       \* which of a container's states it is in, "absent" before the first
  reason,     \* what a waiting container waits for
  startedAt,  \* when a running container was started
  ending,     \* {how it ended} for a terminated one
  last,       \* LastTerminationState: {how it ended before}, if it did
  recorded,   \* reasons of the events recorded about it
  replaced,   \* whether the release has another pod
  jobPod      \* whether a Job owns the pod

(* History: the last moment at which the filter would have reported it.     *)
VARIABLE failedAt

podVars == <<kind, reason, startedAt, ending, last, recorded>>
triageVars == <<moment, podVars, replaced, jobPod, failedAt>>

Kind == {"absent", "waiting", "running", "terminated"}
PullReason == {"ErrImagePull", "ImagePullBackOff"}
WaitReason == PullReason \cup {"ContainerCreating", "CrashLoopBackOff", "InvalidImageName", ""}

Never == 0 - Grace - 1

TriageInit ==
  /\ moment = 0
  /\ kind = [c \in Containers |-> "absent"]
  /\ reason = [c \in Containers |-> ""]
  /\ startedAt = [c \in Containers |-> 0]
  /\ ending = [c \in Containers |-> {}]
  /\ last = [c \in Containers |-> {}]
  /\ recorded = [c \in Containers |-> {}]
  /\ replaced = FALSE
  /\ jobPod \in BOOLEAN
  /\ failedAt = Never

waits(c, r) == kind[c] = "waiting" /\ reason[c] = r

----------------------------------------------------------------------------
(* The kubelet and the API server.                                          *)

Now(c, k, r, t, e) ==
  /\ kind' = [kind EXCEPT ![c] = k]
  /\ reason' = [reason EXCEPT ![c] = r]
  /\ startedAt' = [startedAt EXCEPT ![c] = t]
  /\ ending' = [ending EXCEPT ![c] = e]
  /\ UNCHANGED <<moment, recorded, replaced>>

Wait(c, r) == Now(c, "waiting", r, 0, {}) /\ UNCHANGED last

\* The statuses of all containers appear at once.
PreparePod ==
  /\ \A c \in Containers : kind[c] = "absent"
  /\ kind' = [c \in Containers |-> "waiting"]
  /\ reason' \in [Containers -> {"ContainerCreating", "InvalidImageName"}]
  /\ UNCHANGED <<moment, startedAt, ending, last, recorded, replaced>>

FailToPull(c) == waits(c, "ContainerCreating") /\ Wait(c, "ErrImagePull")

\* The kubelet backs off from pulling an image, and tries again.
RetryPull(c) ==
  \/ waits(c, "ErrImagePull") /\ Wait(c, "ImagePullBackOff")
  \/ waits(c, "ImagePullBackOff") /\ Wait(c, "ErrImagePull")

StartContainer(c) ==
  /\ \/ kind[c] = "waiting" /\ reason[c] # "InvalidImageName" /\ UNCHANGED last
     \/ kind[c] = "terminated" /\ last' = [last EXCEPT ![c] = ending[c]]
  /\ Now(c, "running", "", moment, {})

EndContainer(c) ==
  /\ \E e \in Ending :
       /\ IF e.reason \in {"ContainerCannotRun", "StartError"}
            THEN kind[c] = "waiting" /\ reason[c] # "InvalidImageName"
            ELSE kind[c] = "running"
       /\ Now(c, "terminated", "", 0, {e})
  /\ UNCHANGED last

BackOffContainer(c) ==
  /\ kind[c] = "terminated"
  /\ last' = [last EXCEPT ![c] = ending[c]]
  /\ Now(c, "waiting", "CrashLoopBackOff", 0, {})

RecordEvent(c) ==
  /\ \E e \in KubeEvent \ recorded[c] : recorded' = [recorded EXCEPT ![c] = @ \cup {e}]
  /\ UNCHANGED <<moment, kind, reason, startedAt, ending, last, replaced>>

ReplacePod ==
  /\ replaced' = ~replaced
  /\ UNCHANGED <<moment, podVars>>

TimePasses ==
  /\ moment < Horizon
  /\ moment' = moment + 1
  /\ UNCHANGED <<podVars, replaced>>

----------------------------------------------------------------------------
(* Filter(pod, isJob).  A report has a summary and details; a text is a     *)
(* pair of what it says and the exit code in it.                            *)

Says(summary, details) == {[summary |-> summary, details |-> details]}
Words(words) == <<words, 0>>

(* getContainerEventForReasons(..., "Killing", "Unhealthy")                 *)
KillMessages(c) ==
  IF "Killing" \in recorded[c] THEN {Words("killing")}
  ELSE {Words("unhealthy") : e \in recorded[c] \cap {"Unhealthy"}}

(* What it says of a container that is backed off from, by its last ending, *)
(* and of one that has just ended: the code has the same branches twice,    *)
(* each over a field of its own.  A report without details is none.         *)

\* Mutant: why a container was killed is not looked for.
BackedOffReportUnexplained(c, e) ==
  CASE e.reason = "Error" -> Says(<<"exited", e.code>>, <<"exited", e.code>>)
    [] e.reason = "OOMKilled" -> Says(Words("too much memory"), Words("memory limit"))
    [] e.reason \in {"ContainerCannotRun", "StartError"} ->
         UNION {Says(Words("could not start"), Words(m)) : m \in {e.message} \ {""}}
    [] OTHER -> {}

\* Status.LastTerminationState.Terminated
BackedOffReport(c, e) ==
  LET killed == IF e.code = 137 THEN KillMessages(c) ELSE {}
      details == IF killed = {} THEN {<<"exited", e.code>>} ELSE killed
  IN
  CASE e.reason = "Error" -> UNION {Says(<<"exited", e.code>>, d) : d \in details}
    [] e.reason = "OOMKilled" -> Says(Words("too much memory"), Words("memory limit"))
    [] e.reason \in {"ContainerCannotRun", "StartError"} ->
         UNION {Says(Words("could not start"), Words(m)) : m \in {e.message} \ {""}}
    [] OTHER -> {}

\* Status.State.Terminated; only here is an ending without a reason reported.
TerminatedReport(c, e) ==
  LET killed == IF e.code = 137 THEN KillMessages(c) ELSE {}
      details == IF killed = {} THEN {<<"exited", e.code>>} ELSE killed
  IN
  CASE e.reason = "Error" -> UNION {Says(<<"exited", e.code>>, d) : d \in details}
    [] e.reason = "OOMKilled" -> Says(Words("too much memory"), Words("memory limit"))
    [] e.reason \in {"ContainerCannotRun", "StartError"} ->
         UNION {Says(Words("could not start"), Words(m)) : m \in {e.message} \ {""}}
    [] e.reason = "" -> Says(<<"exited", e.code>>, <<"exited", e.code>>)
    [] OTHER -> {}

PullReport(c) == Says(Words("could not pull"), Words("link the registry"))

WaitReport(c) ==
  CASE reason[c] = "CrashLoopBackOff" -> UNION {BackedOffReport(c, e) : e \in last[c]}
    [] reason[c] \in PullReason -> PullReport(c)
    [] reason[c] = "InvalidImageName" -> Says(Words("invalid image"), Words("invalid image"))
    [] OTHER -> {}

Report(c) ==
  CASE kind[c] = "waiting" -> WaitReport(c)
    [] kind[c] = "terminated" -> UNION {TerminatedReport(c, e) : e \in ending[c]}
    [] OTHER -> {}

(* The containers that are passed over: a job's sidecars, a node that is    *)
(* scaled down, and a lost node when another pod has taken over.            *)
PassedOver(c) ==
  \/ jobPod /\ c \in Sidecars
  \/ "ScaleDown" \in recorded[c]
  \/ replaced /\ \E e \in ending[c] \cup last[c] : e.code = 255

(* nil is the answer that reports no container. *)
Answer == [c \in Containers |-> IF PassedOver(c) THEN {} ELSE Report(c)]

Failing == \E c \in Containers : Answer[c] # {}

----------------------------------------------------------------------------
(* The end of Reconcile for a pod that is not failing and has an active     *)
(* incident, when it is not a job's (pod_controller.go:168-183).            *)

RunningContainers == {c \in Containers : kind[c] = "running"}

\* Mutant: the container that was started first counts.
EarliestRunningStartedAt == Min({startedAt[c] : c \in RunningContainers})

GetLatestRunningStartedAt == Max({startedAt[c] : c \in RunningContainers})

AllRunning == \A c \in Containers : kind[c] \in {"running", "absent"}

(* The pod is set resolved: the loop over no containers finds all running,  *)
(* and no latest start.                                                     *)
SetsPodResolved ==
  /\ ~Failing
  /\ ~jobPod
  /\ AllRunning
  /\ RunningContainers # {}
  /\ moment > GetLatestRunningStartedAt + Grace

----------------------------------------------------------------------------
World ==
  \/ PreparePod
  \/ \E c \in Containers :
       \/ FailToPull(c)
       \/ RetryPull(c)
       \/ StartContainer(c)
       \/ EndContainer(c)
       \/ BackOffContainer(c)
       \/ RecordEvent(c)
  \/ ReplacePod
  \/ TimePasses

TriageNext ==
  /\ World
  /\ UNCHANGED jobPod
  /\ failedAt' = IF Failing' THEN moment' ELSE failedAt

TriageSpec == TriageInit /\ [][TriageNext]_triageVars

----------------------------------------------------------------------------

(* The containers' states are ones the API has, with the fields each has.   *)
TriageTypeOK ==
  /\ moment \in Moment
  /\ kind \in [Containers -> Kind]
  /\ reason \in [Containers -> WaitReason]
  /\ startedAt \in [Containers -> Moment]
  /\ ending \in [Containers -> SUBSET Ending]
  /\ last \in [Containers -> SUBSET Ending]
  /\ \A c \in Containers : kind[c] = "terminated" <=> ending[c] # {}
  /\ recorded \in [Containers -> SUBSET KubeEvent]
  /\ replaced \in BOOLEAN /\ jobPod \in BOOLEAN
  /\ failedAt \in Moment \cup {Never}

(* What the kubelet does about a failure is not a new failure: a container   *)
(* that was reported goes on being reported in the same words when the      *)
(* kubelet backs off from it or from its image, so the next event is a      *)
(* duplicate of the last one.  One that ended without a reason is the       *)
(* exception: backed off from, it is not reported at all.                   *)
RetriesAreNotNews ==
  [][\A c \in Containers :
       /\ RetryPull(c) \/ BackOffContainer(c)
       /\ Answer[c] # {}
       /\ \A e \in ending[c] : e.reason # ""
       => Answer'[c] = Answer[c]]_triageVars

(* A pod is set resolved only ten minutes after the last moment any of its  *)
(* containers was reported as failing.                                      *)
ResolvesOnlyHealthy ==
  SetsPodResolved => moment > failedAt + Grace

=============================================================================
