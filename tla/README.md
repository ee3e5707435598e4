# A TLA+ model of porter-agent

porter-agent watches the pods of a Kubernetes cluster, groups the failures of a
release into *incidents* kept in Redis, and tells the Porter server when an
incident begins and when it is resolved. The code (2400 lines of Go, no tests) is
small; what makes it hard is that three kinds of goroutines, in one or several
agent processes, change the same Redis keys without transactions or locks, that
every method is a sequence of commands any of which can fail, and that identity
and order are kept in whole seconds.

Paths below are relative to the repository, with `src/` in front in `PROJECT.json`.

## 1. Inventory

| Component | State | Operations | Talks to |
|---|---|---|---|
| **Incident store**, `pkg/redis/client.go` | Redis keys: `active_incident:<release>:<ns>`, the incident's sorted set of events, `pods:<incident>`, `logs:<incident>`, `log:...`, `pending`, `porter-agent-creation-timestamp`; expiries of two weeks | one method per query or update, each a sequence of commands | every other component calls it |
| **Pod reconciler**, `controllers/pod_controller.go` | locals of one call: `incidentID`, `newIncident`, `event` | `Reconcile` | pod events (controller-runtime, one worker, elected agent only); the filter; container logs; the store |
| **Deleted-pod sweep**, `controllers/process_deleted_pods.go` | locals of one call: incident IDs, pods | `ProcessDeletedPods`, every 5 minutes, at most a minute | the store; the API server |
| **Notification consumer**, `pkg/consumer`, `pkg/httpclient` | the notification in hand | `Start`: pop, look up, POST, requeue | the store's `pending`; the Porter server |
| **Pulsar**, `pkg/pulsar` | ticker, two channels | `Pulsate`, `Stop` | the consumer's loop |
| **Pod filter**, `pkg/utils/filter.go` | none | `Filter(pod, isJob)` | the API server's events and pods |
| **IDs and records**, `pkg/utils/incident.go`, `log.go`, `pkg/models` | none | formatting and parsing | the store, the HTTP server |
| **HTTP server**, `pkg/server` | none | four GETs | the store, read-only |
| **Agent**, `main.go` | which goroutines run | start-up | all of the above |

How they interact: the reconciler, the sweep and the HTTP server share nothing but
Redis; the reconciler and the sweep produce notifications into the sorted set
`pending`, and the consumer takes them off. Leader election (`main.go:68`, turned on
in `charts/porter-agent/templates/deployment.yaml:32`) covers the manager, that is
the reconciler; `main.go` starts the consumer, the HTTP server and the sweep
before `mgr.Start`, so *every* agent runs these, the leader or not.

What is hard about each, and what makes it correct:

* **Reconciler** - it creates the incident early and records it late, so an error
  in between must not lose what the retry no longer knows (`newIncident`). Correct:
  an incident that has affected pods is the active one of its release; every
  incident is announced, and its resolution; its keys expire; the cap holds.
* **Sweep** - it acts on three reads that may all be stale, beside the worker.
  Correct: it closes what nobody else can close, and nothing else.
* **Consumer** - the notification is in memory only between pop and requeue.
  Correct: nothing is lost, nothing is told before what it follows from,
  everything is told in the end.
* **Store** - a method is not atomic, a set that becomes empty is a deleted key and
  loses its expiry, an ID names a second. Its one key that is written once, the time
  the agent first ran, is tested and set in two commands. Correct: it is the same for
  every agent that was ever elected.
* **Filter** - it reports a container in one of several states the kubelet moves it
  through; the duplicate test compares its words. Correct: a pod counts as healthy
  only ten minutes after its last failure, and what the kubelet does about a failure
  is not a new one.
* **HTTP server** - an answer is put together from several reads, between which the
  other goroutines go on, and takes the ID of a page as it comes. Correct: it does not
  fail on what it found a read before, nor give an event for the latest that was made
  before one it lists.
* **Pulsar** - two unbuffered channels between three goroutines. Correct: `Stop` ends
  the loop, and no pulse comes after it.

The hazards, each at its line, are in `PROJECT.json`.

## 2. Modules

```
Cluster          the clock and the pods (the world outside)
  IncidentStore  the Redis keys, and the methods several goroutines call
    Reconciler   the worker           Sweeper   the sweeps       Notifier  the consumers
      PodHealth  (+ what the filter last said of each pod)
      -> Lifecycle    what the worker promises (refinement FollowsLifecycle)
    Agent = Reconciler + Sweeper + Notifier over one store
      -> Outbox       what the queue and its consumers promise (ImplementsOutbox)
    IncidentViews  the requests of the HTTP server
      AgentViews = Agent + IncidentViews
PodTriage        the filter and the test for a healthy pod, over a kubelet
AgentTimestamp   the agent's creation time, over elections and crashes
Pulsar           the pulses of the consumer's loop, and Stop

MCReconciler, MCPodHealth, MCAgent   the instances TLC checks
MCParts                              AgentViews, PodTriage, AgentTimestamp, Pulsar

IncidentStoreProofs    lemmas about the store's operators
  ReconcilerProofs     the worker
    CleanReconcileProofs   the worker, uncut
    AgentProofs        the worker beside any sweeps and consumers
      OrderProofs          what the server hears, and in which order
                           (with CleanReconcileProofs)
      AgentViewsProofs     and any requests
PodTriageProofs        the filter
  PartsProofs          the creation time, the pulsar, and the types of MCParts
                       (with AgentViewsProofs)
```

**IncidentStore.** One variable per kind of key (`active`, `events`, `pods`, `logs`,
`pending`; `expiring[i]` is the set of incident *i*'s keys that have an expiry) and,
for each goroutine, a program counter `pc[g]` with the arguments of the call it is
in (`inc[g]`, `pod[g]`). An action is one Redis command: `SetPodResolved` ->
`RemovePod` -> `CheckPods` -> `DeletePods` -> `DeleteActive` -> `QueueResolved`.
`SetJobIncidentResolved` joins at `DeletePods`: from there the two Go methods
issue the same commands. `CallFails` is any command's error, which in each of these
methods is an immediate return.

**Reconciler.** `Reconcile(p)` is the head of the function, up to the filter; the
healthy branch is `ResolveHealthy`; the failing one is `GetActiveIncident`,
`IgnoreMultipodDeployment` or `CreateActiveIncident`, then `CheckDuplicate`,
`FetchLogs(c)` per container, and `AddEventToIncident` ... `Announce`, one action
per write. Reads of keys only the worker writes (events, logs) are merged with the
step they decide; `ActiveIncidentExists` and `GetActiveIncident` are one step too:
a key deleted between the two is an error, which ends the reconcile as if it had
not begun. `AddLogs` is one action because nobody else looks at the logs.
`AbortReconcile` is any error return and any crash.

**Lifecycle** is what the Porter server is to see of an incident: a release has one
open at most; it is recorded, announced while it is the open one, closed once it was
announced, and then announced as resolved. `Reconciler!FollowsLifecycle` maps `open`
to the active pointers (an unannounced pointer included) and `history` to the events
and to what was ever queued.

**Sweeper.** `StartSweep` (KEYS), `ReadPointer` (a GET each), `ListPods` (SMEMBERS),
`CheckPod` (the API server's answer and the call of `SetPodResolved`), with
`ReadFails` for the errors that are skipped and `AbortSweep` for the timeout.

**Notifier.** `CheckPending` (EXISTS), `PopPending` (ZPOPMIN, and the panic on an
empty answer), `GetIncidentDetails`, `PostNotification` (four outcomes: processed;
processed and the answer lost; not processed and an error; not processed and an
error status, which the client does not look at), `RequeueItemWithScore`.

**Outbox** is what those who append to the queue may rely on: a notification stays in
the box until it is delivered, and then leaves or stays to be delivered again; it is
lost only where `Lossy`; none is made up. `Agent!ImplementsOutbox` maps `box` to the
members of `pending` together with what the consumers hold (a lost answer leaves a
delivered notification in the box), `Lossy` to failing calls or error statuses.

**Agent** composes them: one worker, any number of sweeps and consumers. Two history
variables, `opened` and `reopened`, keep which incidents were ever made the active one
of their release, and which of these more than once: an ID holds a second, so an
incident that is closed and followed by the next failure in its second of creation
comes back under its ID. No step depends on them.

**IncidentViews** has the requests of the HTTP server, one action per read: the two
lists (`StartList`, then `ListNext` and `ListLatest` per incident) and the page of one
incident (`StartPage`, `PageEvents`, `PageLatest`). The ID of a page is any text of the
URL, and `EXISTS` is true of any key: the name of another key, `pending` or
`active_incident:...`, passes for an incident's, and its page ends in an error further
on (`PageOther`). Keys are sequences of the segments
between their colons, so that which keys `KEYS incident:*:*:*` finds and which of
these `NewIncidentFromString` refuses (a nil the sort dereferences) are computed, not
assumed. **AgentViews** puts them beside `Agent`.

**PodTriage** has the filter as operators (`Report(c)`, `PassedOver`, `Answer`; the two
branches about an ending that `filter.go` writes out twice are two operators,
`BackedOffReport` and `TerminatedReport`) and the end of `Reconcile` for a pod without a report
(`SetsPodResolved`), over a kubelet that starts, ends, restarts and backs off from
containers. `failedAt` is a history variable: when the filter last reported the pod.
`Reconciler` takes *any* answer of the filter and does not depend on this module.

**AgentTimestamp** has `GetAgentCreationTimestamp` command by command, over agents
that are elected and die; **Pulsar** the goroutine of `Pulsate`, the loop that ranges
over the pulses and one call of `Stop`. A send on an unbuffered channel and its
receive are one step. In `Agent` the pulses are the fairness of the consumers.

**MCParts** checks these four, one at a time (`part` is chosen in the initial state):
they share no variable, and a product of their states would show nothing more.

What is abstracted:

* A *message* stands for an event's reason, message and container events together,
  which is what the duplicate test compares. `PullError` and `BackOff` are the
  messages with the two special cases of `pod_controller.go:275-286`. With the
  filter of this commit no message is in `PullError`: it does not produce that
  reason any more, and what it says of both reasons of a failing pull is the same
  (`RetriesAreNotNews`). `BackOff` is reachable through the text of a container that
  cannot run.
* The filter's texts are reduced to what distinguishes two reports: a summary and
  details, each a phrase with the exit code in it. A `List` of the API server that
  fails is taken for one that finds nothing, as in the code.
* An event has two times: the `Timestamp` it is made with (`pod_controller.go:257`),
  before the logs are streamed, and the score it is stored with (`client.go:232`), after.
  The clock may advance between the two.
* Two events of one pod with one message and the same times are one event, though the
  code may tell them apart by a log ID.
* In `Reconciler`, that a healthy pod has run ten minutes and that enough replicas are
  ready are free choices.
* Ties that Redis breaks by text (events of one second, releases in the queue) are
  left open; `new:` before `resolved:`, and an incident before a later one of its
  release, are not.
* Of an HTTP answer the status, the events listed and the latest one are kept; the
  affected pods and the state computed from them are not. The keys that are no
  incident's are one ID, `OtherKey`: each ends in an error, some by their type, some by
  what their members are, some by their form.
* The two weeks of the expiries never pass: what is kept is whether a key has one.
* A crash is modelled per goroutine (`AbortReconcile`, `AbortSweep`,
  `RestartConsumer`). A crash of the agent is several of them in a row, and they
  can also happen alone, as errors do.
* The clock is monotone. The wall clock of a node may be set back; the code has no
  defence against that, and `ActiveIsNewest` and `ToldInOrder` depend on it.
* In `AgentTimestamp` the process of the old leader ends before the next is elected:
  an elected controller-runtime manager that loses its lease exits. Two leaders at
  once, which leases exclude as far as clocks agree, could both write the time.

## 3. Runs

| Run | Instance | Shows |
|---|---|---|
| `reconciler_faults` | 1 deployment, 2 pods, 2 containers, 2 messages (one back-off), every answer to a request for logs, 2 seconds, every call may fail; a million states | `TypeOK`, `OngoingIsActive`, `NoticesHaveEvents`, `AffectedHaveEvents` survive errors and crashes anywhere in the worker |
| `reconciler_clean` | the same with 1 container, 2 log texts, no failing call, the cap at 2 | `EveryIncidentAnnounced`, `ResolutionQueued`, `EventsExpire`, `ActiveExists`, `EventsCapped`, and the refinement `FollowsLifecycle` |
| `agent_faults` | worker and sweep, 2 pods, 2 seconds, every call may fail | `AgentTypeOK`, and which invariants of the store survive the sweep: `NoticesHaveEvents`, `ActiveIsNewest`; not `OngoingIsActive` |
| `agent_sweep` | worker, sweep and consumer, one of 2 pods a StatefulSet's, a server that may refuse, fair | `AbandonedIsClosed`: an incident whose pods are all gone is closed in the end; `QueuedIsTold`: what was queued is told in the end |
| `agent_notify` | worker and consumer, 2 messages, 2 seconds, incidents with several events, a server that refuses or loses answers; 2.4 million states up to the symmetry of the messages | `NoNotificationLost`, `ToldInOrder`, `ResolvedSaysResolved`, `ConsumerNeverPanics`, and the refinement `ImplementsOutbox` without loss |
| `agent_consumers` | the consumers of two agents and a worker, every call may fail, all four outcomes of a POST | `HeldHaveEvents`: no notification in hand is thrown away; `ImplementsOutbox` with loss |
| `agent_parts` | a request, for an incident or for another key, beside a worker, 2 messages, 2 seconds; a pod of 2 containers, one a sidecar, with 6 ways to end; 2 agents, 3 seconds; the pulsar | `RequestsSucceed`, `PageMovesForward`; `ResolvesOnlyHealthy`, `RetriesAreNotNews`; `AgentsAgree`; `NoPulseAfterStop`, `StopEndsLoop` |

Five runs expect a violation: each checks a promise the code makes in a comment or
a message, and the counterexample is a behaviour of the code.

| Run | The promise | What happens |
|---|---|---|
| `pod_health_close` | "all pods are now healthy, delete the active incident", `client.go:300` | a second pod with the same failure is a duplicate and never counted; the first one's recovery closes the incident |
| `stream_errors` | "this new incident ... gets pushed out as a notification", `client.go:276` | the first stream of logs fails, and the retry takes the incident for an old one |
| `log_expiry` | "error setting expiration time for logs set", `client.go:541` | the test for a new set comes after the insertion, so no set ever gets an expiry |
| `stale_sweep` | `client.go:300` again | beside a sweep, the pointer of an incident with failing pods is deleted |
| `two_consumers` | "check if there's any item in pending queue", `client.go:60` | another agent's consumer pops in between, and the empty answer is indexed |

`ToldInOrder` has an exception, which TLC found: an incident that is closed and opened
again within its second (with another message, else its event is a duplicate) is
announced again, and if its first announcement is still in the queue, the ZADD of the
second gives it a later score than the resolution has. The server then hears of the
first resolution before it has heard of the incident. The property excepts the incidents
in `reopened`, which were made active twice, and no other: an incident that was opened
once may have any number of different events. Of an excepted one it says that the
announcement is then still to come. `ResolvedSaysResolved` has the same exception: the
state is read when a notification is sent, so the resolution of an incident that was
opened again can be posted as `ONGOING`. Without the exception TLC finds both violated.

`RequestsSucceed` has one too, which is the code's: the page of a key that is no
incident's ends in a 500, where one that does not exist is a 404.

`PageMovesForward` compares what the page answers, Timestamps. The event given as the
latest is the one with the highest score; one worker does one event at a time, so one
that is recorded in an earlier second was also stamped before. Events of one score are
ordered by their text and stamped when their logs began to be streamed, so of these the
page may give an older one: the property excepts events of the same score.

### Bounds, and why they are enough

* *One release.* Every key and every method concerns one incident and so one
  release, but for `KEYS` and the queue. The sweep treats the pointers it lists one
  by one; releases meet in `pending` only, whose order between releases is open. The
  HTTP server's pattern is the same for all. The theorems are for any number.
* *Two pods* are the least for which an incident survives one's recovery, a second
  pod is a duplicate of the first, and a stale list of pods differs from the
  present one. Pods are symmetric where no property is temporal and none is named.
* *Two seconds* (`MaxTime = 1`) are the least for which an incident is opened again
  both under its old ID and under a new one. `agent_sweep`, `log_expiry` and others
  stay in one second: no expression of the sweep looks at the clock.
* *Two messages*: a duplicate and a change. *Two texts*, plus an empty stream:
  duplicate logs, changed logs, none. In `agent_notify` the two messages are treated
  alike and so symmetric.
* *One container* in `reconciler_clean`, and logs that can be read: with two
  containers whose logs are equal, or logs that are "unable to retrieve", the code
  ends a reconcile that has created an incident and not recorded it, and
  `EveryIncidentAnnounced` and `ActiveExists` fail as they do in `stream_errors`.
  `reconciler_faults` has two containers and every answer.
* `MaxEvents = 2` stands for 500: the cap is reached, and passed by one. In
  `agent_notify` it lets an incident that was opened once have two different events.
* `PodsStay` (a CONSTRAINT of the two worker runs and of `agent_notify`, which has no sweep) drops deletions of pods, which
  for the worker only disable `Reconcile(p)`: what it can do with them it can do
  without.
* `agent_sweep` has one message and one second: with two messages, an incident could
  be resolved and opened again for ever within the clock's last second, and its `new:`
  would always come before its `resolved:`. In the code a second ends; in the model
  the last one does not. The safety of that case is `agent_notify`'s.
* `AgentFaults.cfg` has no consumer: a consumer only takes notices out of `pending`
  and puts them back, and no step of the worker or the sweep depends on them.
* `AgentParts.cfg`: one request, for requests do not see each other; a worker whose
  calls do not fail and whose pods have no logs, two messages and two seconds, so that an
  event can be stamped in one second and stored in the next while another was stored;
  `Grace = 1` and `Horizon = 2`, so that a pod can be a grace period old and a moment
  more, and fail again in between; endings with and without a reason, with code 137
  (a kill, with and without its event), 255 (a lost node) and a start error with a
  text; three seconds for two agents, so that two first runs could write two times.
* `CHECK_DEADLOCK FALSE` stands in the configurations where the pods may all be
  gone, the incidents closed and the clock at its bound: then only a new pod would
  bring the agent work. In the runs with `PodsStay` deadlock is checked.

### Fairness

`Agent!Fairness` assumes that a goroutine that can take its next step takes it: the
Go scheduler runs all of them, the pulsar ticks every 50 ms, the sweep is called
every five minutes. Weak fairness is on the steps inside a reconcile
(`~at("idle")`), not on being called for a pod, which depends on the cluster.
Strong fairness is on the POST alone: a notification that is put back and tried
again for ever is answered in the end. Without it the Porter server could stay
down, which the agent can do nothing about. Nothing is assumed of the clock or the
pods, nor that errors stop; the fair run is one without errors of Redis.

`Pulsar!PulsarFairness` is weak on the goroutines and the ticker, and strong on
`TakeKill` alone: `select` picks at random among the cases that are ready, so it does
not prefer the tick for ever. Nobody has to call `Stop`.

## 4. Proofs

For all values of the constants: any numbers of releases, pods, messages, texts,
containers, sweeps, consumers, requests and agents, any cap and clock, with failing
calls and crashes unless a theorem excludes them.

**The worker** (`ReconcilerProofs`, `Reconciler!Spec`)

* `TypeCorrect`: `[]TypeOK`. `TypeOK` is inductive; it says of each program
  counter what the locals hold there, so that, for example, an event is recorded
  only for an incident.
* `OngoingIsAlwaysActive`: `[]OngoingIsActive`. Not inductive alone: the
  worker adds a pod to the incident it *holds*, and deletes the pointer of the
  release after it deleted the pods. `OngoingInv` adds that a pointer names an
  incident of its own release (`ActiveOfRelease`), that between finding its incident
  and ending, the worker's incident is the active one (`WorksOnActive`), and that
  when it is about to delete a pointer its incident has no pods (`DropsHealthy`).
  The middle one is what a sweep beside the worker breaks, which is why the theorem
  is about `Reconciler` and the run `stale_sweep` finds its counterexample.
* `EventsComeFirst`: `[]NoticesHaveEvents`, and `AffectedComeAfterEvents`:
  `[]AffectedHaveEvents`. Their invariant `EventsInv` adds that past the writing of the
  event, and inside the resolving methods, the incident exists, and that the worker's
  pod has its event when it is added to the affected ones.
* `ActiveIsAlwaysNewest`: `[]ActiveIsNewest`. `NewestInv` adds that no
  incident is of the future, and takes `OngoingInv` for what the worker holds.
* `EventsAreCapped`: `[]EventsCapped`. A reconcile that made an incident adds its event
  uncounted, and the incident may be an old one, opened again in its second.
  `NewIsEarly` says that it then has no event later than that second, so the
  uncounted event is the only late one (`NoEventOfFuture`, `FiniteEvents`).

**The worker, uncut** (`CleanReconcileProofs`; `Clean`: no call fails, pods report one
container, logs can be read)

* `CleanReconcilesAnnounce` (`EveryIncidentAnnounced`), `CleanReconcilesResolve`
  (`ResolutionQueued`), `CleanReconcilesExpire` (`EventsExpire`) and
  `CleanReconcilesRecord` (`ActiveExists`). These hold between reconciles only;
  `CleanInv` says for each what the worker is about to do when it does not hold yet (an
  incident that exists is announced, or is the one at hand, new, before its
  `Announce`), on top of `OngoingInv` and `EventsInv`. Each hypothesis of `Clean` is
  needed: `stream_errors` shows what one of them excludes.
* `CleanLifecycle`: `FollowsLifecycle`, the refinement, by the same invariant: every
  step is a step of `Lifecycle` or changes nothing it sees.

**The agent** (`AgentProofs`, `Agent!AgentSpec`). The lemmas `WorkerEffect`,
`SweepEffect` and `ConsumerEffect` say what a step of one goroutine can do to what
the others rely on: it leaves their frames alone, never takes an event away, and
appends to the queue at most.

* `AgentTypeCorrect`: `[]AgentTypeOK`.
* `AgentEventsComeFirst`: `NoticesHaveEvents`, `AffectedHaveEvents` and
  `HeldHaveEvents`, with `SweepsKnow`: a sweep past `SetPodResolved`'s test works on
  an incident that exists. That events are never taken away carries the rest.
* `QueueIsOutbox`: `ImplementsOutbox`. It rests on `HandsEmpty` (a consumer that pops
  holds nothing, so nothing is overwritten) and on `HeldHaveEvents` (what is held is
  not dropped).
* `NothingQueuedIsLost`: `NoNotificationLost` without failing calls and error
  statuses, from the outbox: what was put is in the box or delivered.
* `OneConsumerNeverPanics`: `ConsumerNeverPanics` where there is one consumer: nobody
  else takes from the queue between EXISTS and ZPOPMIN (`PopsSomething`).
  `two_consumers` is the counterexample for two.
* `AgentActiveIsNewest`: `ActiveIsNewest` beside sweeps, where `OngoingInv` does not
  hold: `RecordsForActive` says that the worker's incident is the active one, *or that
  none is*.
* `AgentEventsAreCapped`: `EventsCapped` beside sweeps and consumers. `CappedInv` needs
  nothing of the active pointers, so a sweep that drops the worker's incident from
  them does not disturb it.

**What the server hears** (`OrderProofs`, on `AgentSpec` and both of the above)

* `ToldAlwaysInOrder`: `ToldInOrder`, and `ResolutionsSayResolved`:
  `ResolvedSaysResolved`. Both follow from one invariant, `OrderInv`, in two halves.
  The worker's half, `RepeatInv`, follows the history: what was announced was opened
  (`NewOpened`), a resolution follows an announcement (`ResolvedFollows`), so an incident
  that is active and was resolved is active again (`ActiveReopened`), and only an active
  one has affected pods or is announced. The consumer's half is `Ordered`: an incident
  that was not opened again is either announced, or its announcement is ahead of its
  resolution by score (`InOrder`), which nobody holds. Equal scores are kept apart by the
  text, `new:` before `resolved:`; a notification that is put back has its old score.
  `StatesResolved` says the same of the state a consumer has read and not yet posted.
* They assume `Undisturbed`. Each part is needed: on the instance of `agent_notify`, TLC
  finds `ToldInOrder` violated when a sweep, a second consumer, error statuses, failing
  calls, logs that cannot be read or a second container are added. `Clean`: an incident whose
  announcement a failed stream of logs lost (`stream_errors`) can still be resolved. No
  sweep: one between the SADD of the pod (`client.go:263`) and the announcement (`276`)
  can queue the resolution first. One consumer: while one holds the announcement the
  other pops the resolution. No error status: an announcement answered with one counts as
  delivered, and the resolution follows. Refused POSTs, lost answers, and any numbers of
  releases, pods, messages and seconds remain.
* `AgentCleanLifecycle`: `FollowsLifecycle` of the whole agent, with any number of
  consumers and without sweeps: what a consumer does is a stutter of `Lifecycle`.

**The HTTP server** (`AgentViewsProofs`, `AgentViewsSpec`)

* `RequestsAlwaysSucceed`: `RequestsSucceed`. The keys `KEYS` finds are IDs of
  incidents that exist (`FoundIsIncident`), between the reads events only grow, and
  only the page of another key fails (`Reads`).
* `PagesMoveForward`: `PageMovesForward`. `TimesInv`: no event was stamped after it was
  stored, nor stored in the future, and one stored in an earlier second than another was
  stored before the other was stamped (`InOrderOfTime`), since the worker stamps the
  event at hand only after it has stored the last. The events listed are still there
  when the latest is read, so its score is not below theirs (`NotBehind`).

**The parts**

* `PodTriageProofs`: `AlwaysResolvesHealthy` (`ResolvesOnlyHealthy`): a container that
  was reported at `failedAt` is not running since before (`NotRunSince`), whatever is
  passed over or restarts; and `RetriesAreNeverNews` (`RetriesAreNotNews`).
* `PartsProofs`: `AgentsAlwaysAgree` (`AgentsAgree`): who is about to write has found
  nothing stored, and is the only one; `StoppedIsSilent` (`NoPulseAfterStop`); and
  `PartsTypes` (`PartsTypeOK`), the types of all four parts side by side, for which the
  timestamp's need its whole invariant.

The assumptions are the named ones of the modules: types of the constants, no two
kinds of owner for a release, and that `None` is no other value (no incident, pod,
message, text, notice, answer about logs or number). TLC evaluates them in every run.
The inductive invariants of the worker were checked with TLC on the instance of
`reconciler_faults` before they were proved, and `OrderInv` on that of `agent_notify`.

Every invariant and action property the passing runs check is stated by a theorem.
Only model-checked: the liveness properties `AbandonedIsClosed`, `QueuedIsTold` and
`StopEndsLoop`, for fairness and ENABLED are out of the prover's reach.

## 5. Not modelled

* That the two weeks of the expiries pass. The code leaves pointers to expired
  incidents and dereferences a nil when a key expires between two reads
  (`client.go:386`, `642`): a property about it would only restate those lines. Which keys have an expiry at
  all is modelled.
* The lookup of a pod's owner and release (`pod_controller.go:393-500`): an error of
  it ends the reconcile without one, which is as if it was not called. The arithmetic of
  `maxUnavailable` (`564`): a free choice.
* The finalizer a reconcile removes from a pod: no property depends on it.
* That a pod older than the agent is passed over: one of the reasons why a reconcile
  may not happen. The time it is compared with is `AgentTimestamp`.
* `GetLogs` of the HTTP server (one GET), and log IDs: two logs of one incident
  in one second overwrite each other in the code; the model keeps one set of texts.
  `NewLogFromString` has no caller.
* The state in an HTTP answer: between the ZADD of its event and the SADD of its pod
  a new incident reads RESOLVED, which is what the code does.
* Start-up, flags, health checks, manifests. Configuration is read at start-up only;
  one of its orders is worth knowing: `utils/filter.go:39` reads `PORTER_HOST` in an
  `init`, which runs before those of the packages that import it and call
  `viper.AutomaticEnv`.
* Response bodies of POSTs are never closed (`events.go:150`), a leak the model does
  not count.

## 6. Plan

Done: all the modules above; twelve runs; two refinements, checked and proved; a
theorem for every safety property of the passing runs.

What remains worth doing:

1. What of `Undisturbed` can be given up: order and states for an agent with sweeps,
   for incidents no sweep touches.
2. `Expiry`: keys that expire, with the pointer that outlives its incident, if a
   property is found that the code is meant to keep there.
3. The liveness of `Agent` with failing calls that stop at some time.
