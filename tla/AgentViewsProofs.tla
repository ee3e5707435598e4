-------------------------- MODULE AgentViewsProofs --------------------------
(***************************************************************************)
(* Proofs about the HTTP server beside an agent's other goroutines: what a *)
(* request puts together from several reads is still about incidents that  *)
(* exist, for events are never taken away.                                 *)
(***************************************************************************)
EXTENDS AgentViews, AgentProofs

(* No goroutine ever takes an event from an incident.                       *)
LEMMA EventsGrow ==
  ASSUME AgentTypeOK, [AgentNext]_agentVars
  PROVE  \A i \in Incident : events[i] \subseteq events'[i]
<1>1. TypeOK
  BY DEF AgentTypeOK
<1>2. CASE Reconciling
  BY <1>1, <1>2, WorkerEffect DEF Reconciling
<1>3. ASSUME NEW s \in Sweepers, Sweeping(s)
      PROVE  UNCHANGED events
  BY <1>3, SweepEffect
<1>4. CASE UNCHANGED storeVars
  BY <1>4 DEF storeVars, dataVars
<1>5. ASSUME NEW c \in Consumers, Consuming(c)
      PROVE  UNCHANGED events
  BY <1>5 DEF Consuming, dataVars
<1> QED
  BY <1>2, <1>3, <1>4, <1>5 DEF AgentNext, agentVars, vars

----------------------------------------------------------------------------
(* What KEYS finds are the IDs of incidents that exist.                     *)

LEMMA KeyParts ==
  ASSUME NEW i \in Incident
  PROVE  /\ KeyOf(i)[1] = "incident" /\ KeyOf(i)[2] = i.release
         /\ KeyOf(i)[3] = "namespace" /\ KeyOf(i)[4] = i.at
         /\ Len(KeyOf(i)) = 4
  BY DEF KeyOf

LEMMA FoundIsIncident ==
  ASSUME NEW key \in Keys, Matches(key)
  PROVE  \E i \in Incident : IncidentExists(i) /\ key = KeyOf(i)
<1>1. ASSUME NEW i \in Incident, NEW word \in {"pods", "logs"}
      PROVE  (<<word>> \o KeyOf(i))[1] = word
  BY KeyParts
<1>2. ASSUME NEW r
      PROVE  ~Matches(<<"active_incident", r, "namespace">>)
  BY DEF Matches
<1>3. ~Matches(<<"pending">>)
  BY DEF Matches
<1> QED
  BY <1>1, <1>2, <1>3 DEF Keys, Matches

LEMMA FoundExists ==
  ASSUME NEW i \in Incident, KeyOf(i) \in Keys
  PROVE  IncidentExists(i)
<1>1. Matches(KeyOf(i))
  <2>1. KeyOf(i)[1] = "incident" /\ Len(KeyOf(i)) = 4
    BY KeyParts
  <2> QED
    BY <2>1 DEF Matches
<1>2. PICK j \in Incident : IncidentExists(j) /\ KeyOf(i) = KeyOf(j)
  BY <1>1, FoundIsIncident
<1>3. i.release = j.release /\ i.at = j.at
  BY <1>2, KeyParts
<1> QED
  BY <1>2, <1>3 DEF Incident

LEMMA FoundParses ==
  ASSUME NEW key \in Keys, Matches(key)
  PROVE  Parses(key)
  BY FoundIsIncident, KeyParts DEF Parses

----------------------------------------------------------------------------
(* A request that looks up an incident read of it before, and it still has  *)
(* its events.                                                              *)

\* The part of it that is about the request v.
Reads(v) ==
  /\ \A i \in toList[v] : events[i] # {}
  /\ rpc[v] \in {"listLatest", "pageEvents", "pageLatest"} => events[asked[v]] # {}
  /\ rpc[v] = "pageOther" => asked[v] = OtherKey
  /\ rpc[v] # "answered" => answer[v].status = None
  /\ answer[v].status = 500 => asked[v] = OtherKey

ServingInv == AgentTypeOK /\ ViewsTypeOK /\ \A v \in Readers : Reads(v)

LEMMA AgentServing ==
  ASSUME ServingInv, [AgentNext]_agentVars, UNCHANGED viewVars
  PROVE  ServingInv'
<1>1. AgentTypeOK'
  BY NextAgentTypeOK DEF ServingInv
<1>2. ViewsTypeOK'
  BY DEF ServingInv, ViewsTypeOK, viewVars
<1>3. \A i \in Incident : events[i] # {} => events'[i] # {}
  BY EventsGrow DEF ServingInv
<1>4. ASSUME NEW v \in Readers
      PROVE  Reads(v)'
  BY <1>3 DEF ServingInv, ViewsTypeOK, Reads, viewVars
<1> QED
  BY <1>1, <1>2, <1>4 DEF ServingInv

Reply == [status : {200, 404, 500, None}, listed : SUBSET Event, latest : Event \cup {None}]

LEMMA RespondType ==
  ASSUME ViewsTypeOK, NEW v \in Readers, NEW status \in {200, 404, 500}, Respond(v, status)
  PROVE  ViewsTypeOK'
<1>1. answer' \in [Readers -> Reply]
  BY DEF ViewsTypeOK, Respond, Reply
<1>2. rpc' = [rpc EXCEPT ![v] = "answered"] /\ UNCHANGED <<toList, asked>>
  BY DEF Respond
<1> QED
  BY <1>1, <1>2 DEF ViewsTypeOK, Reply

LEMMA ServingTypeOK ==
  ASSUME AgentTypeOK, ViewsTypeOK, NEW v \in Readers, Serving(v)
  PROVE  ViewsTypeOK'
<1> USE DEF NextRead
<1>1. CASE StartList(v)
  <2>1. CASE Respond(v, 500)
    BY <2>1, RespondType
  <2>2. ASSUME NEW R,
               toList' = [toList EXCEPT ![v] =
                 {i \in Incident : KeyOf(i) \in {key \in Keys : Matches(key)} /\ i.release \in R}],
               NextRead(v, "list"), UNCHANGED <<asked, answer>>
        PROVE  ViewsTypeOK'
    BY <2>2 DEF ViewsTypeOK
  <2> QED
    BY <1>1, <2>1, <2>2 DEF StartList
<1>2. CASE ListNext(v)
  <2>1. CASE Respond(v, 200) \/ Respond(v, 500)
    BY <2>1, RespondType
  <2>2. ASSUME NEW i \in toList[v], NextRead(v, "listLatest"),
               toList' = [toList EXCEPT ![v] = @ \ {i}], asked' = [asked EXCEPT ![v] = i], UNCHANGED answer
        PROVE  ViewsTypeOK'
    BY <2>2 DEF ViewsTypeOK
  <2> QED
    BY <1>2, <2>1, <2>2 DEF ListNext
<1>3. CASE ListLatest(v)
  <2>1. CASE Respond(v, 500)
    BY <2>1, RespondType
  <2>2. CASE NextRead(v, "list") /\ UNCHANGED <<toList, asked, answer>>
    BY <2>2 DEF ViewsTypeOK
  <2> QED
    BY <1>3, <2>1, <2>2 DEF ListLatest
<1>4. CASE StartPage(v)
  <2>1. CASE Respond(v, 404)
    BY <2>1, RespondType
  <2>2. ASSUME NEW i \in Incident, asked' = [asked EXCEPT ![v] = i], NextRead(v, "pageEvents"),
               UNCHANGED <<toList, answer>>
        PROVE  ViewsTypeOK'
    BY <2>2 DEF ViewsTypeOK
  <2>3. CASE asked' = [asked EXCEPT ![v] = OtherKey] /\ NextRead(v, "pageOther") /\ UNCHANGED <<toList, answer>>
    BY <2>3 DEF ViewsTypeOK
  <2> QED
    BY <1>4, <2>1, <2>2, <2>3 DEF StartPage
<1>8. CASE PageOther(v)
  BY <1>8, RespondType DEF PageOther
<1>5. CASE PageEvents(v)
  <2>1. events[asked[v]] \in SUBSET Event
    BY <1>5 DEF PageEvents, AgentTypeOK, TypeOK, StoreTypeOK, DataTypeOK, ViewsTypeOK
  <2> QED
    BY <1>5, <2>1 DEF PageEvents, ViewsTypeOK
<1>6. CASE PageLatest(v)
  <2>1. answer[v] \in Reply
    BY DEF ViewsTypeOK, Reply
  <2>2. CASE answer' = [answer EXCEPT ![v].status = 500]
    <3>1. [answer[v] EXCEPT !.status = 500] \in Reply
      BY <2>1 DEF Reply
    <3>2. answer' \in [Readers -> Reply]
      BY <2>2, <3>1 DEF ViewsTypeOK, Reply
    <3> QED
      BY <1>6, <3>2 DEF PageLatest, ViewsTypeOK, Reply
  <2>3. ASSUME NEW e \in LatestEvents(asked[v]),
               answer' = [answer EXCEPT ![v].status = 200, ![v].latest = e]
        PROVE  ViewsTypeOK'
    <3>1. e \in Event
      BY <1>6 DEF PageLatest, LatestEvents, AgentTypeOK, TypeOK, StoreTypeOK, DataTypeOK, ViewsTypeOK
    <3>2. answer' = [answer EXCEPT ![v] = [[answer[v] EXCEPT !.status = 200] EXCEPT !.latest = e]]
      BY <2>3
    <3>3. [[answer[v] EXCEPT !.status = 200] EXCEPT !.latest = e] \in Reply
      BY <2>1, <3>1 DEF Reply
    <3>4. answer' \in [Readers -> Reply]
      BY <3>2, <3>3 DEF ViewsTypeOK, Reply
    <3> QED
      BY <1>6, <3>4 DEF PageLatest, ViewsTypeOK, Reply
  <2> QED
    BY <1>6, <2>2, <2>3 DEF PageLatest
<1>7. CASE EndRequest(v)
  <2>1. Unanswered \in Reply
    BY DEF Unanswered, Reply
  <2> QED
    BY <1>7, <2>1 DEF EndRequest, ViewsTypeOK, Reply
<1> QED
  BY <1>1, <1>2, <1>3, <1>4, <1>5, <1>6, <1>7, <1>8 DEF Serving, ViewStep

LEMMA OthersWait ==
  ASSUME ViewsTypeOK, NEW v \in Readers, Serving(v), NEW u \in Readers \ {v}
  PROVE  rpc'[u] = rpc[u] /\ toList'[u] = toList[u] /\ asked'[u] = asked[u] /\ answer'[u] = answer[u]
<1> USE DEF ViewsTypeOK, NextRead, Respond
<1>1. CASE StartList(v)
  BY <1>1 DEF StartList
<1>2. CASE ListNext(v)
  BY <1>2 DEF ListNext
<1>3. CASE ListLatest(v)
  BY <1>3 DEF ListLatest
<1>4. CASE StartPage(v)
  BY <1>4 DEF StartPage
<1>5. CASE PageEvents(v)
  BY <1>5 DEF PageEvents
<1>6. CASE PageLatest(v)
  BY <1>6 DEF PageLatest
<1>7. CASE EndRequest(v)
  BY <1>7 DEF EndRequest
<1>8. CASE PageOther(v)
  BY <1>8 DEF PageOther
<1> QED
  BY <1>1, <1>2, <1>3, <1>4, <1>5, <1>6, <1>7, <1>8 DEF Serving, ViewStep

LEMMA ServingReads ==
  ASSUME ViewsTypeOK, NEW v \in Readers, Serving(v), Reads(v)
  PROVE  Reads(v)'
<1>1. UNCHANGED events
  BY DEF Serving, agentVars, vars, storeVars, dataVars
<1> USE <1>1 DEF ViewsTypeOK, Reads, NextRead, Respond
<1>2. CASE StartList(v)
  <2>1. \A key \in Keys : Matches(key) => Parses(key)
    BY FoundParses
  <2>2. \A i \in Incident : KeyOf(i) \in Keys => events[i] # {}
    BY FoundExists DEF IncidentExists
  <2>3. /\ rpc'[v] = "list" /\ rpc[v] = "idle" /\ UNCHANGED <<answer, asked>>
        /\ \A i \in toList'[v] : i \in Incident /\ KeyOf(i) \in Keys
    BY <1>2, <2>1 DEF StartList
  <2> QED
    BY <2>2, <2>3
<1>3. CASE ListNext(v)
  <2>1. CASE Respond(v, 200)
    BY <2>1
  <2>2. ASSUME NEW i \in toList[v], rpc[v] = "list", NextRead(v, "listLatest"),
               toList' = [toList EXCEPT ![v] = @ \ {i}], asked' = [asked EXCEPT ![v] = i], UNCHANGED answer
        PROVE  Reads(v)'
    BY <2>2, ViewsAssumption
  <2> QED
    BY <1>3, <2>1, <2>2 DEF ListNext, IncidentExists
<1>4. CASE ListLatest(v)
  BY <1>4 DEF ListLatest
<1>5. CASE StartPage(v)
  <2>1. CASE Respond(v, 404) /\ rpc[v] = "idle"
    BY <2>1
  <2>2. ASSUME NEW i \in Incident, events[i] # {}, rpc[v] = "idle", asked' = [asked EXCEPT ![v] = i],
               NextRead(v, "pageEvents"), UNCHANGED <<toList, answer>>
        PROVE  Reads(v)'
    BY <2>2, ViewsAssumption
  <2>3. CASE /\ rpc[v] = "idle" /\ asked' = [asked EXCEPT ![v] = OtherKey]
             /\ NextRead(v, "pageOther") /\ UNCHANGED <<toList, answer>>
    BY <2>3
  <2> QED
    BY <1>5, <2>1, <2>2, <2>3 DEF StartPage, IncidentExists
<1>9. CASE PageOther(v)
  BY <1>9 DEF PageOther
<1>6. CASE PageEvents(v)
  <2>1. /\ rpc'[v] = "pageLatest" /\ rpc[v] = "pageEvents"
        /\ answer'[v].status = answer[v].status /\ UNCHANGED <<toList, asked>>
    BY <1>6 DEF PageEvents
  <2> QED
    BY <2>1, ViewsAssumption
<1>7. CASE PageLatest(v)
  <2>1. rpc[v] = "pageLatest" /\ rpc'[v] = "answered" /\ UNCHANGED <<toList, asked>>
    BY <1>7 DEF PageLatest
  <2>2. answer'[v].status = 200
    BY <1>7, <2>1 DEF PageLatest
  <2> QED
    BY <2>1, <2>2
<1>8. CASE EndRequest(v)
  <2>1. rpc'[v] = "idle" /\ toList'[v] = {} /\ answer'[v] = Unanswered
    BY <1>8 DEF EndRequest
  <2>2. Unanswered.status = None
    BY DEF Unanswered
  <2> QED
    BY <2>1, <2>2, ViewsAssumption
<1> QED
  BY <1>2, <1>3, <1>4, <1>5, <1>6, <1>7, <1>8, <1>9 DEF Serving, ViewStep

(* Whatever the other goroutines do between its reads, and whichever of     *)
(* their calls fail, no request whose own calls succeed ends in an error or *)
(* a nil dereference but the page of a key that is no incident's: what KEYS *)
(* finds are IDs of incidents, a page is begun only of a key that exists    *)
(* (incidents.go:80-90), and events are only ever added.                    *)
THEOREM RequestsAlwaysSucceed == AgentViewsSpec => []RequestsSucceed
<1>1. AgentViewsInit => ServingInv
  <2> SUFFICES ASSUME AgentViewsInit PROVE ServingInv
    OBVIOUS
  <2>1. AgentTypeOK
    BY InitAgentTypeOK DEF AgentViewsInit
  <2>2. ViewsTypeOK /\ \A v \in Readers : Reads(v)
    BY ViewsAssumption DEF AgentViewsInit, ViewsInit, Unanswered, ViewsTypeOK, Reads
  <2> QED
    BY <2>1, <2>2 DEF ServingInv
<1>2. ServingInv /\ [AgentViewsNext]_<<agentVars, viewVars>> => ServingInv'
  <2> SUFFICES ASSUME ServingInv, [AgentViewsNext]_<<agentVars, viewVars>>
               PROVE  ServingInv'
    OBVIOUS
  <2>1. CASE [AgentNext]_agentVars /\ UNCHANGED viewVars
    BY <2>1, AgentServing
  <2>2. ASSUME NEW v \in Readers, Serving(v)
        PROVE  ServingInv'
    <3>1. AgentTypeOK'
      BY <2>2, NextAgentTypeOK DEF ServingInv, Serving
    <3>2. UNCHANGED events
      BY <2>2 DEF Serving, agentVars, vars, storeVars, dataVars
    <3>3. ASSUME NEW u \in Readers \ {v}
          PROVE  Reads(u)'
      BY <2>2, <3>2, <3>3, OthersWait DEF ServingInv, Reads
    <3>4. Reads(v)'
      BY <2>2, ServingReads DEF ServingInv
    <3> QED
      BY <2>2, <3>1, <3>3, <3>4, ServingTypeOK DEF ServingInv
  <2> QED
    BY <2>1, <2>2 DEF AgentViewsNext
<1>3. ServingInv => RequestsSucceed
  BY DEF ServingInv, Reads, RequestsSucceed
<1> QED
  BY <1>1, <1>2, <1>3, PTL DEF AgentViewsSpec

----------------------------------------------------------------------------
(* What the times of events say.  An event has its Timestamp before its logs*)
(* are streamed and its score after it, and the worker records one event    *)
(* after the other: an event that was recorded in an earlier second than    *)
(* another one was recorded before that one got its Timestamp.              *)

InOrderOfTime(E) ==
  /\ \A e \in E : e.timestamp <= e.score
  /\ \A e, f \in E : e.score < f.score => e.score <= f.timestamp

TimesInv ==
  /\ \A i \in Incident : InOrderOfTime(events[i]) /\ \A e \in events[i] : e.score <= now
  /\ at("logs") => eventTime <= now /\ \A e \in events[mine] : e.score <= eventTime

LEMMA TimesFrame ==
  ASSUME TypeOK
  PROVE  /\ now \in Nat /\ FrameTypeOK
         /\ at("logs") => eventTime \in Nat /\ mine \in Incident
         /\ \A i \in Incident : events[i] \subseteq Event
         /\ \A e \in Event : e.score \in Nat /\ e.timestamp \in Nat
<1>1. /\ now \in Nat /\ FrameTypeOK
      /\ \A i \in Incident : events[i] \subseteq Event
      /\ \A e \in Event : e.score \in Nat /\ e.timestamp \in Nat
  BY DEF TypeOK, StoreTypeOK, ClusterTypeOK, DataTypeOK, Event, Time
<1>2. at("logs") => eventTime \in Nat /\ mine \in Incident
  BY RecordFrame DEF TypeOK, WorkerTypeOK, at, RecordLabel, Time
<1> QED
  BY <1>1, <1>2

(* A step that records no event and begins none.                            *)
LEMMA RestTimes ==
  ASSUME TypeOK, TimesInv, UNCHANGED events, now' \in Nat, now <= now',
         at("logs")' => at("logs") /\ UNCHANGED <<mine, eventTime>>
  PROVE  TimesInv'
<1>1. \A i \in Incident : InOrderOfTime(events[i])'
  BY DEF TimesInv, InOrderOfTime
<1>2. \A i \in Incident : \A e \in events'[i] : e.score <= now'
  BY TimesFrame DEF TimesInv
<1>3. at("logs")' => eventTime' <= now' /\ \A e \in events'[mine'] : e.score <= eventTime'
  BY TimesFrame DEF TimesInv
<1> QED
  BY <1>1, <1>2, <1>3 DEF TimesInv

LEMMA CheckTimes ==
  ASSUME TypeOK, TimesInv, CheckDuplicate, now' = now
  PROVE  TimesInv'
<1>1. FrameTypeOK /\ now \in Nat /\ {"dedup", "logs"} \subseteq Label \cap RecordLabel
  BY TimesFrame DEF Label, RecordLabel
<1>2. UNCHANGED events /\ mine \in Incident
  BY <1>1, RecordFrame DEF CheckDuplicate, at, dataVars
<1>3. CASE EndReconcile
  BY <1>1, <1>2, <1>3, ReturnFrame, RestTimes DEF at
<1>4. CASE Goto(Worker, "logs") /\ eventTime' = now
  <2>1. mine' = mine
    BY <1>1, <1>4, GotoFrame
  <2> QED
    BY <1>1, <1>2, <1>4, <2>1 DEF TimesInv, InOrderOfTime
<1> QED
  BY <1>3, <1>4 DEF CheckDuplicate

LEMMA AddEventTimes ==
  ASSUME TypeOK, TimesInv, AddEventToIncident, now' = now
  PROVE  TimesInv'
<1> DEFINE e == [pod |-> myPod, message |-> message, timestamp |-> eventTime, score |-> now]
<1>1. /\ FrameTypeOK /\ now \in Nat /\ DataTypeOK
      /\ {"expireEvents", "addPod"} \subseteq Label
  BY TimesFrame DEF Label, RecordLabel, TypeOK, StoreTypeOK
<1>2. /\ mine \in Incident /\ eventTime \in Nat /\ eventTime <= now
      /\ \A f \in events[mine] : f.score <= eventTime
  BY TimesFrame DEF AddEventToIncident, TimesInv
<1>3. CASE AtCap
  BY <1>1, <1>3, ReturnFrame, RestTimes DEF AddEventToIncident, at
<1>4. CASE ~AtCap
  <2>1. \A i \in Incident : events'[i] = IF i = mine THEN events[i] \cup {e} ELSE events[i]
    BY <1>1, <1>4 DEF AddEventToIncident, DataTypeOK
  <2>2. ~at("logs")'
    BY <1>1, <1>4, GotoFrame DEF AddEventToIncident, at
  <2>3. e.timestamp = eventTime /\ e.score = now
    OBVIOUS
  <2> HIDE DEF e
  <2>4. ASSUME NEW i \in Incident
        PROVE  InOrderOfTime(events'[i]) /\ \A f \in events'[i] : f.score <= now
    <3>1. InOrderOfTime(events[i]) /\ \A f \in events[i] : f.score <= now /\ f \in Event
      BY TimesFrame DEF TimesInv
    <3>2. CASE i # mine
      BY <2>1, <3>1, <3>2
    <3>3. CASE i = mine
      <4>1. \A f \in events'[i] : f \in events[i] \/ f = e
        BY <2>1, <3>3
      <4>2. \A f \in events[i] : f.score <= e.timestamp /\ ~(e.score < f.score)
        BY <1>1, <1>2, <2>3, <3>1, <3>3, TimesFrame
      <4>3. e.timestamp <= e.score /\ e.score <= now /\ ~(e.score < e.score)
        BY <1>1, <1>2, <2>3
      <4> QED
        BY <3>1, <4>1, <4>2, <4>3 DEF InOrderOfTime
    <3> QED
      BY <3>2, <3>3
  <2> QED
    BY <2>2, <2>4 DEF TimesInv, InOrderOfTime
<1> QED
  BY <1>3, <1>4

LEMMA WorkerTimes ==
  ASSUME TypeOK, TimesInv, WorkerStep, now' = now
  PROVE  TimesInv'
<1>1. /\ FrameTypeOK /\ now \in Nat /\ StoreTypeOK
      /\ {"dedup", "logs", "addPod", "expirePods", "announce", "podResolved", "jobResolved"} \subseteq Label
  BY TimesFrame DEF Label, RecordLabel, ResolveLabel, TypeOK
<1>2. ASSUME UNCHANGED events, ~at("logs")'
      PROVE  TimesInv'
  BY <1>1, <1>2, RestTimes
<1>3. CASE EndReconcile /\ UNCHANGED events
  BY <1>1, <1>2, <1>3, ReturnFrame DEF at
<1>4. CASE CheckDuplicate \/ AddEventToIncident
  BY <1>4, CheckTimes, AddEventTimes
<1>5. ASSUME NEW c \in Container, FetchLogs(c)
      PROVE  TimesInv'
  <2>1. CASE UNCHANGED <<frameVars, eventTime, events>>
    BY <1>1, <2>1, RestTimes DEF at, frameVars, mine
  <2> QED
    BY <1>3, <1>5, <2>1 DEF FetchLogs
<1>6. CASE GetActiveIncident \/ CreateActiveIncident \/ ExpireEvents \/ AddPod \/ ExpirePods \/ Announce
           \/ IgnoreMultipodDeployment
  <2>1. CASE pc'[Worker] = "logs"
    <3>1. pc'[Worker] \in RecordLabel
      BY <2>1 DEF RecordLabel
    <3>2. ~EndReconcile
      BY <1>1, <2>1, ReturnFrame
    <3>3. ASSUME NEW i \in {active[myRelease], Created(now)}, Call(Worker, "dedup", i, myPod)
          PROVE  FALSE
      BY <1>1, <2>1, <3>3, WorkerIsGoroutine DEF Call, FrameTypeOK
    <3>4. ASSUME NEW label \in {"addPod", "expirePods", "announce"}, Goto(Worker, label)
          PROVE  FALSE
      BY <1>1, <2>1, <3>4, GotoFrame
    <3> QED
      BY <1>6, <3>2, <3>3, <3>4
         DEF GetActiveIncident, CreateActiveIncident, ExpireEvents, AddPod, ExpirePods, Announce,
             IgnoreMultipodDeployment
  <2>2. UNCHANGED events
    BY <1>6 DEF GetActiveIncident, CreateActiveIncident, ExpireEvents, AddPod, ExpirePods, Announce,
                IgnoreMultipodDeployment, dataVars
  <2> QED
    BY <1>2, <2>1, <2>2 DEF at
<1>7. CASE ResolveStep(Worker)
  <2>1. pc'[Worker] \notin RecordLabel
    BY <1>1, <1>7, ResolveEffect, WorkerIsGoroutine
  <2> QED
    BY <1>1, <1>2, <1>7, <2>1, ResolveEffect, WorkerIsGoroutine DEF at, RecordLabel
<1>8. CASE (\E p \in Pod : Reconcile(p)) \/ ResolveHealthy \/ AbortReconcile
  <2>1. pc'[Worker] # "logs"
    <3>1. ASSUME pc'[Worker] = "logs"
          PROVE  FALSE
      <4>1. pc'[Worker] \in RecordLabel
        BY <3>1 DEF RecordLabel
      <4>2. pc[Worker] \in {"idle", "healthy"} \/ AbortReconcile
        BY <1>8 DEF Reconcile, ResolveHealthy, at
      <4>3. ~AbortReconcile
        BY <1>1, <3>1, ReturnFrame DEF AbortReconcile
      <4> QED
        BY <4>1, <4>2, <4>3, WorkerRecords DEF GetActiveIncident, CreateActiveIncident, at, RecordLabel
    <3> QED
      BY <3>1
  <2>2. UNCHANGED events
    BY <1>8 DEF Reconcile, ResolveHealthy, AbortReconcile, dataVars
  <2> QED
    BY <1>2, <2>1, <2>2 DEF at
<1> QED
  BY <1>4, <1>5, <1>6, <1>7, <1>8 DEF WorkerStep, RecordStep

LEMMA AgentTimes ==
  ASSUME AgentTypeOK, TimesInv, [AgentNext]_agentVars
  PROVE  TimesInv'
<1>1. TypeOK /\ now \in Nat
  BY TimesFrame DEF AgentTypeOK
<1>2. CASE Reconciling
  BY <1>1, <1>2, WorkerTimes DEF Reconciling, clusterVars
<1>3. ASSUME NEW s \in Sweepers, Sweeping(s)
      PROVE  TimesInv'
  <2>1. UNCHANGED <<events, now, eventTime>>
    BY <1>3, SweepEffect DEF Sweeping, clusterVars, workerVars
  <2>2. UNCHANGED mine /\ pc'[Worker] = pc[Worker]
    BY <1>3, SweepEffect, WorkerIsGoroutine, AgentAssumption DEF OthersKept, mine
  <2> QED
    BY <1>1, <2>1, <2>2, RestTimes DEF at
<1>4. CASE UNCHANGED <<events, now, frameVars, eventTime>>
  BY <1>1, <1>4, RestTimes DEF at, frameVars, mine
<1>5. ASSUME NEW c \in Consumers, Consuming(c)
      PROVE  TimesInv'
  BY <1>4, <1>5 DEF Consuming, clusterVars, dataVars, workerVars
<1>6. CASE ClusterStep /\ UNCHANGED <<storeVars, workerVars>>
  <2>1. UNCHANGED <<events, mine, eventTime>> /\ pc' = pc
    BY <1>6 DEF storeVars, dataVars, frameVars, workerVars, mine
  <2>2. now' \in Nat /\ now <= now'
    BY <1>1, <1>6 DEF ClusterStep, Tick, DeletePod, RecreatePod
  <2> QED
    BY <1>1, <2>1, <2>2, RestTimes DEF at
<1>7. CASE UNCHANGED agentVars
  BY <1>4, <1>7 DEF agentVars, vars, storeVars, dataVars, clusterVars, workerVars
<1> QED
  BY <1>2, <1>3, <1>5, <1>6, <1>7 DEF AgentNext

----------------------------------------------------------------------------
(* A page is of one incident until it is answered, and the events it listed *)
(* are still there when the latest is read.                                 *)

NotBehind(page) ==
  page.latest # None =>
    \A e \in page.listed : e.timestamp <= page.latest.timestamp \/ e.score = page.latest.score

Moves(v) ==
  /\ rpc[v] # "answered" => answer[v].latest = None
  /\ rpc[v] = "pageLatest" => answer[v].listed \subseteq events[asked[v]]
  /\ NotBehind(answer[v])

PageInv == AgentTypeOK /\ ViewsTypeOK /\ TimesInv /\ \A v \in Readers : Moves(v)

LEMMA AgentMoves ==
  ASSUME PageInv, [AgentNext]_agentVars, UNCHANGED viewVars
  PROVE  PageInv'
<1>1. AgentTypeOK' /\ TimesInv'
  BY NextAgentTypeOK, AgentTimes DEF PageInv
<1>2. ViewsTypeOK'
  BY DEF PageInv, ViewsTypeOK, viewVars
<1>3. \A i \in Incident : events[i] \subseteq events'[i]
  BY EventsGrow DEF PageInv
<1>4. ASSUME NEW v \in Readers
      PROVE  Moves(v)'
  BY <1>3 DEF PageInv, ViewsTypeOK, Moves, viewVars, NotBehind
<1> QED
  BY <1>1, <1>2, <1>4 DEF PageInv

LEMMA ServingMoves ==
  ASSUME AgentTypeOK, ViewsTypeOK, TimesInv, NEW v \in Readers, Serving(v), Moves(v)
  PROVE  Moves(v)'
<1>1. UNCHANGED events
  BY DEF Serving, agentVars, vars, storeVars, dataVars
<1>2. /\ answer \in [Readers -> Reply]
      /\ rpc \in [Readers -> {"idle", "list", "listLatest", "pageOther", "pageEvents", "pageLatest",
                               "answered"}]
      /\ TypeOK
  BY DEF ViewsTypeOK, Reply, AgentTypeOK
<1>3. CASE StartList(v) \/ ListNext(v) \/ ListLatest(v) \/ StartPage(v) \/ PageOther(v)
  <2>1. rpc[v] # "answered"
    BY <1>3 DEF StartList, ListNext, ListLatest, StartPage, PageOther
  <2>2. rpc'[v] # "pageLatest"
    BY <1>2, <1>3 DEF StartList, ListNext, ListLatest, StartPage, PageOther, Respond, NextRead
  <2>3. answer' = answer \/ \E status \in {200, 404, 500} : answer' = [answer EXCEPT ![v].status = status]
    BY <1>3 DEF StartList, ListNext, ListLatest, StartPage, PageOther, Respond
  <2>4. answer'[v].latest = None
    BY <1>2, <2>1, <2>3 DEF Reply, Moves
  <2> QED
    BY <2>2, <2>4 DEF Moves, NotBehind
<1>4. CASE PageEvents(v)
  <2>1. answer'[v].listed = events[asked[v]] /\ answer'[v].latest = None /\ UNCHANGED asked
    BY <1>2, <1>4 DEF PageEvents, Reply, Moves
  <2> QED
    BY <1>1, <2>1 DEF Moves, NotBehind
<1>5. CASE PageLatest(v)
  <2>1. asked[v] \in Incident /\ rpc[v] = "pageLatest" /\ rpc'[v] = "answered"
    BY <1>2, <1>5 DEF PageLatest, ViewsTypeOK
  <2>2. CASE answer' = [answer EXCEPT ![v].status = 500]
    <3>1. answer'[v].latest = None
      BY <1>2, <2>1, <2>2 DEF Reply, Moves
    <3> QED
      BY <2>1, <3>1 DEF Moves, NotBehind
  <2>3. ASSUME NEW g \in LatestEvents(asked[v]),
               answer' = [answer EXCEPT ![v].status = 200, ![v].latest = g]
        PROVE  Moves(v)'
    <3>1. answer'[v].listed = answer[v].listed /\ answer'[v].latest = g
      BY <1>2, <2>3 DEF Reply
    <3>2. InOrderOfTime(events[asked[v]]) /\ events[asked[v]] \subseteq Event
      BY <1>2, <2>1, TimesFrame DEF TimesInv
    <3>3. g \in events[asked[v]] /\ \A f \in events[asked[v]] : f.score <= g.score
      BY DEF LatestEvents
    <3>4. ASSUME NEW e \in answer[v].listed
          PROVE  e.timestamp <= g.timestamp \/ e.score = g.score
      <4>1. e \in events[asked[v]]
        BY <2>1 DEF Moves
      <4>2. {e.score, e.timestamp, g.score, g.timestamp} \subseteq Nat
        BY <1>2, <3>2, <3>3, <4>1, TimesFrame
      <4>3. e.timestamp <= e.score /\ e.score <= g.score /\ (e.score < g.score => e.score <= g.timestamp)
        BY <3>2, <3>3, <4>1 DEF InOrderOfTime
      <4> QED
        BY <4>2, <4>3
    <3> QED
      BY <2>1, <3>1, <3>4 DEF Moves, NotBehind
  <2> QED
    BY <1>5, <2>2, <2>3 DEF PageLatest
<1>6. CASE EndRequest(v)
  <2>1. rpc'[v] = "idle" /\ answer'[v].latest = None
    BY <1>2, <1>6 DEF EndRequest, Unanswered
  <2> QED
    BY <2>1 DEF Moves, NotBehind
<1> QED
  BY <1>3, <1>4, <1>5, <1>6 DEF Serving, ViewStep

(* The updated_at of a page, which is the Timestamp of the event Redis puts *)
(* first, is not before the Timestamp of any event the page lists, unless   *)
(* the two were recorded in one second: though the two are read one after   *)
(* the other, and an event is recorded long after it got its Timestamp      *)
(* (pkg/server/handlers/incidents.go:150, controllers/pod_controller.go:257)*)
THEOREM PagesMoveForward == AgentViewsSpec => []PageMovesForward
<1>1. AgentViewsInit => PageInv
  <2> SUFFICES ASSUME AgentViewsInit PROVE PageInv
    OBVIOUS
  <2>1. AgentTypeOK
    BY InitAgentTypeOK DEF AgentViewsInit
  <2>2. ViewsTypeOK /\ \A v \in Readers : Moves(v)
    BY DEF AgentViewsInit, ViewsInit, Unanswered, ViewsTypeOK, Moves, NotBehind
  <2>3. TimesInv
    BY WorkerIsGoroutine DEF AgentViewsInit, AgentInit, Init, StoreInit, TimesInv, InOrderOfTime, at
  <2> QED
    BY <2>1, <2>2, <2>3 DEF PageInv
<1>2. PageInv /\ [AgentViewsNext]_<<agentVars, viewVars>> => PageInv'
  <2> SUFFICES ASSUME PageInv, [AgentViewsNext]_<<agentVars, viewVars>>
               PROVE  PageInv'
    OBVIOUS
  <2>1. CASE [AgentNext]_agentVars /\ UNCHANGED viewVars
    BY <2>1, AgentMoves
  <2>2. ASSUME NEW v \in Readers, Serving(v)
        PROVE  PageInv'
    <3>1. AgentTypeOK' /\ TimesInv'
      BY <2>2, NextAgentTypeOK, AgentTimes DEF PageInv, Serving
    <3>2. UNCHANGED events
      BY <2>2 DEF Serving, agentVars, vars, storeVars, dataVars
    <3>3. ASSUME NEW u \in Readers \ {v}
          PROVE  Moves(u)'
      BY <2>2, <3>2, <3>3, OthersWait DEF PageInv, Moves, NotBehind
    <3>4. Moves(v)'
      BY <2>2, ServingMoves DEF PageInv
    <3> QED
      BY <2>2, <3>1, <3>3, <3>4, ServingTypeOK DEF PageInv
  <2> QED
    BY <2>1, <2>2 DEF AgentViewsNext
<1>3. PageInv => PageMovesForward
  BY DEF PageInv, Moves, NotBehind, PageMovesForward
<1> QED
  BY <1>1, <1>2, <1>3, PTL DEF AgentViewsSpec

=============================================================================
