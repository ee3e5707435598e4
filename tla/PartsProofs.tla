----------------------------- MODULE PartsProofs -----------------------------
(***************************************************************************)
(* Proofs about the parts of the agent that share no state: the creation   *)
(* timestamp, for any agents and any number of elections and crashes; the  *)
(* pulsar, which needs none of its fairness; and the types of all of them. *)
(***************************************************************************)
EXTENDS MCParts, AgentViewsProofs, PodTriageProofs

(* What the elected agent found out is still so: nobody else can write the  *)
(* key between its EXISTS and its SET.                                      *)
FoundUnset == step \in {"now", "set"} => stamp = Unset

(* A process knows the stored time or none, so none while none is stored.   *)
CachedIsStored == \A a \in Agents : cached[a] \in {Unset, stamp}

TimestampInv == TimestampTypeOK /\ FoundUnset /\ CachedIsStored

(* A step of the elected agent that only moves it.                          *)
LEMMA ToTypeOK ==
  ASSUME TimestampInv, leader # NoAgent,
         NEW label \in {Idle, "isFirstRun", "now", "read"}, To(label),
         step # "set", label = "read" => stamp # Unset, label = "now" => stamp = Unset
  PROVE  TimestampInv'
  BY DEF TimestampInv, TimestampTypeOK, FoundUnset, CachedIsStored, To, Idle

LEMMA TimestampInitInv ==
  ASSUME TimestampInit
  PROVE  TimestampInv
  BY TimestampAssumption
     DEF TimestampInit, TimestampInv, TimestampTypeOK, FoundUnset, CachedIsStored, Second, Idle

LEMMA TimestampNextInv ==
  ASSUME TimestampInv, [TimestampNext]_timestampVars
  PROVE  TimestampInv'
<1> USE TimestampAssumption
<1>1. Unset \notin Second
  BY DEF Second
<1>2. CASE ClockTicks
  BY <1>2 DEF ClockTicks, TimestampInv, TimestampTypeOK, FoundUnset, CachedIsStored, Second, Idle
<1>3. ASSUME NEW a \in Agents, Elect(a)
      PROVE  TimestampInv'
  BY <1>3 DEF Elect, TimestampInv, TimestampTypeOK, FoundUnset, CachedIsStored, Idle
<1>4. CASE LeaderDies
  BY <1>4 DEF LeaderDies, TimestampInv, TimestampTypeOK, FoundUnset, CachedIsStored, Idle
<1>5. CASE Get
  <2>1. step # "set" /\ leader # NoAgent
    BY <1>5 DEF Get, Idle
  <2>2. CASE stamp = Unset
    BY <1>5, <2>1, <2>2, ToTypeOK DEF Get
  <2>3. CASE stamp # Unset
    BY <1>5, <2>1, <2>3, ToTypeOK DEF Get
  <2> QED
    BY <2>2, <2>3
<1>6. CASE IsFirstRun
  <2>1. step # "set" /\ leader # NoAgent
    BY <1>6 DEF IsFirstRun, TimestampInv, TimestampTypeOK, Idle
  <2>2. CASE stamp = Unset
    BY <1>6, <2>1, <2>2, ToTypeOK DEF IsFirstRun
  <2>3. CASE stamp # Unset
    BY <1>6, <2>1, <2>3, ToTypeOK DEF IsFirstRun, Idle
  <2> QED
    BY <2>2, <2>3
<1>7. CASE ReadClock
  BY <1>1, <1>7 DEF ReadClock, TimestampInv, TimestampTypeOK, FoundUnset, CachedIsStored, Idle
<1>8. CASE Set
  BY <1>1, <1>8 DEF Set, TimestampInv, TimestampTypeOK, FoundUnset, CachedIsStored, Idle
<1>9. CASE ReadStamp
  BY <1>9 DEF ReadStamp, TimestampInv, TimestampTypeOK, FoundUnset, CachedIsStored, Idle
<1>10. CASE TimestampCallFails
  BY <1>10 DEF TimestampCallFails, TimestampInv, TimestampTypeOK, FoundUnset, CachedIsStored, Idle
<1>11. CASE UNCHANGED timestampVars
  BY <1>11 DEF timestampVars, TimestampInv, TimestampTypeOK, FoundUnset, CachedIsStored, Idle
<1> QED
  BY <1>2, <1>3, <1>4, <1>5, <1>6, <1>7, <1>8, <1>9, <1>10, <1>11 DEF TimestampNext

(* Whichever agents are elected and wherever they crash in the call, the    *)
(* creation time is stored once, and who knows one knows the stored one     *)
(* (GetAgentCreationTimestamp in pkg/redis/client.go).                      *)
THEOREM AgentsAlwaysAgree == TimestampSpec => AgentsAgree
<1>1. TimestampInit => TimestampInv
  BY TimestampInitInv
<1>2. TimestampInv /\ [TimestampNext]_timestampVars => TimestampInv'
  BY TimestampNextInv
<1>3. TimestampInv /\ TimestampInv' /\ [TimestampNext]_timestampVars
        => [/\ stamp # Unset => stamp' = stamp
            /\ \A a \in Agents : cached'[a] \in {Unset, stamp'}]_timestampVars
  <2> SUFFICES ASSUME TimestampInv, TimestampInv', TimestampNext
               PROVE  /\ stamp # Unset => stamp' = stamp
                      /\ \A a \in Agents : cached'[a] \in {Unset, stamp'}
    OBVIOUS
  <2>1. stamp # Unset => stamp' = stamp
    BY DEF TimestampNext, ClockTicks, Elect, LeaderDies, Get, IsFirstRun, ReadClock, Set, ReadStamp,
           TimestampCallFails, To, TimestampInv, FoundUnset
  <2>2. \A a \in Agents : cached'[a] \in {Unset, stamp'}
    BY DEF TimestampInv, CachedIsStored
  <2> QED
    BY <2>1, <2>2
<1> QED
  BY <1>1, <1>2, <1>3, PTL DEF TimestampSpec, AgentsAgree

----------------------------------------------------------------------------
(* Stop returns when its value is taken, and who takes it sends no more.    *)
PulsarInv == stopping = "returned" => pulsing = "return"

LEMMA NextPulsarInv ==
  ASSUME PulsarInv, [PulsarNext]_pulsarVars
  PROVE  PulsarInv'
<1> USE DEF PulsarInv
<1>1. CASE TickerTicks \/ TakeTick \/ Stop \/ TakeKill
  BY <1>1 DEF TickerTicks, TakeTick, Stop, TakeKill
<1>2. CASE SendPulse \/ BodyEnds \/ RangeEnds
  BY <1>2 DEF SendPulse, BodyEnds, RangeEnds
<1>3. CASE CloseChannels
  BY <1>3 DEF CloseChannels
<1>4. CASE UNCHANGED pulsarVars
  BY <1>4 DEF pulsarVars
<1> QED
  BY <1>1, <1>2, <1>3, <1>4 DEF PulsarNext

(* A Stop that has returned is the end of the pulses, however the ticker,   *)
(* the select and the loop over the pulses interleave (pkg/pulsar).         *)
THEOREM StoppedIsSilent == PulsarSpec => NoPulseAfterStop
<1>1. PulsarInit => PulsarInv
  BY DEF PulsarInit, PulsarInv
<1>2. PulsarInv /\ [PulsarNext]_pulsarVars => PulsarInv'
  BY NextPulsarInv
<1>3. PulsarInv /\ [PulsarNext]_pulsarVars =>
        [stopping = "returned" /\ ranging' = "body" => ranging = "body"]_pulsarVars
  BY DEF PulsarInv, PulsarNext, pulsarVars, TickerTicks, TakeTick, SendPulse, BodyEnds, Stop, TakeKill,
         CloseChannels, RangeEnds
<1> QED
  BY <1>1, <1>2, <1>3, PTL DEF PulsarSpec, NoPulseAfterStop

LEMMA ZeroOrOne ==
  0 \in 0 .. 1 /\ 1 \in 0 .. 1
OBVIOUS

LEMMA PulsarNextTypeOK ==
  ASSUME PulsarTypeOK, [PulsarNext]_pulsarVars
  PROVE  PulsarTypeOK'
<1> USE DEF PulsarTypeOK
<1>1. CASE TickerTicks \/ TakeTick
  <2>1. ticks' \in 0 .. 1
    BY <1>1, ZeroOrOne DEF TickerTicks, TakeTick
  <2> QED
    BY <1>1, <2>1 DEF TickerTicks, TakeTick
<1>2. CASE SendPulse \/ BodyEnds \/ Stop \/ TakeKill \/ RangeEnds
  BY <1>2 DEF SendPulse, BodyEnds, Stop, TakeKill, RangeEnds
<1>3. CASE CloseChannels
  BY <1>3 DEF CloseChannels
<1>4. CASE UNCHANGED pulsarVars
  BY <1>4 DEF pulsarVars
<1> QED
  BY <1>1, <1>2, <1>3, <1>4 DEF PulsarNext

----------------------------------------------------------------------------
(* Beside each other, the parts keep their variables' types; the proof of   *)
(* the timestamp's needs that what the elected agent found is still so.     *)

PartsInv == AgentViewsTypeOK /\ TriageTypeOK /\ TimestampInv /\ PulsarTypeOK

LEMMA PartsInitInv ==
  ASSUME PartsInit
  PROVE  PartsInv
<1>1. AgentViewsTypeOK
  <2>1. AgentTypeOK
    BY InitAgentTypeOK DEF PartsInit, AgentViewsInit
  <2>2. ViewsTypeOK
    BY DEF PartsInit, AgentViewsInit, ViewsInit, Unanswered, ViewsTypeOK
  <2> QED
    BY <2>1, <2>2 DEF AgentViewsTypeOK
<1>2. TriageTypeOK
  BY TriageInitHealth DEF PartsInit, HealthInv
<1>3. TimestampInv
  BY TimestampInitInv DEF PartsInit
<1>4. PulsarTypeOK
  BY ZeroOrOne DEF PartsInit, PulsarInit, PulsarTypeOK
<1> QED
  BY <1>1, <1>2, <1>3, <1>4 DEF PartsInv

LEMMA StillServing ==
  ASSUME AgentViewsTypeOK, UNCHANGED <<agentVars, viewVars>>
  PROVE  AgentViewsTypeOK'
<1>1. AgentTypeOK'
  <2>1. [AgentNext]_agentVars
    OBVIOUS
  <2> QED
    BY <2>1, NextAgentTypeOK DEF AgentViewsTypeOK
<1>2. ViewsTypeOK'
  BY DEF AgentViewsTypeOK, ViewsTypeOK, viewVars
<1> QED
  BY <1>1, <1>2 DEF AgentViewsTypeOK

LEMMA StillTriaged ==
  ASSUME TriageTypeOK, UNCHANGED triageVars
  PROVE  TriageTypeOK'
  BY DEF TriageTypeOK, triageVars, podVars

LEMMA ViewsNextTypeOK ==
  ASSUME AgentViewsTypeOK, AgentViewsNext
  PROVE  AgentViewsTypeOK'
<1> USE DEF AgentViewsTypeOK
<1>1. CASE AgentNext /\ UNCHANGED viewVars
  <2>1. AgentTypeOK'
    BY <1>1, NextAgentTypeOK
  <2>2. ViewsTypeOK'
    BY <1>1 DEF ViewsTypeOK, viewVars
  <2> QED
    BY <2>1, <2>2
<1>2. ASSUME NEW v \in Readers, Serving(v)
      PROVE  AgentViewsTypeOK'
  <2>1. AgentTypeOK'
    BY <1>2, NextAgentTypeOK DEF Serving
  <2> QED
    BY <1>2, <2>1, ServingTypeOK
<1> QED
  BY <1>1, <1>2 DEF AgentViewsNext

LEMMA PartsNextInv ==
  ASSUME PartsInv, [PartsNext]_partsVars
  PROVE  PartsInv'
<1> USE DEF PartsInv
<1>1. CASE Serve
  BY <1>1, ViewsNextTypeOK, StillTriaged, TimestampNextInv, PulsarNextTypeOK DEF Serve
<1>2. CASE Triage
  BY <1>2, StillServing, TriageNextTypeOK, TimestampNextInv, PulsarNextTypeOK DEF Triage
<1>3. CASE Timestamp
  BY <1>3, StillServing, StillTriaged, TimestampNextInv, PulsarNextTypeOK DEF Timestamp
<1>4. CASE Pulse
  BY <1>4, StillServing, StillTriaged, TimestampNextInv, PulsarNextTypeOK DEF Pulse
<1>5. CASE UNCHANGED partsVars
  BY <1>5, StillServing, StillTriaged, TimestampNextInv, PulsarNextTypeOK DEF partsVars
<1> QED
  BY <1>1, <1>2, <1>3, <1>4, <1>5 DEF PartsNext

(* Whichever part runs, and for however long, its variables hold values the *)
(* code can give them: a request is at one of its reads, the labels of a    *)
(* pod's containers are the kubelet's, a stored time was one of the clock's *)
(* (pkg/server, controllers/pod_controller.go, pkg/redis, pkg/pulsar).      *)
THEOREM PartsTypes == PartsSpec => []PartsTypeOK
<1>1. PartsInit => PartsInv
  BY PartsInitInv
<1>2. PartsInv /\ [PartsNext]_partsVars => PartsInv'
  BY PartsNextInv
<1>3. PartsInv => PartsTypeOK
  BY DEF PartsInv, TimestampInv, PartsTypeOK
<1> QED
  BY <1>1, <1>2, <1>3, PTL DEF PartsSpec

=============================================================================
