--------------------------- MODULE AgentTimestamp ---------------------------
(***************************************************************************)
(* When this installation first ran (GetAgentCreationTimestamp in          *)
(* pkg/redis/client.go): Reconcile passes over pods that are older.  The   *)
(* time is kept in Redis, and in a variable of each agent's process.  Only *)
(* the elected agent reconciles; it can crash between any two commands.    *)
(***************************************************************************)
EXTENDS Naturals

CONSTANTS
  Agents,    \* the agent processes
  LastTime,  \* bound: the last second of the clock
  NoAgent,   \* no agent is elected
  Unset      \* no value yet

ASSUME TimestampAssumption ==
  /\ LastTime \in Nat
  /\ NoAgent \notin Agents
  /\ Unset \notin Nat

Second == 0 .. LastTime

VARIABLES
  clock,     \* time.Now().Unix()
  leader,    \* the elected agent
  stamp,     \* the key porter-agent-creation-timestamp
  cached,    \* agentCreationTimestamp of each process
  step,      \* where the leader is in GetAgentCreationTimestamp
  toWrite    \* the time it is about to SET

timestampVars == <<clock, leader, stamp, cached, step, toWrite>>

Idle == "idle"

TimestampInit ==
  /\ clock = 0
  /\ leader = NoAgent
  /\ stamp = Unset
  /\ cached = [a \in Agents |-> Unset]
  /\ step = Idle
  /\ toWrite = Unset

ClockTicks ==
  /\ clock < LastTime
  /\ clock' = clock + 1
  /\ UNCHANGED <<leader, stamp, cached, step, toWrite>>

Elect(a) ==
  /\ leader = NoAgent
  /\ leader' = a
  /\ UNCHANGED <<clock, stamp, cached, step, toWrite>>

(* The elected agent crashes, or loses its lease, which ends its process.   *)
LeaderDies ==
  /\ leader # NoAgent
  /\ cached' = [cached EXCEPT ![leader] = Unset]
  /\ leader' = NoAgent
  /\ step' = Idle
  /\ toWrite' = Unset
  /\ UNCHANGED <<clock, stamp>>

To(label) ==
  /\ step' = label
  /\ UNCHANGED <<clock, leader, stamp, cached, toWrite>>

\* Mutant: that the key is there is not looked at.
GetUnchecked ==
  /\ leader # NoAgent /\ step = Idle
  /\ cached[leader] = Unset
  /\ To("now")

\* Mutant: the first run is not told from the others.
GetAlways ==
  /\ leader # NoAgent /\ step = Idle
  /\ cached[leader] = Unset
  /\ To("read")

(* GetAgentCreationTimestamp, with the first of the two IsFirstRun.         *)
Get ==
  /\ leader # NoAgent /\ step = Idle
  /\ cached[leader] = Unset
  /\ To(IF stamp = Unset THEN "isFirstRun" ELSE "read")

(* SetAgentCreationTimestamp: IsFirstRun, time.Now(), SET.                  *)
IsFirstRun ==
  /\ step = "isFirstRun"
  /\ To(IF stamp = Unset THEN "now" ELSE Idle)

ReadClock ==
  /\ step = "now"
  /\ step' = "set"
  /\ toWrite' = clock
  /\ UNCHANGED <<clock, leader, stamp, cached>>

Set ==
  /\ step = "set"
  /\ stamp' = toWrite
  /\ step' = "read"
  /\ toWrite' = Unset
  /\ UNCHANGED <<clock, leader, cached>>

(* The GET, and the value kept in the process.                              *)
ReadStamp ==
  /\ step = "read"
  /\ cached' = [cached EXCEPT ![leader] = stamp]
  /\ step' = Idle
  /\ UNCHANGED <<clock, leader, stamp, toWrite>>

(* A Redis call answers with an error: the reconcile is tried again.        *)
TimestampCallFails ==
  /\ step # Idle
  /\ step' = Idle
  /\ toWrite' = Unset
  /\ UNCHANGED <<clock, leader, stamp, cached>>

TimestampNext ==
  \/ ClockTicks
  \/ \E a \in Agents : Elect(a)
  \/ LeaderDies
  \/ Get
  \/ IsFirstRun
  \/ ReadClock
  \/ Set
  \/ ReadStamp
  \/ TimestampCallFails

TimestampSpec == TimestampInit /\ [][TimestampNext]_timestampVars

----------------------------------------------------------------------------
(* A process inside the call is the elected one, and has read the time it   *)
(* is to write.                                                             *)
TimestampTypeOK ==
  /\ clock \in Second
  /\ leader \in Agents \cup {NoAgent}
  /\ stamp \in Second \cup {Unset}
  /\ cached \in [Agents -> Second \cup {Unset}]
  /\ toWrite \in Second \cup {Unset}
  /\ step \in {Idle, "isFirstRun", "now", "set", "read"}
  /\ step # Idle => leader \in Agents
  /\ step = "set" <=> toWrite # Unset
  /\ step = "read" => stamp # Unset

(* A pod that one agent watched is not passed over by the next one, nor the *)
(* other way round: across crashes at any command and elections, whoever    *)
(* knows the creation time knows the one that is stored, and it is stored   *)
(* once.                                                                    *)
AgentsAgree ==
  [][/\ stamp # Unset => stamp' = stamp
     /\ \A a \in Agents : cached'[a] \in {Unset, stamp'}]_timestampVars

=============================================================================
