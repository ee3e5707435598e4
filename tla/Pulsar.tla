------------------------------- MODULE Pulsar -------------------------------
(***************************************************************************)
(* pkg/pulsar: a goroutine hands the ticks of a time.Ticker on to a loop   *)
(* that ranges over the channel "pulsate", until another goroutine calls   *)
(* Stop.  Both channels are unbuffered: a send and its receive are one     *)
(* step.  The ticker's own channel holds one tick and drops the others.    *)
(***************************************************************************)
EXTENDS Naturals

VARIABLES
  ticks,      \* ticks in the ticker's channel
  pulsing,    \* where the goroutine of Pulsate is
  closed,     \* the channels it has closed
  ranging,    \* where the loop over the pulses is
  stopping    \* where the goroutine that calls Stop is

pulsarVars == <<ticks, pulsing, closed, ranging, stopping>>

PulsarInit ==
  /\ ticks = 0
  /\ pulsing = "select"
  /\ closed = {}
  /\ ranging = "receive"
  /\ stopping = "not called"

TickerTicks ==
  /\ ticks' = 1
  /\ ticks' # ticks
  /\ UNCHANGED <<pulsing, closed, ranging, stopping>>

(* case t := <-p.pulse.C *)
TakeTick ==
  /\ pulsing = "select"
  /\ ticks = 1
  /\ ticks' = 0
  /\ pulsing' = "send"
  /\ UNCHANGED <<closed, ranging, stopping>>

(* p.pulsate <- t *)
SendPulse ==
  /\ pulsing = "send"
  /\ ranging = "receive"
  /\ pulsing' = "select"
  /\ ranging' = "body"
  /\ UNCHANGED <<ticks, closed, stopping>>

(* The body of the loop, which takes as long as a notification takes.       *)
BodyEnds ==
  /\ ranging = "body"
  /\ ranging' = "receive"
  /\ UNCHANGED <<ticks, pulsing, closed, stopping>>

\* Mutant: the channel has room for the value, so the send does not wait.
StopBuffered ==
  /\ stopping = "not called"
  /\ stopping' = "returned"
  /\ UNCHANGED <<ticks, pulsing, closed, ranging>>

(* Stop(): p.kill <- true *)
Stop ==
  /\ stopping = "not called"
  /\ stopping' = "send"
  /\ UNCHANGED <<ticks, pulsing, closed, ranging>>

(* case <-p.kill *)
TakeKill ==
  /\ pulsing = "select"
  /\ stopping = "send"
  /\ pulsing' = "return"
  /\ stopping' = "returned"
  /\ UNCHANGED <<ticks, closed, ranging>>

\* Mutant: only the one channel is closed.
CloseKillOnly ==
  /\ pulsing = "return"
  /\ closed # {"kill"}
  /\ closed' = {"kill"}
  /\ UNCHANGED <<ticks, pulsing, ranging, stopping>>

(* The deferred calls, the last one first. *)
CloseChannels ==
  /\ pulsing = "return"
  /\ \/ closed = {} /\ closed' = {"pulsate"}
     \/ closed = {"pulsate"} /\ closed' = {"pulsate", "kill"}
  /\ UNCHANGED <<ticks, pulsing, ranging, stopping>>

(* The range over a closed channel is over. *)
RangeEnds ==
  /\ ranging = "receive"
  /\ "pulsate" \in closed
  /\ ranging' = "over"
  /\ UNCHANGED <<ticks, pulsing, closed, stopping>>

PulsarNext ==
  \/ TickerTicks
  \/ TakeTick
  \/ SendPulse
  \/ BodyEnds
  \/ Stop
  \/ TakeKill
  \/ CloseChannels
  \/ RangeEnds

(* The ticker ticks, and a goroutine that can go on goes on.  select takes  *)
(* one of the cases that are ready at random, so it does not pass over the  *)
(* kill for ever.  Nobody has to call Stop.                                 *)
PulsarFairness ==
  /\ WF_pulsarVars(TickerTicks)
  /\ WF_pulsarVars(TakeTick)
  /\ WF_pulsarVars(SendPulse)
  /\ WF_pulsarVars(BodyEnds)
  /\ SF_pulsarVars(TakeKill)
  /\ WF_pulsarVars(CloseChannels)
  /\ WF_pulsarVars(RangeEnds)

PulsarSpec == PulsarInit /\ [][PulsarNext]_pulsarVars /\ PulsarFairness

----------------------------------------------------------------------------
(* Each goroutine is at one of its waits; channels are closed in order.     *)
PulsarTypeOK ==
  /\ ticks \in 0 .. 1
  /\ pulsing \in {"select", "send", "return"}
  /\ closed \in {{}, {"pulsate"}, {"pulsate", "kill"}}
  /\ ranging \in {"receive", "body", "over"}
  /\ stopping \in {"not called", "send", "returned"}

(* "Stop stops producing pulses": once it has returned, the loop's body is  *)
(* not begun again.                                                         *)
NoPulseAfterStop ==
  [][stopping = "returned" /\ ranging' = "body" => ranging = "body"]_pulsarVars

(* Stop lets the calling code "exit the for loop ranging on the channel":   *)
(* the loop ends, though a pulse may be waiting to be sent when Stop is     *)
(* called, and the body be running.                                         *)
StopEndsLoop ==
  stopping = "send" ~> ranging = "over"

=============================================================================
