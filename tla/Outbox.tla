------------------------------- MODULE Outbox -------------------------------
(***************************************************************************)
(* What the queue "pending" and its consumers promise to those who append  *)
(* to it: a notification put in the box stays in it until it is delivered, *)
(* and then it leaves, or stays and is delivered again.  Where it may get  *)
(* lost it still is never made up.                                         *)
(***************************************************************************)
CONSTANTS
  Notification,
  Lossy          \* whether a notification can be lost

VARIABLES
  box,           \* notifications to deliver
  delivered      \* notifications the receiver has had at least once

outboxVars == <<box, delivered>>

OutboxInit ==
  /\ box = {}
  /\ delivered = {}

Put(n) ==
  /\ box' = box \cup {n}
  /\ UNCHANGED delivered

Deliver(n) ==
  /\ n \in box
  /\ delivered' = delivered \cup {n}
  /\ box' \in {box, box \ {n}}

Lose(n) ==
  /\ Lossy
  /\ n \in box
  /\ box' = box \ {n}
  /\ UNCHANGED delivered

OutboxNext ==
  \E n \in Notification : Put(n) \/ Deliver(n) \/ Lose(n)

OutboxSpec == OutboxInit /\ [][OutboxNext]_outboxVars
=============================================================================
