------------------------------ MODULE Notifier ------------------------------
(***************************************************************************)
(* EventConsumer.Start (pkg/consumer/events.go): at every pulse it takes   *)
(* the oldest notification off the queue and posts the incident to the     *)
(* Porter server, and puts it back when that fails.  A notification is     *)
(* nowhere but in the goroutine's memory in between.  Every agent runs a   *)
(* consumer, elected or not.                                               *)
(***************************************************************************)
EXTENDS IncidentStore

CONSTANTS
  Consumers,  \* the goroutines that consume
  PostReply   \* how a POST to the Porter server can end

Ok == "ok"
LostReply == "lost reply"    \* processed, but the three seconds' timeout hits
Refused == "refused"         \* not processed, an error of the HTTP client
BadStatus == "bad status"    \* not processed, and answered with a 4xx or 5xx

ASSUME NotifierAssumption ==
  /\ PostReply \subseteq {Ok, LostReply, Refused, BadStatus}
  /\ None \notin Notice

VARIABLES
  cpc,    \* where a consumer is
  held,   \* the notification it took off the queue, with its score
  state   \* LatestState of the incident it is about to post

(* History: the notifications the server processed, with the state posted.  *)
VARIABLE told

consumerVars == <<cpc, held, state, told>>

NotifierInit ==
  /\ cpc = [c \in Consumers |-> "waiting"]
  /\ held = [c \in Consumers |-> None]
  /\ state = [c \in Consumers |-> None]
  /\ told = {}

(* The end of a turn of the loop. *)
AwaitPulse(c) ==
  /\ cpc' = [cpc EXCEPT ![c] = "waiting"]
  /\ held' = [held EXCEPT ![c] = None]
  /\ state' = [state EXCEPT ![c] = None]

\* Mutant: without the test that something is pending.
CheckPendingUnchecked(c) ==
  /\ cpc[c] = "waiting"
  /\ cpc' = [cpc EXCEPT ![c] = "popping"]
  /\ UNCHANGED <<held, state, told, queueVars>>

(* GetItemFromPendingQueue: EXISTS, *)
CheckPending(c) ==
  /\ cpc[c] = "waiting"
  /\ pending # {}
  /\ cpc' = [cpc EXCEPT ![c] = "popping"]
  /\ UNCHANGED <<held, state, told, queueVars>>

(* and ZPOPMIN: the lowest score, and of equal scores the first by the text *)
(* of the member: "new:" comes before "resolved:", and of one release the   *)
(* earlier incident.  Releases sort by name, which is left open.            *)
Precedes(m, n) ==
  \/ m.score < n.score
  \/ /\ m.score = n.score
     /\ \/ m.kind = "new" /\ n.kind = "resolved"
        \/ /\ m.kind = n.kind
           /\ m.incident.release = n.incident.release
           /\ m.incident.at < n.incident.at

Oldest == {n \in pending : \A m \in pending : ~Precedes(m, n)}

\* Mutant: ZPOPMIN takes all there is, and the first of it is used.
PopPendingAll(c) ==
  /\ cpc[c] = "popping"
  /\ \/ /\ pending = {}
        /\ cpc' = [cpc EXCEPT ![c] = "panic"]
        /\ UNCHANGED <<held, pending>>
     \/ \E n \in Oldest :
          /\ held' = [held EXCEPT ![c] = n]
          /\ pending' = {}
          /\ cpc' = [cpc EXCEPT ![c] = "details"]
  /\ UNCHANGED <<state, told, queued>>

(* The first member of an empty answer is indexed all the same. *)
PopPending(c) ==
  /\ cpc[c] = "popping"
  /\ \/ /\ pending = {}
        /\ cpc' = [cpc EXCEPT ![c] = "panic"]
        /\ UNCHANGED <<held, pending>>
     \/ \E n \in Oldest :
          /\ held' = [held EXCEPT ![c] = n]
          /\ pending' = pending \ {n}
          /\ cpc' = [cpc EXCEPT ![c] = "details"]
  /\ UNCHANGED <<state, told, queued>>

(* GetIncidentDetails.  One step: within the horizon an incident that exists *)
(* goes on existing, so only the read of its pods is one that can change.    *)
GetIncidentDetails(c) ==
  /\ cpc[c] = "details"
  /\ IF IncidentExists(held[c].incident)
       THEN /\ cpc' = [cpc EXCEPT ![c] = "posting"]
            /\ state' = [state EXCEPT ![c] =
                           IF pods[held[c].incident] = {} THEN "RESOLVED" ELSE "ONGOING"]
            /\ UNCHANGED held
       ELSE AwaitPulse(c)              \* dropped: "non-existent incident"
  /\ UNCHANGED <<told, queueVars>>

\* Mutant: every payload is posted to notify_new.
TellNew(c) ==
  told' = told \cup {[kind |-> "new", incident |-> held[c].incident, state |-> state[c]]}

\* How the server's processing of c's notification is recorded.
Tell(c) ==
  told' = told \cup {[kind |-> held[c].kind, incident |-> held[c].incident, state |-> state[c]]}

\* Mutant: an error of the HTTP client is only logged.
PostNotificationOnce(c) ==
  /\ cpc[c] = "posting"
  /\ \E reply \in PostReply : IF reply \in {Ok, LostReply} THEN Tell(c) ELSE UNCHANGED told
  /\ AwaitPulse(c)
  /\ UNCHANGED queueVars

(* httpClient.Post; the status of an answer is not looked at. *)
PostNotification(c) ==
  /\ cpc[c] = "posting"
  /\ \E reply \in PostReply :
       /\ IF reply \in {Ok, LostReply} THEN Tell(c) ELSE UNCHANGED told
       /\ IF reply \in {LostReply, Refused}
            THEN cpc' = [cpc EXCEPT ![c] = "requeue"] /\ UNCHANGED <<held, state>>
            ELSE AwaitPulse(c)
  /\ UNCHANGED queueVars

\* Mutant: nothing is put back.
RequeueForgotten(c) ==
  /\ cpc[c] = "requeue"
  /\ AwaitPulse(c)
  /\ UNCHANGED <<told, queueVars>>

\* Mutant: put back as if it were appended now.
RequeueItemNow(c) ==
  /\ cpc[c] = "requeue"
  /\ ZAddPending(held[c].kind, held[c].incident, now)
  /\ AwaitPulse(c)
  /\ UNCHANGED <<told, queued>>

RequeueItemWithScore(c) ==
  /\ cpc[c] = "requeue"
  /\ ZAddPending(held[c].kind, held[c].incident, held[c].score)
  /\ AwaitPulse(c)
  /\ UNCHANGED <<told, queued>>

(* A Redis call answers with an error.  Only while the details are read does *)
(* the notification have a way back to the queue.                           *)
ConsumerCallFails(c) ==
  /\ Fallible
  /\ \/ cpc[c] \in {"popping", "requeue"} /\ AwaitPulse(c)
     \/ cpc[c] = "details" /\ cpc' = [cpc EXCEPT ![c] = "requeue"] /\ UNCHANGED <<held, state>>
  /\ UNCHANGED <<told, queueVars>>

(* The agent crashes and is started again. *)
RestartConsumer(c) ==
  /\ Fallible
  /\ cpc[c] # "waiting"
  /\ AwaitPulse(c)
  /\ UNCHANGED <<told, queueVars>>

ConsumerStep(c) ==
  \/ CheckPending(c)
  \/ PopPending(c)
  \/ GetIncidentDetails(c)
  \/ PostNotification(c)
  \/ RequeueItemWithScore(c)
  \/ ConsumerCallFails(c)
  \/ RestartConsumer(c)

----------------------------------------------------------------------------
(* A consumer past the queue holds a notification, and one that posts knows *)
(* the state to post.                                                       *)
NotifierTypeOK ==
  /\ cpc \in [Consumers -> {"waiting", "popping", "panic", "details", "posting", "requeue"}]
  /\ held \in [Consumers -> Notice \cup {None}]
  /\ state \in [Consumers -> {"RESOLVED", "ONGOING", None}]
  /\ told \subseteq [kind : {"new", "resolved"}, incident : Incident,
                      state : {"RESOLVED", "ONGOING"}]
  /\ \A c \in Consumers :
       /\ cpc[c] \in {"details", "posting", "requeue"} => held[c] \in Notice
       /\ cpc[c] = "posting" => state[c] \in {"RESOLVED", "ONGOING"}

=============================================================================
