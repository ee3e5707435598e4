--------------------------- MODULE IncidentViews ---------------------------
(***************************************************************************)
(* The HTTP server (pkg/server/handlers/incidents.go): GET /incidents, GET *)
(* .../namespaces/:namespace/releases/:releaseName and GET                 *)
(* /incidents/:incidentID.  A request is a goroutine of its own and only   *)
(* reads; what it answers is put together from several reads, between      *)
(* which the other goroutines go on.                                       *)
(***************************************************************************)
EXTENDS IncidentStore, Sequences

CONSTANTS
  Readers,  \* the requests that are served at a time
  OtherKey  \* the text of a key that is no incident's ID

ASSUME ViewsAssumption ==
  /\ None \notin Event /\ None \notin {200, 404, 500}
  /\ OtherKey \notin Incident \cup {None}

VARIABLES
  rpc,      \* the read a request makes next
  toList,   \* incidents a list has still to look up
  asked,    \* the incident, or other key, a request is about, or None
  answer    \* what it answers, as far as it is known

viewVars == <<rpc, toList, asked, answer>>

\* status, and of a page the events listed and the one whose Timestamp is given as
\* updated_at.
Unanswered == [status |-> None, listed |-> {}, latest |-> None]

ViewsInit ==
  /\ rpc = [v \in Readers |-> "idle"]
  /\ toList = [v \in Readers |-> {}]
  /\ asked = [v \in Readers |-> None]
  /\ answer = [v \in Readers |-> Unanswered]

----------------------------------------------------------------------------
(* The keys of the database, as the segments between their colons.  Left    *)
(* out are those of single logs ("log:<incident>:<second>") and the agent's *)
(* creation timestamp: no pattern finds them, and as the ID of a page they  *)
(* end as other keys do.                                                    *)

KeyOf(i) == <<"incident", i.release, "namespace", i.at>>

Keys ==
  {KeyOf(i) : i \in {j \in Incident : IncidentExists(j)}}
    \cup {<<"pods">> \o KeyOf(i) : i \in {j \in Incident : pods[j] # {}}}
    \cup {<<"logs">> \o KeyOf(i) : i \in {j \in Incident : logs[j] # None}}
    \cup {<<"active_incident", r, "namespace">> : r \in {q \in Release : active[q] # None}}
    \cup {<<"pending">> : n \in pending}

(* KEYS "incident:*:*:*"; a star matches colons too. *)
Matches(key) == key[1] = "incident" /\ Len(key) >= 4

(* NewIncidentFromString succeeds. *)
Parses(key) == key[1] = "incident" /\ Len(key) = 4

----------------------------------------------------------------------------
(* Every error is a 500, and a panic is one for the framework recovers.     *)

Respond(v, status) ==
  /\ rpc' = [rpc EXCEPT ![v] = "answered"]
  /\ answer' = [answer EXCEPT ![v].status = status]
  /\ UNCHANGED <<toList, asked>>

NextRead(v, label) == rpc' = [rpc EXCEPT ![v] = label]

\* Mutant: the incidents the active_incident keys name are listed.
StartListOfActive(v) ==
  /\ rpc[v] = "idle"
  /\ NextRead(v, "list")
  /\ toList' = [toList EXCEPT ![v] = {active[r] : r \in Release} \ {None}]
  /\ UNCHANGED <<asked, answer>>

(* GetAllIncidents, and GetIncidentsByReleaseNamespace, whose pattern has   *)
(* the release in it.  A key that does not parse is a nil that the sort     *)
(* dereferences.                                                            *)
StartList(v) ==
  LET found == {key \in Keys : Matches(key)} IN
  /\ rpc[v] = "idle"
  /\ IF \A key \in found : Parses(key)
       THEN /\ NextRead(v, "list")
            /\ \E R \in {Release} \cup {{r} : r \in Release} :
                 toList' = [toList EXCEPT ![v] =
                   {i \in Incident : KeyOf(i) \in found /\ i.release \in R}]
            /\ UNCHANGED <<asked, answer>>
       ELSE Respond(v, 500)

(* The next turn of the loop: the incidents are sorted, the newest first.   *)
(* GetIncidentDetails begins with the test that the incident exists.        *)
ListNext(v) ==
  /\ rpc[v] = "list"
  /\ \/ toList[v] = {} /\ Respond(v, 200)
     \/ \E i \in toList[v] :
          /\ \A j \in toList[v] : j.at <= i.at
          /\ IF IncidentExists(i)
               THEN /\ NextRead(v, "listLatest")
                    /\ toList' = [toList EXCEPT ![v] = @ \ {i}]
                    /\ asked' = [asked EXCEPT ![v] = i]
                    /\ UNCHANGED answer
               ELSE Respond(v, 500)

(* The rest of GetIncidentDetails.  The state, which is read before, is not *)
(* kept: no other read depends on it.                                       *)
ListLatest(v) ==
  /\ rpc[v] = "listLatest"
  /\ IF events[asked[v]] = {}
       THEN Respond(v, 500)              \* latestEvent is nil
       ELSE NextRead(v, "list") /\ UNCHANGED <<toList, asked, answer>>

----------------------------------------------------------------------------
(* GetIncidentEventsByID: the test that the incident exists, the events,    *)
(* the affected pods (for the state, which is not kept here either), and    *)
(* the latest event.                                                        *)

(* The ID is any text of the URL, and EXISTS is true of any key.            *)
StartPage(v) ==
  /\ rpc[v] = "idle"
  /\ \/ /\ \E i \in Incident : IncidentExists(i) /\ asked' = [asked EXCEPT ![v] = i]
        /\ NextRead(v, "pageEvents")
        /\ UNCHANGED <<toList, answer>>
     \/ /\ \E key \in Keys : ~Parses(key)
        /\ asked' = [asked EXCEPT ![v] = OtherKey]
        /\ NextRead(v, "pageOther")
        /\ UNCHANGED <<toList, answer>>
     \/ Respond(v, 404)                 \* "invalid incident ID": there is no such key

(* The page of a key that is no incident's: the key is of another type than *)
(* ZRANGE reads, or its members are not the JSON of events, or it is gone   *)
(* by now and NewIncidentFromString refuses the ID.                         *)
PageOther(v) ==
  /\ rpc[v] = "pageOther"
  /\ Respond(v, 500)

PageEvents(v) ==
  /\ rpc[v] = "pageEvents"
  /\ answer' = [answer EXCEPT ![v].listed = events[asked[v]]]
  /\ NextRead(v, "pageLatest")
  /\ UNCHANGED <<toList, asked>>

\* Mutant: the set is read from its lower end.
PageOldest(v) ==
  /\ rpc[v] = "pageLatest"
  /\ rpc' = [rpc EXCEPT ![v] = "answered"]
  /\ \E e \in events[asked[v]] :
       /\ \A f \in events[asked[v]] : e.score <= f.score
       /\ answer' = [answer EXCEPT ![v].status = 200, ![v].latest = e]
  /\ UNCHANGED <<toList, asked>>

PageLatest(v) ==
  /\ rpc[v] = "pageLatest"
  /\ rpc' = [rpc EXCEPT ![v] = "answered"]
  /\ \/ /\ events[asked[v]] = {}
        /\ answer' = [answer EXCEPT ![v].status = 500]   \* latestEvent is nil
     \/ \E e \in LatestEvents(asked[v]) :
          answer' = [answer EXCEPT ![v].status = 200, ![v].latest = e]
  /\ UNCHANGED <<toList, asked>>

----------------------------------------------------------------------------

(* The answer is sent, or the client or a Redis call gives up before. *)
EndRequest(v) ==
  /\ rpc[v] = "answered" \/ (Fallible /\ rpc[v] # "idle")
  /\ rpc' = [rpc EXCEPT ![v] = "idle"]
  /\ toList' = [toList EXCEPT ![v] = {}]
  /\ asked' = [asked EXCEPT ![v] = None]
  /\ answer' = [answer EXCEPT ![v] = Unanswered]

ViewStep(v) ==
  \/ StartList(v)
  \/ ListNext(v)
  \/ ListLatest(v)
  \/ StartPage(v)
  \/ PageOther(v)
  \/ PageEvents(v)
  \/ PageLatest(v)
  \/ EndRequest(v)

----------------------------------------------------------------------------
(* A request that reads of an incident has one.                             *)
ViewsTypeOK ==
  /\ rpc \in [Readers -> {"idle", "list", "listLatest", "pageOther", "pageEvents", "pageLatest",
                          "answered"}]
  /\ toList \in [Readers -> SUBSET Incident]
  /\ asked \in [Readers -> Incident \cup {None, OtherKey}]
  /\ answer \in [Readers -> [status : {200, 404, 500, None},
                             listed : SUBSET Event, latest : Event \cup {None}]]
  /\ \A v \in Readers :
       rpc[v] \in {"listLatest", "pageEvents", "pageLatest"} => asked[v] \in Incident

(* As long as Redis answers, only a page of a key that is no incident's     *)
(* fails, which passes for one (pkg/redis/client.go:174): a list looks up   *)
(* only incidents that exist, a page of one that does not is not found, and *)
(* what KEYS finds can be read back.                                        *)
RequestsSucceed ==
  \A v \in Readers : answer[v].status = 500 => asked[v] = OtherKey

(* The updated_at of a page is not older than any event it lists, whatever  *)
(* was recorded between the two reads and however long the logs of an event *)
(* were streamed before it was recorded; only events recorded in one second *)
(* are in no order.                                                         *)
PageMovesForward ==
  \A v \in Readers : answer[v].latest # None =>
    \A e \in answer[v].listed :
      \/ e.timestamp <= answer[v].latest.timestamp
      \/ e.score = answer[v].latest.score

=============================================================================
