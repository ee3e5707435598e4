----------------------------- MODULE Lifecycle -----------------------------
(***************************************************************************)
(* What the life of an incident looks like to the Porter server when no    *)
(* call fails: a release has one open incident at most; an incident is     *)
(* recorded and then announced while it is the open one, is closed only    *)
(* once it was announced, and its resolution is announced after that.      *)
(***************************************************************************)
CONSTANTS
  Release,
  Incident,    \* records with the release they belong to
  None

VARIABLES
  open,        \* the open incident of a release, or None
  history      \* what happened to an incident so far

lifecycleVars == <<open, history>>

Milestone == {"recorded", "new", "resolved"}

LifecycleInit ==
  /\ open = [r \in Release |-> None]
  /\ history = [i \in Incident |-> {}]

isOpen(i) == open[i.release] = i

Reached(i, milestone) ==
  /\ history' = [history EXCEPT ![i] = @ \cup {milestone}]
  /\ UNCHANGED open

Open(i) ==
  /\ open[i.release] = None
  /\ open' = [open EXCEPT ![i.release] = i]
  /\ UNCHANGED history

Record(i) == isOpen(i) /\ Reached(i, "recorded")

AnnounceNew(i) ==
  /\ isOpen(i)
  /\ "recorded" \in history[i]
  /\ Reached(i, "new")

Close(i) ==
  /\ isOpen(i)
  /\ "new" \in history[i]
  /\ open' = [open EXCEPT ![i.release] = None]
  /\ UNCHANGED history

AnnounceResolved(i) ==
  /\ ~isOpen(i)
  /\ "new" \in history[i]
  /\ Reached(i, "resolved")

LifecycleNext ==
  \E i \in Incident :
    \/ Open(i)
    \/ Record(i)
    \/ AnnounceNew(i)
    \/ Close(i)
    \/ AnnounceResolved(i)

LifecycleSpec == LifecycleInit /\ [][LifecycleNext]_lifecycleVars
=============================================================================
