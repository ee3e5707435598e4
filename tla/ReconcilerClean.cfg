\* One deployment with two pods; no call fails, and the cap on events is reached.
CONSTANTS
  r1 = r1
  Release = {r1}
  Pod = {p1, p2}
  ReleaseOf <- OneRelease
  Named = {}
  MaxTime = 1
  Message = {m1, m2}
  Text = {t1, t2}
  Goroutine = {worker}
  Worker = worker
  None = None
  Job = {}
  Deployment = {r1}
  Container = {c1}
  PullError = {}
  BackOff = {}
  LogReply = {t1, t2, "no logs"}
  MaxEvents = 2
  Fallible = FALSE
CONSTRAINT PodsStay
SYMMETRY Pods
SPECIFICATION Spec
INVARIANTS
  EveryIncidentAnnounced
  ResolutionQueued
  EventsExpire
  ActiveExists
  EventsCapped
PROPERTIES
  FollowsLifecycle
