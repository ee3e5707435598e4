\* One deployment with two pods; any call may fail, and logs may be unreadable.
CONSTANTS
  r1 = r1
  Release = {r1}
  Pod = {p1, p2}
  ReleaseOf <- OneRelease
  Named = {}
  MaxTime = 1
  Message = {m1, m2}
  Text = {t1}
  Goroutine = {worker}
  Worker = worker
  None = None
  Job = {}
  Deployment = {r1}
  Container = {c1, c2}
  PullError = {}
  BackOff = {m2}
  LogReply = {"no logs", "unavailable", "stream error"}
  MaxEvents = 2
  Fallible = TRUE
CONSTRAINT PodsStay
SYMMETRY Pods
SPECIFICATION Spec
INVARIANTS
  TypeOK
  OngoingIsActive
  NoticesHaveEvents
  AffectedHaveEvents
