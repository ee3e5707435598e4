\* Two pods that fail alike, one after the other; no call fails.
CONSTANTS
  r1 = r1
  Release = {r1}
  Pod = {p1, p2}
  ReleaseOf <- OneRelease
  Named = {}
  MaxTime = 0
  Message = {m1}
  Text = {t1}
  Goroutine = {worker}
  Worker = worker
  None = None
  Job = {}
  Deployment = {}
  Container = {c1}
  PullError = {}
  BackOff = {}
  LogReply = {"no logs"}
  MaxEvents = 2
  Fallible = FALSE
SPECIFICATION HealthSpec
PROPERTIES
  AllPodsHealthyOnClose
\* Every pod deleted: nothing is left to do.
CHECK_DEADLOCK FALSE
