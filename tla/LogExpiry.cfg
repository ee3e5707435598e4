\* One pod with logs; no call fails.
CONSTANTS
  r1 = r1
  Release = {r1}
  Pod = {p1}
  ReleaseOf <- OneRelease
  Named = {}
  MaxTime = 0
  Message = {m1}
  Text = {t1}
  Goroutine = {worker}
  Worker = worker
  None = None
  Job = {}
  Deployment = {}
  Container = {c1}
  PullError = {}
  BackOff = {}
  LogReply = {t1}
  MaxEvents = 2
  Fallible = FALSE
SPECIFICATION Spec
INVARIANTS
  LogsExpire
\* The pod deleted: nothing is left to do.
CHECK_DEADLOCK FALSE
