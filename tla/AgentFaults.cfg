\* The worker beside a sweep; any call may fail and either may be cut short.
CONSTANTS
  r1 = r1
  Release = {r1}
  Pod = {p1, p2}
  ReleaseOf <- OneRelease
  Named = {}
  MaxTime = 1
  Message = {m1}
  Text = {t1}
  Goroutine = {worker, sweep}
  Worker = worker
  Sweepers = {sweep}
  Consumers = {}
  None = None
  Job = {}
  Deployment = {}
  Container = {c1}
  PullError = {}
  BackOff = {}
  LogReply = {"no logs", "stream error"}
  MaxEvents = 2
  Fallible = TRUE
  PostReply = {"ok", "lost reply", "refused"}
SYMMETRY Pods
SPECIFICATION AgentSpec
INVARIANTS
  AgentTypeOK
  NoticesHaveEvents
  ActiveIsNewest
\* Every pod deleted and the clock at its bound: nothing is left to do.
CHECK_DEADLOCK FALSE
