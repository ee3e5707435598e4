\* The consumers of two agents; no call fails.
CONSTANTS
  r1 = r1
  Release = {r1}
  Pod = {p1}
  ReleaseOf <- OneRelease
  Named = {}
  MaxTime = 0
  Message = {m1}
  Text = {t1}
  Goroutine = {worker}
  Worker = worker
  Sweepers = {}
  Consumers = {k1, k2}
  None = None
  Job = {}
  Deployment = {}
  Container = {c1}
  PullError = {}
  BackOff = {}
  LogReply = {"no logs"}
  MaxEvents = 2
  Fallible = FALSE
  PostReply = {"ok"}
SPECIFICATION AgentSpec
INVARIANTS
  ConsumerNeverPanics
\* The pod deleted: nothing is left to do.
CHECK_DEADLOCK FALSE
