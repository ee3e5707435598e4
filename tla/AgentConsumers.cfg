\* The consumers of two agents, one of which has the worker; any call may fail.
CONSTANTS
  r1 = r1
  Release = {r1}
  Pod = {p1}
  ReleaseOf <- OneRelease
  Named = {}
  MaxTime = 0
  Message = {m1}
  Text = {t1}
  Goroutine = {worker}
  Worker = worker
  Sweepers = {}
  Consumers = {k1, k2}
  None = None
  Job = {r1}
  Deployment = {}
  Container = {c1}
  PullError = {}
  BackOff = {}
  LogReply = {"no logs", "stream error"}
  MaxEvents = 2
  Fallible = TRUE
  PostReply = {"ok", "lost reply", "refused", "bad status"}
SPECIFICATION AgentSpec
INVARIANTS
  HeldHaveEvents
PROPERTIES
  ImplementsOutbox
\* The pod deleted, the queue empty, the clock at its bound: nothing is left to do.
CHECK_DEADLOCK FALSE
