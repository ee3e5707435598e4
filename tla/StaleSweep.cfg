\* A sweep beside the worker; no call fails.
CONSTANTS
  r1 = r1
  Release = {r1}
  Pod = {p1, p2}
  ReleaseOf <- OneRelease
  Named = {}
  MaxTime = 1
  Message = {m1}
  Text = {t1}
  Goroutine = {worker, sweep}
  Worker = worker
  Sweepers = {sweep}
  Consumers = {}
  None = None
  Job = {}
  Deployment = {}
  Container = {c1}
  PullError = {}
  BackOff = {}
  LogReply = {"no logs"}
  MaxEvents = 2
  Fallible = FALSE
  PostReply = {"ok", "lost reply", "refused"}
SPECIFICATION AgentSpec
PROPERTIES
  OnlyHealthyIncidentsClose
\* Every pod deleted: nothing is left to do.
CHECK_DEADLOCK FALSE
