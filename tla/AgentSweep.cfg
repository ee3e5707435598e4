\* The worker and a consumer beside a sweep, over two affected pods; no call of
\* Redis fails.  One message and one second: made again for ever within the last
\* second, an incident would keep its announcement ahead of its resolution.
CONSTANTS
  r1 = r1
  Release = {r1}
  Pod = {p1, p2}
  ReleaseOf <- OneRelease
  Named = {p2}
  MaxTime = 0
  Message = {m1}
  Text = {t1}
  Goroutine = {worker, sweep}
  Worker = worker
  Sweepers = {sweep}
  Consumers = {consumer}
  None = None
  Job = {}
  Deployment = {}
  Container = {c1}
  PullError = {}
  BackOff = {}
  LogReply = {"no logs"}
  MaxEvents = 2
  Fallible = FALSE
  PostReply = {"ok", "refused"}
SPECIFICATION FairAgentSpec
PROPERTIES
  AbandonedIsClosed
  QueuedIsTold
\* Every pod deleted and every incident closed: nothing is left to do.
CHECK_DEADLOCK FALSE
