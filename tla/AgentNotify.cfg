\* The worker beside a consumer; Redis answers, the Porter server may not.
\* Two messages: an incident opened again in its second is announced again only for
\* an event unlike the last; two events: so has one that was opened once.
CONSTANTS
  r1 = r1
  Release = {r1}
  Pod = {p1}
  ReleaseOf <- OneRelease
  Named = {}
  MaxTime = 1
  Message = {m1, m2}
  Text = {t1}
  Goroutine = {worker}
  Worker = worker
  Sweepers = {}
  Consumers = {consumer}
  None = None
  Job = {r1}
  Deployment = {}
  Container = {c1}
  PullError = {}
  BackOff = {}
  LogReply = {"no logs"}
  MaxEvents = 2
  Fallible = FALSE
  PostReply = {"ok", "lost reply", "refused"}
CONSTRAINT PodsStay
SYMMETRY Messages
SPECIFICATION AgentSpec
INVARIANTS
  NoNotificationLost
  ToldInOrder
  ResolvedSaysResolved
  ConsumerNeverPanics
PROPERTIES
  ImplementsOutbox
