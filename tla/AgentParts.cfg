\* The HTTP server beside a worker whose calls do not fail; a pod of two
\* containers; the elections and crashes of two agents; the pulsar.
CONSTANTS
  r1 = r1
  Release = {r1}
  Pod = {p1}
  ReleaseOf <- OneRelease
  Named = {}
  MaxTime = 1
  Message = {m1, m2}
  Text = {t1}
  Goroutine = {worker}
  Worker = worker
  Sweepers = {}
  Consumers = {}
  Readers = {v1}
  OtherKey = OtherKey
  None = None
  Job = {r1}
  Deployment = {}
  Container = {c1}
  PullError = {}
  BackOff = {}
  LogReply = {"no logs"}
  MaxEvents = 2
  Fallible = FALSE
  PostReply = {"ok"}
  Containers = {main, side}
  Sidecars = {side}
  Ending <- Endings
  KubeEvent = {"Killing"}
  Grace = 1
  Horizon = 2
  Agents = {a1, a2}
  NoAgent = NoAgent
  Unset = Unset
  LastTime = 2
SPECIFICATION PartsSpec
INVARIANTS
  PartsTypeOK
  RequestsSucceed
  PageMovesForward
  ResolvesOnlyHealthy
PROPERTIES
  RetriesAreNotNews
  AgentsAgree
  NoPulseAfterStop
  StopEndsLoop
\* The clock at its bound, the agents started: nothing is left for some parts to do.
CHECK_DEADLOCK FALSE
