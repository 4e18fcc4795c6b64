SPECIFICATION DoctorSpec
CONSTANTS
  None = None Missing = Missing Corrupt = Corrupt Viewer = Viewer
  m1 = m1 m2 = m2 agent1 = agent1 smoke1 = smoke1 c1 = c1 c2 = c2
  Machines = {m1, m2}
  Procs = {agent1, smoke1}
  Agents = {agent1}
  Home <- OneHome
  Viewed = {}
  Contents = {c1, c2}
  Retries = 2
  Heartbeat = 1
  RemoteSeeded = TRUE
  Faulty <- AllButAbort
  MaxNow = 1
  MaxFaults = 1
  Where = m1
  FreshFor = 0
INVARIANTS IInv Serialized BacklogBounded OkMeansPublished
PROPERTIES NilMeansPublished FreshnessClock
CONSTRAINT QuietPeers
