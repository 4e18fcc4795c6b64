SPECIFICATION DoctorSpec
CONSTANTS
  None = None Missing = Missing Corrupt = Corrupt Viewer = Viewer
  m1 = m1 m2 = m2 agent1 = agent1 smoke1 = smoke1 c1 = c1 c2 = c2
  Machines = {m1, m2}
  Procs = {agent1}
  Agents = {agent1}
  Home <- SoloHome
  Viewed = {}
  Contents = {c1}
  Retries = 1
  Heartbeat = 1
  RemoteSeeded = TRUE
  Faulty <- RaceFaults
  MaxNow = 1
  MaxFaults = 2
  Where = m1
  FreshFor = 1
INVARIANTS OkAlwaysMeansPublished NoneLeftBehind
