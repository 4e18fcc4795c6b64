SPECIFICATION KilledFairSpec
CONSTANTS
  None = None Missing = Missing Corrupt = Corrupt Viewer = Viewer
  m1 = m1 m2 = m2 agent1 = agent1 agent2 = agent2 c1 = c1 c2 = c2
  Contents = {c1}
  Retries = 1
  Heartbeat = 1
  RemoteSeeded = TRUE
  Machines = {m1}
  Procs = {agent1}
  Agents = {agent1}
  Home <- SoloHome
  Viewed = {m1}
  Faulty <- OnlyDeadline
  MaxNow = 0
  MaxFaults = 1
  Leaves = {"process", "lockFile"}
  MaxKills = 1
INVARIANTS PullSkipped
PROPERTIES SelfRecovers
