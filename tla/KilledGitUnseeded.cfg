SPECIFICATION KilledFairSpec
CONSTANTS
  None = None Missing = Missing Corrupt = Corrupt Viewer = Viewer
  m1 = m1 m2 = m2 agent1 = agent1 agent2 = agent2 c1 = c1 c2 = c2
  Contents = {c1, c2}
  Retries = 1
  Heartbeat = 1
  RemoteSeeded = FALSE
  Machines = {m1}
  Procs = {agent1}
  Agents = {agent1}
  Home <- SoloHome
  Viewed = {}
  Faulty = {}
  MaxNow = 1
  MaxFaults = 0
  Leaves = {}
  MaxKills = 0
PROPERTIES EventuallyCurrent
