SPECIFICATION KilledFairSpec
CONSTANTS
  None = None Missing = Missing Corrupt = Corrupt Viewer = Viewer
  m1 = m1 m2 = m2 agent1 = agent1 agent2 = agent2 c1 = c1 c2 = c2
  Contents = {c1}
  Retries = 1
  Heartbeat = 1
  RemoteSeeded = TRUE
  Machines = {m1, m2}
  Procs = {agent1, agent2}
  Agents = {agent1, agent2}
  Home <- TwoHomes
  Viewed = {}
  Faulty <- RebaseFaults
  MaxNow = 0
  MaxFaults = 2
  Leaves = {"process"}
  MaxKills = 1
PROPERTIES EventuallyCurrent
