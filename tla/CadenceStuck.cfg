SPECIFICATION CadenceFairSpec
CONSTANTS
  Interval = 1
  Heartbeat = 3
  StaleTTL = 6
  TickTimeout = 1
  EscalateAfter = 5
  RepeatEvery = 2
PROPERTIES StuckIsSaid
