SPECIFICATION CadenceSpec
CONSTANTS
  Interval = 2
  Heartbeat = 15
  StaleTTL = 30
  TickTimeout = 2
  EscalateAfter = 5
  RepeatEvery = 10
INVARIANTS WellIsFresh StaleIsSaid
