SPECIFICATION CadenceSpec
CONSTANTS
  Interval = 1
  Heartbeat = 4
  StaleTTL = 10
  TickTimeout = 4
  EscalateAfter = 5
  RepeatEvery = 2
INVARIANTS CalmWhenUnwarned
