SPECIFICATION FairSpec
CONSTANTS
  Systems <- Both
  MaxInstalls = 2
  MaxEvents = 4
  MaxTries = 2
INVARIANTS GoneForGood NotInstalledIsTrue
PROPERTIES AgentStays
CHECK_DEADLOCK FALSE
