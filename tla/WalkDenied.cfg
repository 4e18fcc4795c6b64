SPECIFICATION WalkSpec
CONSTANTS
  N = 3
  MaxChanges = 0
INVARIANTS EveryEntryCounts
