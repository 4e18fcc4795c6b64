SPECIFICATION CheckSpec
CONSTANTS
  Truths <- Possible
  Moves <- AllMoves
  MaxMoves = 2
  MaxFaults = 2
INVARIANTS NothingMissed NoFalseAlarm ClearIsEarned VerdictJustified
