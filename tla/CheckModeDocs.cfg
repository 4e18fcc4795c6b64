SPECIFICATION CheckSpec
CONSTANTS
  Truths <- Possible
  Moves = {}
  MaxMoves = 0
  MaxFaults = 1
INVARIANTS NotRelabeled KillsAreReported
