SPECIFICATION WalkSpec
CONSTANTS
  N = 4
  MaxChanges = 1
INVARIANTS NothingHidden NothingInvented
