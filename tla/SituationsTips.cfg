SPECIFICATION Spec
CONSTANTS
  None = None Detached = Detached
  o1 = o1 main = main feature = feature t1 = t1 t2 = t2
  NMachines = 3
  NTrees = 1
  Origins = {o1}
  Branches = {main, feature}
  Tips = {t1, t2}
  Redacts <- Nothing
  Aspects <- FewAspects
  Damaged = {}
  MaxWork = 3
  Viewer = 1
SYMMETRY Names
INVARIANTS TipMismatchCued
