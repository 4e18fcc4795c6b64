SPECIFICATION Spec
CONSTANTS
  None = None Detached = Detached
  o1 = o1 main = main feature = feature t1 = t1 t2 = t2
  NMachines = 2
  NTrees = 1
  Origins = {o1}
  Branches = {main}
  Tips = {t1, t2}
  Redacts <- Nothing
  Aspects <- EmptyAspects
  Damaged = {}
  MaxWork = 1
  Viewer = 1
SYMMETRY Names
INVARIANTS ErrorsKept
