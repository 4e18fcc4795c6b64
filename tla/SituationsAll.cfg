SPECIFICATION Spec
CONSTANTS
  None = None Detached = Detached
  o1 = o1 main = main feature = feature t1 = t1 t2 = t2
  NMachines = 2
  NTrees = 2
  Origins = {o1}
  Branches = {main, feature}
  Tips = {t1, t2}
  Redacts <- OneRedacts
  Aspects <- SomeAspects
  Damaged = {1}
  MaxWork = 2
  Viewer = 2
SYMMETRY Names
CONSTRAINTS FirstHasOrigin FewWithheld OneFault
INVARIANTS StaleSaid CollisionSurfaced MismatchMutual CalmIsCalm NoTreeMissing SameSituations
