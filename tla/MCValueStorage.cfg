SPECIFICATION Spec
CONSTANTS
  Optionals = {o1, o2, o3}
  Storages = {n1, n2, n3}
  Foreign = {x1, x2}
  Null = null
SYMMETRY Symmetric
INVARIANTS
  LifetimesMatch
