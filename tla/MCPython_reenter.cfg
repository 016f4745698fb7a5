SPECIFICATION MCSpec
CONSTANTS
  Types = {t1, t2}
  Objects = {o1, o2}
  Natives = {n1, n2, n3}
  Null = null
  MaxDepth = 2
  MaxRefs = 1
  Reenter = TRUE
  Errors = {e1, e2}
  None = none
  MaxArgs = 3
  MaxCalls = 2
  Swallows = FALSE
SYMMETRY Symmetric
INVARIANT
  NativesBalanced
