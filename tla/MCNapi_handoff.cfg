SPECIFICATION MCSpec
CONSTANTS
  Objects = {o1, o2}
  Natives = {n1, n2}
  None = none
  MaxRefs = 1
  HandoffMayFail = TRUE
  Functions = {f1, f2, f3}
  Context = context
  Contexts = {c1, c2}
  Errors = {e1, e2}
  Native = native
  Value = value
  MaxCalls = 3
  Nested = FALSE
INVARIANT
  NativeDeletedOnce
