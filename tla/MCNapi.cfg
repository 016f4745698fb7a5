SPECIFICATION MCFairSpec
CONSTANTS
  Objects = {o1, o2, o3}
  Natives = {n1, n2, n3}
  None = none
  MaxRefs = 2
  HandoffMayFail = FALSE
  Functions = {f1, f2, f3}
  Context = context
  Contexts = {c1, c2}
  Errors = {e1, e2}
  Native = native
  Value = value
  MaxCalls = 3
  Nested = FALSE
INVARIANTS
  NativeDeletedOnce
  NothingLeaks
  ReferenceReleasedOnce
  DataDestroyedOnce
  HandlesInScope
PROPERTIES
  ExitReclaims
  JsErrorReachesCaller
