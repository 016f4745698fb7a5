SPECIFICATION Spec
CONSTANTS
  Producers = {p1}
  Loop = loop
  MaxDispatch = 3
  RoundSize = 2
  CloseOnLoop = FALSE
  LateDispatch = FALSE
INVARIANT
  NoUseAfterFree
