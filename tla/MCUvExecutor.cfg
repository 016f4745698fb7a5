SPECIFICATION FairSpec
CONSTANTS
  Producers = {p1, p2}
  Loop = loop
  MaxDispatch = 2
  RoundSize = 2
  CloseOnLoop = TRUE
  LateDispatch = TRUE
INVARIANTS
  NoTaskLost
  NoUseAfterFree
PROPERTIES
  TasksRun
