SPECIFICATION FairSpec
CONSTANTS
  Clients = {c1, c2}
  Worker = worker
  None = none
  MaxDispatch = 2
  Misuse = TRUE
INVARIANTS
  TasksTouchedUnderGil
  ShutdownDrains
PROPERTIES
  TasksRun
  ShutdownReturns
