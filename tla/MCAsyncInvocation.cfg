SPECIFICATION ThreadFairSpec
CONSTANTS
  Callers = {c1, c2, c3}
  Starter = starter
  None = none
  Disciplined = FALSE
INVARIANTS
  DeliveredAtMostOnce
  ResourcesAlive
  AccessReleasedBeforeTerminal
  SlotsExclusive
  NoLostCleanup
PROPERTIES
  DetachDelivers
