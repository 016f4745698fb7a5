SPECIFICATION FluxFairSpec
CONSTANTS
  Callers = {c1, c2}
  Starter = starter
  None = none
  Disciplined = TRUE
INVARIANTS
  RejectionWins
  ResumedOnce
PROPERTIES
  ImplementsContract
  StartedDelivers
  HandlerServed
