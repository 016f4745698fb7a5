SPECIFICATION Spec
CONSTANTS
  int = int
  str = str
  obj = obj
  a = a
  b = b
  Params <- MCParams
  Descriptors = {obj}
  Consuming = {str}
  Values = {a, b}
  Sentinel = sentinel
  Moved = moved
  Accepts <- MCAccepts
  Refuses <- MCRefuses
  Tables <- MCTables
  MaxArgs = 2
INVARIANTS
  FirstViableWins
  FailedCandidateConsumesNothing
  ProbeIsBinding
