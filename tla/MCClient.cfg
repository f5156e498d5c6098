CONSTANTS
  Addr = {1, 2, 3}
  Pos = {0, 1, 2, 3, 4, 5, 6}
  Key = {0, 1}
  Redundancy = 2
  MinOwned = 1
  FirstPos <- MCFirstPos
  Scenarios <- MCScenarios
SPECIFICATION Spec
INVARIANTS
  Durable
  ReadsAreFresh
  MergesAreRight
PROPERTIES
  LoopsMoveForward
  Converges
\* the loops of an even cluster have nothing to do
CHECK_DEADLOCK FALSE
