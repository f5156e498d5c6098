CONSTANTS
  MaxCallers = 2
  Deltas <- MCDeltas
  MaxClock = 35
  MaxSamples = 1
  MaxSkews = 0
SPECIFICATION SteadySpec
INVARIANTS
  SteadyTime
CHECK_DEADLOCK FALSE
