CONSTANTS
  MaxCallers = 2
  Deltas <- MCDeltas
  MaxClock = 10
  MaxSamples = 2
  MaxSkews = 1
SPECIFICATION FairSpec
INVARIANTS
  AdjustedOnce
PROPERTIES
  SampleEnds
\* the clock is bounded, and goroutines can block each other
CHECK_DEADLOCK FALSE
