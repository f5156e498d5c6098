CONSTANTS
  Addr = {1, 2, 3}
  Pos = {1, 2, 3}
  Formed = {1, 2, 3}
  FirstPos <- MCFirstPos
  ZeroPos = 1
  MaxCrashes = 1
  MaxRestarts = 0
  MaxStops = 0
  MaxFailures = 0
  MaxMoves = 0
SPECIFICATION FairSpec
CONSTRAINT TwoCalls
PROPERTIES
  Convergence
\* when every process has died nothing is left to happen
CHECK_DEADLOCK FALSE
