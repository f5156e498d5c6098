CONSTANTS
  Addr = {1, 2}
  Pos = {1, 2}
  Formed = {1, 2}
  FirstPos <- MCFirstPos
  ZeroPos = 1
  MaxCrashes = 1
  MaxRestarts = 1
  MaxStops = 1
  MaxFailures = 1
  MaxMoves = 1
SPECIFICATION Spec
CONSTRAINT Small
INVARIANTS
  IInv
  TypeOK
  OneRemotePerAddress
  RingNeverEmpty
  KeepsItself
  PanicOnlyAfterJoin
\* when every process has died nothing is left to happen
CHECK_DEADLOCK FALSE
