CONSTANTS
  Key = {"k", "l"}
  SubKey = {}
  Value = {"a"}
  Empty = ""
  Nil = "nil"
  MaxSize = 1
  MaxOps = 4
  MaxStops = 0
  MaxCrashes = 0
SPECIFICATION Spec
INVARIANTS
  NothingLost
\* the bounds end the behaviour
CHECK_DEADLOCK FALSE
