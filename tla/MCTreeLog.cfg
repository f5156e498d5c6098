CONSTANTS
  Key = {"k", "l"}
  SubKey = {"s", "t"}
  Value = {"a", "b"}
  Empty = ""
  Nil = "nil"
  EmptyValue = "empty"
  MaxOps = 4
  MaxTombstones = 1
SPECIFICATION Spec
INVARIANTS
  DataSurvives
\* the bound on the log ends the behaviour
CHECK_DEADLOCK FALSE
