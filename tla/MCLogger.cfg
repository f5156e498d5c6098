CONSTANTS
  Key = {"k"}
  SubKey = {}
  Value = {"a", "b"}
  Empty = ""
  Nil = "nil"
  MaxSize = 1
  MaxOps = 4
  MaxStops = 1
  MaxCrashes = 1
SPECIFICATION FairSpec
INVARIANTS
  TypeOK
  FilesAreSafe
  NothingLostWithOneSnapshot
PROPERTIES
  RecorderListens
\* the bounds end the behaviour
CHECK_DEADLOCK FALSE
