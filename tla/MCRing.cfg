CONSTANTS
  Addr = {1, 2, 3}
  Pos = {0, 1, 2, 3}
SPECIFICATION Spec
VIEW MCView
INVARIANTS
  ValidRing
  NeighboursAreRight
  ByteIndicesAreRight
PROPERTIES
  ImplementsRingSet
  CleanRemovesBetween
\* Remove of the last remote panics: nothing runs after it
CHECK_DEADLOCK FALSE
