CONSTANTS
  ZombieLifetime = 10
  Keys <- MCKeys
  SubKeys <- MCSubKeys
  SubAt <- MCSubAt
  Vals <- MCVals
  RangeKeys <- MCRangeKeys
  FirstPuts <- MCFirstPuts
  MaxOps <- MCMaxOps
  MaxElapse = 1
  setOpBufferSize = 2
SPECIFICATION Spec
VIEW MCView
INVARIANTS
  SizesAreRight
  RangesAreRight
  IndicesAreRight
  MirrorAgrees
  MirrorReadsAreRight
  PagesAreRight
PROPERTIES
  ImplementsKeyMap
\* no operation is left within the bound
CHECK_DEADLOCK FALSE
