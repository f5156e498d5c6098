SPECIFICATION Spec
CONSTANTS
  ZombieLifetime = 1000
  Keys <- MCKeys
  SubKeys <- MCSubKeys
  SubAt <- MCSubAt
  Scenarios <- MCScenarios
INVARIANTS
  NewestWins
  NothingLost
PROPERTIES
  MovesForward
