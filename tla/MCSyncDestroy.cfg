SPECIFICATION Spec
CONSTANTS
  ZombieLifetime = 1000
  Keys <- MCKeys
  SubKeys <- MCSubKeys
  SubAt <- MCSubAt
  Scenarios <- DestroyScenarios
INVARIANT NothingLost
