SPECIFICATION FairSpec
CONSTANTS
  PauseFailures = 1
  PauseRefills = 2
  PauseTurns = 2
  RetryLimit = 1
  Tails = {0, 1}
  Bounds <- Scenes
INVARIANTS
  ToldOnceAndAll
  ReloadAgrees
  CompactionsCease
PROPERTIES
  Rests
CHECK_DEADLOCK FALSE
