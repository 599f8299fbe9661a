SPECIFICATION FairSpec
CONSTANTS
  Depth = 2
  Resumes <- GiveUpOrResume
  Capacity = 2
  MaxSaid = 1
  MaxCalls = 2
  MaxStops = 1
  MaxFaults = 1
INVARIANTS
  ToldOnce
  ReadBackAgrees
PROPERTIES
  WaitingEnds
CHECK_DEADLOCK FALSE
