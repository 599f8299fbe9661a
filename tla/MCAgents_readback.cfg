SPECIFICATION Spec
CONSTANTS
  Depth = 2
  Resumes <- GiveUp
  Capacity = 2
  MaxSaid = 2
  MaxCalls = 2
  MaxStops = 1
  MaxFaults = 1
INVARIANTS
  ReadBackExact
CHECK_DEADLOCK FALSE
