SPECIFICATION FairSpec
CONSTANTS
  Ring = 2
  Lines = 2
  Careful <- BothKinds
  MaxEvents = 3
  MaxCommands = 1
  MaxStops = 1
  MaxSubs = 3
  MaxWishes = 1
INVARIANTS
  NoGapNoOverlap
  ResultsBeforeReply
  Handover
PROPERTIES
  CatchesUp
CHECK_DEADLOCK FALSE
