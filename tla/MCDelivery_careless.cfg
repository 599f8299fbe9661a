SPECIFICATION Spec
CONSTANTS
  Ring = 2
  Lines = 2
  Careful <- Careless
  MaxEvents = 3
  MaxCommands = 1
  MaxStops = 0
  MaxSubs = 2
  MaxWishes = 1
INVARIANTS
  SubscribedIsPushed
CHECK_DEADLOCK FALSE
