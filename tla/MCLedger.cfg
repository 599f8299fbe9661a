SPECIFICATION MCSpec
CONSTANTS
  Kinds <- AllKinds
  MaxSeq = 9
  MaxCalls = 2
INVARIANTS
  TypeOK
  OneResultPerCall
  RedoMatchesUndo
  CountsWhatIsLive
  WithdrawnUnheard
  TriggersUsedOnce
CHECK_DEADLOCK FALSE
