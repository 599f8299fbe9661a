SPECIFICATION FairSpec
CONSTANTS
  hello = hello
  more = more
  bye = bye
  Texts <- Words
  Speeches <- Talk
  MaxTurns = 2
  MaxTroubles = 2
INVARIANTS
  SaidOnce
  SkippedStaysUnsaid
  NothingSwallowed
PROPERTIES
  EveryPieceEnds
CHECK_DEADLOCK FALSE
