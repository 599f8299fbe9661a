SPECIFICATION Spec
CONSTANTS
  hello = hello
  more = more
  bye = bye
  Texts <- Words
  Speeches <- Again
  MaxTurns = 1
  MaxTroubles = 1
INVARIANTS
  NothingRepeated
CHECK_DEADLOCK FALSE
