SPECIFICATION Spec
CONSTANTS
  Sessions = {s1}
  NoSession = none
  Queries = {q1, q2}
  SegmentLimit = 3
  Bounds <- Scenes
SYMMETRY Asking
INVARIANT JournalIsRead
CHECK_DEADLOCK FALSE
