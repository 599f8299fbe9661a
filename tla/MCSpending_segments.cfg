SPECIFICATION Spec
CONSTANTS
  Sessions = {s1}
  NoSession = none
  Queries = {q1, q2}
  SegmentLimit = 2
  Bounds <- Scenes
SYMMETRY Asking
INVARIANT UsageKept
CHECK_DEADLOCK FALSE
