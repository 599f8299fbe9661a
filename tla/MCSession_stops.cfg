SPECIFICATION PunctualSpec
CONSTANTS
  RetryLimit = 1
  Capacity = 8
  Permission <- Workspace
  Scenes <- Stops
INVARIANTS
  StoppedStaysStopped
  SentWhenAsked
  HeardAtRest
  NothingForgotten
  HonestResults
  OthersWait
PROPERTIES
  NoWriteWhenReadOnly
  InterruptionsEnd
  TurnsEndUnattended
CHECK_DEADLOCK FALSE
