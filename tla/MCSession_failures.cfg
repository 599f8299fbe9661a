SPECIFICATION Spec
CONSTANTS
  RetryLimit = 1
  Capacity = 3
  Permission <- Workspace
  Scenes <- Failures
INVARIANTS
  NeverRefused
  EveryCommandAnswered
  AnsweredSurvives
  EffectOnce
  RunsAreOnRecord
  InterruptedNotResumed
  ResumesBounded
PROPERTIES
  KeepsJournal
CHECK_DEADLOCK FALSE
