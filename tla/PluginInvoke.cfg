\* Three calls in one session, with a plugin that may misbehave.
CONSTANTS
  MaxCalls = 3
  MayStray = TRUE
SPECIFICATION FairSpec
CHECK_DEADLOCK FALSE
INVARIANTS
  TypeOK
  NothingLeftOver
  HonestOutcome
PROPERTIES
  KilledForCause
  AnswerEndsCall
