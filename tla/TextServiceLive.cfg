\* What must eventually happen, with every PostMessageW succeeding.
CONSTANTS
  Letters = {a}
  Sep = sep
  Docs = {d1}
  MaxInput = 2
  LastPage = 1
  MaxEvents = 4
  MaxBacklog = 2
  PostMayFail = FALSE
SPECIFICATION FairSpec
CHECK_DEADLOCK FALSE
INVARIANTS
  PendingIsServed
PROPERTIES
  PendingResolves
  FeedbackDrains
