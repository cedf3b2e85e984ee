\* Safety, with PostMessageW allowed to fail.
CONSTANTS
  Letters = {a}
  Sep = sep
  Docs = {d1, d2}
  MaxInput = 2
  LastPage = 1
  MaxEvents = 5
  MaxBacklog = 2
  PostMayFail = TRUE
SPECIFICATION Spec
SYMMETRY Symmetry
CHECK_DEADLOCK FALSE
INVARIANTS
  TypeOK
  CommittableIsCurrent
  DeferralIsForThisComposition
  RequestsBounded
  ContextOfFocusedDocument
  LearnedInOrder
