\* The code departs from the decision record here: TLC finds PagingDisabledWhilePending violated.
CONSTANTS
  Letters = {a}
  Sep = sep
  Docs = {d1}
  MaxInput = 2
  LastPage = 1
  MaxEvents = 4
  MaxBacklog = 2
  PostMayFail = FALSE
SPECIFICATION Spec
CHECK_DEADLOCK FALSE
PROPERTIES
  PagingDisabledWhilePending
