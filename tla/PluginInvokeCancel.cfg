\* The code departs from the decision record here: TLC finds CancelEndsCall violated.
CONSTANTS
  MaxCalls = 1
  MayStray = FALSE
SPECIFICATION ThreadSpec
CHECK_DEADLOCK FALSE
PROPERTIES
  CancelEndsCall
