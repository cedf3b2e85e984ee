\* The code departs from the decision record here: TLC finds KillIsReported violated.
CONSTANTS
  MaxCalls = 1
  MayStray = FALSE
SPECIFICATION Spec
CHECK_DEADLOCK FALSE
INVARIANTS
  KillIsReported
