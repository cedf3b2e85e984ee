\* The code departs from the decision record here: TLC finds StaleSessionEnds violated.
CONSTANTS
  p1 = p1
  p2 = p2
  perm = perm
  NoPlugin = NoPlugin
  Calls = {c1, c2}
  Plugins = {p1, p2}
  Permissions = {perm}
  Requests <- MCRequests
  MaxQueued = 1
SPECIFICATION FairSpec
CHECK_DEADLOCK FALSE
PROPERTIES
  StaleSessionEnds
