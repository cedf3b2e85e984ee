\* Three calls to two plugins, with one place in the queue.
CONSTANTS
  p1 = p1
  p2 = p2
  perm = perm
  NoPlugin = NoPlugin
  Calls = {c1, c2, c3}
  Plugins = {p1, p2}
  Permissions = {perm}
  Requests <- MCRequests
  MaxQueued = 1
SPECIFICATION FairSpec
CHECK_DEADLOCK FALSE
INVARIANTS
  TypeOK
  InvokesAsAsked
PROPERTIES
  ImplementsPluginCalls
  NothingTakenAfterStop
  EveryCallAnswered
  StopEnds
