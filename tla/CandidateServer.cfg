SPECIFICATION Spec
CHECK_DEADLOCK FALSE
CONSTANTS
  Config <- MCConfig
  FirstConfig <- MCFirst
  Torn = Torn
  Missing = Missing
  Savers = {s1, s2}
  Texts <- MCTexts
  FlushEvery = 2
  FirstLearned <- MCLearned
  Damaged = Damaged
  Absent = Absent
  Apps = {a1, a2}
  Asks <- MCAsks
  Dictionary <- MCDictionary
  Joined <- MCJoined
  ModelOrders <- MCModelOrders
  PageSize = 3
  ExpandedPages = 2
  RankedLimit = 16
  CacheSize = 2
  None = None
  Waiting = Waiting
  Failed = Failed
  MaxActs = 6
INVARIANTS
  UpdateOfItsRequest
  LearnedFirstStays
  NothingUnaccounted
  LearningSurvives
  ConfigLoadable
PROPERTIES
  AnswersUseLearning
  ClientsServed
  MonitorCatchesUp
