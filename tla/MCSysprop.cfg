SPECIFICATION Spec
CONSTANTS
  Keys <- MCKeys
  DEFAULT_CONTEXT = 0
  PRE_SPLIT_CONTEXT = 9
  Devices <- MCDevices
  Paths <- MCPaths
  Values = {1, 2}
  Capacity = 2
  MaxKills = 1
  MaxFaults = 1
INVARIANTS
  TypeOK
  LongestFirst
  SplitFindsBestRule
  TrieFindsBestRule
  ListShowsWhatGetFinds
  CompactReachesAll
  BothStoresAgree
  NotFoundChangesNothing
PROPERTIES
  FileFollowsArea
CHECK_DEADLOCK FALSE
