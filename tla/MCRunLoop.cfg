SPECIFICATION Spec
CONSTANTS
  Configs <- MCConfigs
  Periods <- MCPeriods
  MaxBindParams = 10
  Horizon = 10
INVARIANTS
  NoRowLostOrRepeated
  ProgressHonest
  StopBound
  RateBound
  NeverAheadOfClock
  TieGroups
PROPERTIES
  StopEnds
  FeedSpec
  RunSpec
