SPECIFICATION Spec
CONSTANTS
  c1 = c1
  h1 = h1
  Agg = Agg
  None = None
  Clients <- MCClient
  Handlers <- MCHandler
  Worlds <- MCOneWorld
  Loads <- MCOneLoad
  ChannelCap = 2
  RecentCap = 2
  MaxAlerts = 2
  MaxTime = 1
INVARIANTS
  TypeOK
  SamplesOfEpoch
  FeedInOrder
PROPERTIES
  BoardSpec
