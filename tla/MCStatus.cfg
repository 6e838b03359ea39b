SPECIFICATION Spec
CONSTANTS
  c1 = c1
  h1 = h1
  Agg = Agg
  None = None
  Clients <- MCClient
  Handlers <- MCHandler
  Worlds <- MCWorlds
  Loads <- MCOneLoad
  ChannelCap = 2
  RecentCap = 2
  MaxAlerts = 1
  MaxTime = 0
PROPERTIES
  StatusConverges
