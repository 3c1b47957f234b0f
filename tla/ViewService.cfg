CONSTANTS
  s1 = s1  s2 = s2
  NoServer = NoServer
  Servers <- TwoServers
  Positions = {1, 2}
  MaxJoins = 2
SPECIFICATION FairSpec
INVARIANTS TypeOK GroupsNonEmpty RingWithinView
PROPERTIES NumberIdentifiesView RegisteredDeadLeave ServersLearn
