CONSTANTS
  k1 = k1  v1 = v1  v2 = v2
  Servers <- ThreeServers
  Stayers <- ThreeServers
  Keys <- OneKey
  Values <- OneValue
  Writers <- FirstWriter
  CallsFail = FALSE
  MemoryTight = TRUE
  MaxVersion = 2
SPECIFICATION FairSpec
PROPERTIES EveryPeerServed
CHECK_DEADLOCK FALSE
