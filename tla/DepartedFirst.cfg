CONSTANTS
  k1 = k1  k2 = k2  v1 = v1  v2 = v2
  Servers <- ThreeServers
  Keys <- OneKey
  Values <- TwoValues
  Writers <- FirstTwoWrite
  Stayers <- LastTwo
  Leaver = 1
  CallsFail = TRUE
  MemoryTight = FALSE
  MaxVersion = 1
SPECIFICATION VFairSpec
PROPERTIES PeersServedAfterLeaving
CHECK_DEADLOCK FALSE
