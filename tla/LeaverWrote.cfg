CONSTANTS
  k1 = k1  k2 = k2  v1 = v1  v2 = v2
  Servers <- ThreeServers
  Keys <- OneKey
  Values <- TwoValues
  Writers <- LastWrites
  Stayers <- FirstTwo
  Leaver = 3
  CallsFail = TRUE
  MemoryTight = FALSE
  MaxVersion = 2
SPECIFICATION VFairSpec
PROPERTIES ResolvedAfterLeaving
CHECK_DEADLOCK FALSE
