CONSTANTS
  k1 = k1  v1 = v1  v2 = v2
  Servers <- TwoServers
  Stayers <- TwoServers
  Keys <- OneKey
  Values <- TwoValues
  Writers <- FirstWriter
  CallsFail = FALSE
  MemoryTight = TRUE
  MaxVersion = 2
SPECIFICATION Spec
PROPERTIES NewestAdopted
CHECK_DEADLOCK FALSE
