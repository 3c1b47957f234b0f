CONSTANTS
  k1 = k1  v1 = v1  v2 = v2
  Servers <- TwoServers
  Stayers <- TwoServers
  Keys <- OneKey
  Values <- OneValue
  Writers <- AnyWriter
  CallsFail = TRUE
  MemoryTight = FALSE
  MaxVersion = 2
SPECIFICATION Spec
PROPERTIES MergeCoversBoth
CHECK_DEADLOCK FALSE
