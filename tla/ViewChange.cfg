CONSTANTS
  k1 = k1  k2 = k2  v1 = v1  v2 = v2
  Servers <- ThreeServers
  Keys <- TwoKeys
  Values <- TwoValues
  Writers <- OneWriterEach
  Stayers <- FirstTwo
  Leaver = 3
  CallsFail = TRUE
  MemoryTight = FALSE
  MaxVersion = 2
SYMMETRY SameValues
SPECIFICATION VSpec
INVARIANTS TypeOK SoleWriterLeads
PROPERTIES SoleWriterNeverLoses NewestAdopted SoleWriterKeeps
CHECK_DEADLOCK FALSE
