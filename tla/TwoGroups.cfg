CONSTANTS
  k1 = k1  k2 = k2
  Self = 1
  Peers = {2, 3}
  Keys <- TwoKeys
  Rings <- TwoGroups
  MemoryTight = FALSE
  MaxViews = 2
SPECIFICATION Spec
PROPERTIES DiffsKept
