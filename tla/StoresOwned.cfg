CONSTANTS
  k1 = k1  k2 = k2
  Self = 1
  Peers = {2}
  Keys <- OneKey
  Rings <- OneKeyRings
  MemoryTight = FALSE
  MaxViews = 2
SPECIFICATION Spec
PROPERTIES StoresOwned
