CONSTANTS
  k1 = k1  k2 = k2
  Self = 1
  Peers = {2}
  Keys <- TwoKeys
  Rings <- OnePeer
  MemoryTight = TRUE
  MaxViews = 2
SPECIFICATION FairSpec
INVARIANTS CleanerHoldsMutex OwnedOrStray LeaksNeedEmptyRing
PROPERTIES AnsweredUnlessLeaked LearnsView
CHECK_DEADLOCK FALSE
