CONSTANTS
  VS = VS
  Servers = {s1, s2}
  Clients = {c1}
  Monitors = {m1}
SPECIFICATION FairSpec
INVARIANTS CirclesAreCrossed
PROPERTIES AnsweredUnlessCrossed
