CONSTANTS
  VS = VS
  Servers = {s1}
  Clients = {c1}
  Monitors = {m1}
SPECIFICATION FairSpec
PROPERTIES PingsAnswered
