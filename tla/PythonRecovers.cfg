CONSTANTS
  Servers = {s1, s2}
  Clients = {}
  Pythons = {py}
  MaxViews = 2
SPECIFICATION FairSpec
PROPERTIES PythonsRecover
