CONSTANTS
  Servers = {s1, s2}
  Clients = {cpp}
  Pythons = {py}
  MaxViews = 3
SPECIFICATION FairSpec
PROPERTIES NewestViewServed ClientsRecover
