SPECIFICATION FairSpec
CONSTANTS
  Servers = {s1, s2}
  UrlLists = {{s1, s2}, {s1}}
  Clients = {c1,c2}
  Guards = {g1,g2}
  Foreign = {s1}
  ForeignClients = {f1}
  MaxOwed = 1
  None = None
PROPERTY HomeAlwaysReconnects
