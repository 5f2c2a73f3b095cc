SPECIFICATION FairSpec
CONSTANTS
  Servers = {s1, s2}
  Foreign = {s1}
  Clients = {c1, c2}
  Openers = {o1, o2}
  None = None
INVARIANTS
  CleanUpSparesUsed
  LiveClientTracked
PROPERTIES
  OpenCompletes
  DeadClientLeavesCache
