SPECIFICATION Spec
CONSTANTS
  Talking = {b0}
  Gens = {g1, g2}
  a0 = a0
  a1 = a1
  b0 = b0
  Keys <- MCKeys
  Peer <- MCPeer
  Openers = {o1, o2}
  None = None
SYMMETRY Perms
CHECK_DEADLOCK FALSE
INVARIANTS RefsCountConns NoOrphanConn StoppedIsEmpty NoStaleDelivery OfflineHeard
