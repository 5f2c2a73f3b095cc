SPECIFICATION FairSpec
CONSTANTS
  b1 = b1
  da = da
  db = db
  Conns = {a1, a2, b1}
  Destinations <- MCDestinations
  DestOf <- MCDestOf
  Managers = {m1, m2}
  NoManager = NoManager
  NoConn = NoConn
INVARIANTS
  RefsMatchHolders
  SessionOpenWhileHeld
  OpenSessionHasOwner
  PeerTableExact
  NoOrphanReader
PROPERTIES
  SharesOneSession
  ReleaseCompletes
  FailureReachesReaders
