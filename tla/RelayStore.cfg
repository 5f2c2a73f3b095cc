SPECIFICATION Spec
CONSTANTS
  Sessions <- Three
  Ids <- OnePeer
  IdOf <- ThreeOfP
  ChannelOf <- Reconnecting
  Cap = 2
CHECK_DEADLOCK FALSE
INVARIANTS
  OpenIsStored
  ShutdownLeavesNone
  OfflineOnItsWay
