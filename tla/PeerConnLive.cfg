SPECIFICATION FairSpec
CONSTANTS
  r1 = r1
  r2 = r2
  d1 = d1
  d2 = d2
  g1 = g1
  g2 = g2
  NoLink = NoLink
  RelayLinks <- OneRelayLink
  I2PLinks <- OneI2PLink
  Retriers <- BothRetriers
  Controllers = {TRUE}
  WgMayFail = {}
CHECK_DEADLOCK FALSE
PROPERTIES
  DeadLinkNoticed
  RetryHappens
