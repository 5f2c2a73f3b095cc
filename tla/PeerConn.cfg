SPECIFICATION Spec
CONSTANTS
  r1 = r1
  r2 = r2
  d1 = d1
  d2 = d2
  g1 = g1
  g2 = g2
  NoLink = NoLink
  RelayLinks <- BothRelayLinks
  I2PLinks <- BothI2PLinks
  Retriers <- OneRetrier
  Controllers = {TRUE, FALSE}
  WgMayFail = {FALSE}
SYMMETRY Symmetry
CHECK_DEADLOCK FALSE
INVARIANTS
  StatusConsistent
  UsesBestTransport
  NoLinkLeaked
  ClosedIsQuiet
  OnlyActiveDelivers
PROPERTY LateCloseHarmless
