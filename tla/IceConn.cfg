SPECIFICATION Spec
CONSTANTS
  Agents = {x1, x2}
  Watchers = {k1, k2}
  Sessions = {i1, i2}
  None = None
SYMMETRY Perms
CHECK_DEADLOCK FALSE
INVARIANTS
  AgentsOwned
  InProgressBacked
  ActiveIsConnected
  OneWatcher
  ClosedIsQuiet
