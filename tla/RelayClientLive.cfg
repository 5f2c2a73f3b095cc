SPECIFICATION FairSpec
CONSTANTS
  Talking = {b0}
  Gens = {g1, g2}
  a0 = a0
  a1 = a1
  b0 = b0
  Keys <- MCKeys
  Peer <- MCPeer
  Openers = {o1}
  None = None
CHECK_DEADLOCK FALSE
PROPERTIES OpenCompletes CloseCompletes ReportsEveryEnd
