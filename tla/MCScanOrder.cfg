SPECIFICATION Spec
CONSTANTS
  a = a
  b = b
  c = c
  gone = gone
  NoPath = NoPath
  Paths = {a, b, c, gone}
  Worlds <- MCWorlds
  MaxInFlight = 2
INVARIANTS
  OutcomesInDiscoveryOrder
CHECK_DEADLOCK FALSE
