\* PoolManager: a pool no map entry leads to.
CONSTANTS
  c1 = c1
  r1 = r1
  r2 = r2
  r3 = r3
  NoPool = NoPool
  Connections = {c1}
  Requests = {r1, r2, r3}
  Tunneled = {}
  Removable = {}
  MaxVersion = 1
  PoolMax = 1
SPECIFICATION PoolSpec
SYMMETRY Symmetry
\* Every request ends and the process stops.
CHECK_DEADLOCK FALSE
INVARIANT OpenPoolReachable
