\* Three open calls over three connections; two fetches.
\* Three requests on three connections, one pool allowed.
SPECIFICATION PartsSpec
CONSTANTS
  c1 = c1
  c2 = c2
  c3 = c3
  k1 = k1
  k2 = k2
  k3 = k3
  NoPool = NoPool
  Cursors = {c1, c2, c3}
  Conns = {k1, k2, k3}
  Connections = {k1, k2, k3}
  Requests = {c1, c2, c3}
  Tunneled = {}
  Removable = {}
  MaxVersion = 1
  Fetches = {f1, f2}
  MaxSessions = 2
  MaxPerConn = 1
  MaxRows = 4
  PageSize = 1
  Limits = {2}
  Totals = {0, 1, 2, 7}
  MaxOpening = 2
  PoolMax = 1
SYMMETRY Symmetry
\* The process stops in the end.
CHECK_DEADLOCK FALSE
INVARIANTS
  OpenCursorHasOwner
  CountFollowsCursor
  BudgetOvershootBounded
  CapOvershootBounded
  SweepNearsCap
  SweepTakesOnlyStale
PROPERTY ImplementsContract
