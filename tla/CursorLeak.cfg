SPECIFICATION Spec
CONSTANTS
  Cursors = {c1}
  Conns = {k1}
  Fetches = {f1}
  MaxSessions = 2
  MaxPerConn = 1
  MaxRows = 3
  PageSize = 1
  Limits = {2}
  Totals = {2, 5}
  MaxOpening = 1
INVARIANT NoAbandonedCursor
CHECK_DEADLOCK FALSE
