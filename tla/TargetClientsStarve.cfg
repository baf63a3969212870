\* Two clients, two streams that open at the same time, one statement.
SPECIFICATION FairSpec
CONSTANTS
  s1 = s1
  s2 = s2
  q1 = q1
  Streams = {s1, s2}
  Scripts = {}
  Statements = {q1}
  PoolSize = 2
  MaxPerConn = 1
\* Every call ends, or waits for ever.
CHECK_DEADLOCK FALSE
PROPERTY StreamsStarveNobody
