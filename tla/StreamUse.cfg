\* Three clients; a stream and a script, one fewer than clients, and two statements.
\* Two streams of two fetches, whose clients may stop calling.
\* A data source that opens twice and sorts once, over blocks of two rows.
\* Files of up to six rows in batches of two; dumps of up to two tables.
SPECIFICATION UseSpec
CONSTANTS
  s1 = s1
  t1 = t1
  q1 = q1
  q2 = q2
  Streams = {s1}
  Scripts = {t1}
  Statements = {q1, q2}
  PoolSize = 3
  MaxPerConn = 1
  Cursors = {c1, c2}
  Conns = {k1}
  Fetches = {f1, f2}
  MaxSessions = 2
  MaxRows = 3
  PageSize = 1
  Limits = {2}
  Totals = {2, 5}
  MaxOpening = 1
  BlockSize = 2
  OpenBlock = 2
  RowBudget = 3
  Lengths = {2, 5}
  MaxOpens = 2
  MaxSorts = 1
  MaxLost = 1
  Files <- MCFiles
  BatchSize = 2
  MaxBatchRows = 4
  Tables = {1, 2}
  TableLengths = {0, 1, 2, 3, 4, 5, 6, 7}
  ExportBudget = 5
  ExportPage = 3
  InsertBatch = 2
\* Every call ends.
CHECK_DEADLOCK FALSE
INVARIANTS
  NoMutualWait
  ShowsTheResult
  ImportIsHonest
  FileIsAccounted
PROPERTIES
  EveryWaitEnds
  AbandonedStreamReleased
  GetRowsAnswered
  UsesContract
  ImportSettles
