\* Pairs of schemas of two tables; one list of changes, one change by somebody else.
\* One cell, three calls of the row editor and one write by somebody else.
\* Up to three tabs of two query tabs and two tables, with two scripts,
\* or with an overview and one save.
\* Two turns over two connections, of at most two chats.
\* One column, masked or unmasked twice, and one save of an edit.
SPECIFICATION WorkSpec
CONSTANTS
  TableOrder <- MCTableOrder
  ColumnOrder <- MCColumnOrder
  IndexOrder <- MCIndexOrder
  FkOrder <- MCFkOrder
  Pairs <- MCPairs
  Values = {"plain", "sized", "odd"}
  Known = {"plain", "sized"}
  Sized = {"sized"}
  MaxLists = 1
  MaxDrifts = 1
  x = x
  Rows = {x}
  GridColumns = {"a"}
  GridValues = {"old", "new"}
  Default = "old"
  MaxCalls = 3
  MaxOthers = 1
  QueryTabs = {"q1", "q2"}
  TableTabs = {"ta", "tb"}
  OtherTabs = {"er"}
  FirstQuery = "q1"
  MaxTabs = 3
  MaxRuns = 2
  MaxTabSaves = 1
  Conns = {"pg1", "pg2"}
  FirstConn = "pg1"
  MaxAutoRuns = 1
  MaxTurns = 2
  MaxChats = 2
  MaxPending = 1
  MaskColumns = {"a"}
  MaxMarks = 2
  MaxSaves = 1
\* The bounds on calls, turns and runs stop the models.
CHECK_DEADLOCK FALSE
INVARIANTS
  UndoNeedsNobody
  StoredResultIsTheTabs
  StoredAsSaid
  MaskingSettles
  BlindWritesAfterUnmarkOnly
PROPERTIES
  UndoOverwritesOwnOnly
  ForeignResultIsALateAnswer
  EditsMoveOnDirectSwitchOnly
  LastQueryTabOnlyByShortcut
  RemovalWasConfirmed
  AlterKeepsTheRest
