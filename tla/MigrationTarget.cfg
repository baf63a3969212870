\* The pairs of schemas of Workspace.cfg; one list of changes.
SPECIFICATION Spec
CONSTANTS
  TableOrder <- MCTableOrder
  ColumnOrder <- MCColumnOrder
  IndexOrder <- MCIndexOrder
  FkOrder <- MCFkOrder
  Pairs <- MCPairs
  Values = {"plain", "sized", "odd"}
  Known = {"plain", "sized"}
  Sized = {"sized"}
  MaxLists = 1
  MaxDrifts = 0
\* The bound on lists stops the view.
CHECK_DEADLOCK FALSE
PROPERTY AppliedWhereGenerated
