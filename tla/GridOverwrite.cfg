\* One row of two columns, one save and one write by somebody else.
SPECIFICATION EditorSpec
CONSTANTS
  x = x
  Rows = {x}
  GridColumns = {"a", "b"}
  GridValues = {"old", "new"}
  Default = "old"
  MaxCalls = 1
  MaxOthers = 1
\* The bounds on calls and writes stop the editor.
CHECK_DEADLOCK FALSE
PROPERTY NoSilentOverwrite
