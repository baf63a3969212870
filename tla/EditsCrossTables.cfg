\* One query tab and two tables; one save.
SPECIFICATION TabsSpec
CONSTANTS
  QueryTabs = {"q1"}
  TableTabs = {"ta", "tb"}
  OtherTabs = {"er"}
  FirstQuery = "q1"
  MaxTabs = 3
  MaxRuns = 1
  MaxTabSaves = 1
\* The bounds on runs and saves stop the tabs.
CHECK_DEADLOCK FALSE
INVARIANT EditsAreTheActiveTables
