SPECIFICATION LayoutsSpec
CONSTANTS
  None = None
  Coordinators = {"c1", "c2"}
  Nodes = {"a", "b", "t"}
  ResizeIds = {"x", "y"}
  First = "c1"
  Origin = {"a", "b"}
  Targets = {{"t"}}
  ReuseOperation = FALSE
  Budgets <- MCBudgets
  Place <- MCPlace
  Ids = {"a", "b"}
  Placed <- MCPlaced
  FirstShards = 2
  FirstRows <- MCRows
  Bounds <- MCBounds
  RegrowsOverNamed = FALSE
  UpgradesAhead = FALSE
  RestartsUnsynced = FALSE
CHECK_DEADLOCK FALSE
INVARIANTS    BackupIsWhole 
