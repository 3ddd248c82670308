CONSTANTS
  None = None  Absent = Absent  tab1 = tab1  tab2 = tab2  row1 = row1  row2 = row2  row3 = row3  row4 = row4  e1 = e1  r1 = r1  r2 = r2  u = u  t = t  s = s
  Tab = {tab1, tab2}  Entity = {u}  Scope = {"ada", "none"}  Build <- MCBuilds  Policy = "preserve-existing"  MaxVersion = 1  MaxReloads = 1
  App = "app"  ModelFields = {"todos", "user"}  Tags = {"added", "named"}  Features <- MCFeatures  MaxContracts = 4
  RowId = {1, 2, 3, 4}  Parent = {"p", "q"}  Tables <- MCTables  Edits <- MCEdits  Orders <- MCOrders  PageSizes = {1, 2}  MaxEdits = 2
SPECIFICATION WindowsSpec
CHECK_DEADLOCK FALSE
INVARIANT WindowIsTheOneRead
