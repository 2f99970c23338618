SPECIFICATION FairSpec
CONSTANTS
  Run = {r1}
  Limit = 2
  UnitCount = 3
  Warehouse = Warehouse
  Table = Table
  Connection = {Warehouse}
  Resource = {Table}
  ConnectionLimit <- WarehouseLimit
  MaxActive = 3
  Graph <- AllGraphs
INVARIANTS
  BudgetAccounts
  LimitsRespected
  DependenciesHandedOff
  BranchesIndependent
  ClosedRunsAreComplete
PROPERTIES
  RunsClose
