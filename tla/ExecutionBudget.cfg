SPECIFICATION Spec
CONSTANTS
  Run = {r1, r2, r3}
  Limit = 1
  UnitCount = 1
  Warehouse = Warehouse
  Table = Table
  Connection = {Warehouse}
  Resource = {Table}
  ConnectionLimit <- WarehouseLimit
  MaxActive = 1
  Graph <- FanGraphs
SYMMETRY RunSymmetry
PROPERTIES
  ImplementsFairBudget
