SPECIFICATION Spec
CONSTANTS
  Key = {"path:a", "path:b", "path:c", "uuid:a", "uuid:c"}
  Resource = {"table", "view"}
  Demand <- MCOneRunDemand
  NoRun = NoRun
  NoDemand = NoDemand
  Run = {r1}
  MaxCrashes = 0
  MaxFaults = 0
CHECK_DEADLOCK FALSE
INVARIANTS
  CancelReachesExecutor
