SPECIFICATION FairSpec
CONSTANTS
  Key = {"path:a", "path:b", "path:c", "uuid:a", "uuid:c"}
  Resource = {"table", "view"}
  Demand <- MCOneRunDemand
  NoRun = NoRun
  NoDemand = NoDemand
  Run = {r1, r2}
  MaxCrashes = 1
  MaxFaults = 0
CHECK_DEADLOCK FALSE
PROPERTIES
  RunsClose
  QueuedCancelCloses
