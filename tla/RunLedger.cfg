SPECIFICATION Spec
CONSTANTS
  Key = {"path:a", "path:b", "path:c", "uuid:a", "uuid:c"}
  Resource = {"table", "view"}
  Demand <- MCDemand
  Run = {r1, r2}
  NoRun = NoRun
  NoDemand = NoDemand
  MaxCrashes = 1
  MaxFaults = 1
SYMMETRY Symmetry
CHECK_DEADLOCK FALSE
INVARIANTS
  ActiveRunsExclude
  OwnershipFollowsActivity
  ExecutedAtMostOnce
  ActiveRunsAreAttended
PROPERTIES
  ImplementsExclusion
