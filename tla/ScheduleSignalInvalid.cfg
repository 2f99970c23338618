SPECIFICATION Spec
CONSTANTS
  Run = {r1, r2}
  NoRun = NoRun
  FirstTick = 0
  MaxTick = 1
  Policies = {"run_once"}
  BackfillLimit = 2
  Legacy = {}
  Producers = 0
  Unresolvable = TRUE
  MaxFaults = 0
  MaxCrashes = 0
  MaxOthers = 0
  MaxEdits = 0
INVARIANT DeferredIsSignalled
