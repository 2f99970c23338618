SPECIFICATION Spec
CONSTANTS
  Run = {r1, r2}
  NoRun = NoRun
  FirstTick = 2
  MaxTick = 2
  Policies <- AllPolicies
  BackfillLimit = 1
  Legacy <- FirstInterval
  Producers = 2
  Unresolvable = TRUE
  MaxFaults = 1
  MaxCrashes = 1
  MaxOthers = 0
  MaxEdits = 1
SYMMETRY RunSymmetry
INVARIANTS OneRunPerInterval RunsAreBound MissedTicksAreSignalled
PROPERTY WaitKeepsTerms
