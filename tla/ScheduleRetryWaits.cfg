SPECIFICATION FairSpec
CONSTANTS
  Run = {r1, r2, r3}
  NoRun = NoRun
  FirstTick = 0
  MaxTick = 1
  Policies = {"backfill"}
  BackfillLimit = 2
  Legacy = {}
  Producers = 1
  Unresolvable = FALSE
  MaxFaults = 0
  MaxCrashes = 1
  MaxOthers = 0
  MaxEdits = 0
PROPERTY EveryWaitEnds
