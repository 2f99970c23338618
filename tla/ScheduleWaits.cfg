SPECIFICATION FairSpec
CONSTANTS
  Run = {r1, r2}
  NoRun = NoRun
  FirstTick = 0
  MaxTick = 1
  Policies <- AllPolicies
  BackfillLimit = 1
  Legacy = {}
  Producers = 2
  Unresolvable = FALSE
  MaxFaults = 1
  MaxCrashes = 1
  MaxOthers = 1
  MaxEdits = 1
PROPERTIES AdmissionKeepsProducer FirstAttemptsSettle
