SPECIFICATION FairSpec
CONSTANTS
  w1 = w1
  w2 = w2
  w3 = w3
  t1 = t1
  a = a
  b = b
  server = server
  cli = cli
  Write = {w1, w2, w3}
  Target = {t1}
  Window = {a, b}
  Proc = {server, cli}
  Server = server
  NoWrite = NoWrite
  TargetOf <- MCTargetOf
  WindowOf <- MCWindowOf
  VariantOf <- MCVariantOf
  FactKeyOf <- MCFactKeyOf
  ProcOf <- MCProcOf
  Replaces <- MCReplaces
  Reported <- MCReported
  MaxClock = 3
  MaxCrashes = 1
  MaxFaults = 1
INVARIANTS
  NamedWroteLast
  UntornCoverageIsPhysical
  AcknowledgedIsSettled
PROPERTIES
  ImplementsFreshness
  CompletionsAreAcknowledged
