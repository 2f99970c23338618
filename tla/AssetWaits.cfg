SPECIFICATION FairSpec
CONSTANTS
  r1 = r1
  r2 = r2
  a = a
  b = b
  c = c
  t1 = t1
  t2 = t2
  t3 = t3
  t4 = t4
  Run = {r1, r2}
  Asset = {a, b, c}
  Task = {t1, t2, t3, t4}
  Python = {t1, t3}
  RunOf <- MCRunOf
  AssetOf <- MCAssetOf
  After <- MCAfter
  Planned = {r1}
  Excluded = {}
  NoTask = NoTask
  MaxQueries = 1
  MaxPanics = 1
  MaxCancels = 1
CHECK_DEADLOCK FALSE
INVARIANTS
  ReadsAreAwaited
  LaterIsRefused
PROPERTIES
  RunsEnd
