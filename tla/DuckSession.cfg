SPECIFICATION FairSpec
CONSTANTS
  t1 = t1
  t2 = t2
  t3 = t3
  a = a
  Task = {t1, t2}
  Lessee = {l1}
  Path = {a}
  Schema = {sc}
  NoTask = NoTask
  NoPath = NoPath
  NoSchema = NoSchema
  Retries = 1
INVARIANTS
  OneHandlePerFile
  RememberedSchemasExist
  NothingLeftBehind
PROPERTIES
  RequestsEnd
  LesseesAreServed
