SPECIFICATION Spec
CONSTANTS
  a = a
  b = b
  c1 = c1
  c2 = c2
  c3 = c3
  h1 = h1
  h2 = h2
  e1 = e1
  e2 = e2
  e3 = e3
  e4 = e4
  NoFile = NoFile
  Unresolved = Unresolved
  NoEntry = NoEntry
  NoCaller = NoCaller
  NoPath = NoPath
  Path = {a, b}
  Process = {h1, h2}
  Caller = {c1, c2, c3}
  Entry = {e1, e2, e3, e4}
  Name <- MCName
  Canonical <- MCCanonical
  Rank <- MCRank
  Home <- MCHome
SYMMETRY MCSymmetry
INVARIANTS
  OneEntryPerFile
  NothingKept
  WaitsAscend
PROPERTIES
  ImplementsLease
