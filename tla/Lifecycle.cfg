SPECIFICATION LifecycleSpec
CONSTANTS
  c1 = c1
  c2 = c2
  k = k
  a = a
  b = b
  NoConn = NoConn
  Conns = {c1, c2}
  Pks = {k}
  Cols = {a, b}
  Unfit = {b}
  SiteIds = {1}
  Keys <- NarrowOrWide
  MaxWrites = 2
  MaxCalls = 4
SYMMETRY Symmetry
INVARIANT TypeOK
INVARIANT MetaMatchesRows
INVARIANT SchemaCurrent
PROPERTY TombstonesKept
