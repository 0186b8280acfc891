SPECIFICATION LifecycleSpec
CONSTANTS
  c1 = c1
  k = k
  a = a
  NoConn = NoConn
  Conns = {c1}
  Pks = {k}
  Cols = {a}
  Unfit = {}
  SiteIds = {1, 2, 3}
  Keys <- NarrowOrWide
  MaxWrites = 1
  MaxCalls = 3
SYMMETRY Symmetry
INVARIANT OwnSite
