SPECIFICATION ClockSpec
CONSTANTS
  c1 = c1
  c2 = c2
  k = k
  m = m
  NoConn = NoConn
  Conns = {c1, c2}
  Pks = {k, m}
  Cols = {1}
  Stamps <- OneStamp
  MaxTxns = 3
  MaxWrites = 3
SYMMETRY Symmetry
INVARIANT TypeOK
INVARIANT CacheNotBehind
INVARIANT StampsUnique
PROPERTY VersionsGrow
PROPERTY MaximumKept
PROPERTY RefinesCommitted
