SPECIFICATION AlteredSpec
CONSTANTS
  c1 = c1
  c2 = c2
  k = k
  NoConn = NoConn
  Conns = {c1, c2}
  Pks = {k}
  Cols = {1}
  Stamps <- NoStamps
  MaxTxns = 3
  MaxWrites = 2
SYMMETRY Symmetry
PROPERTY VersionsGrow
