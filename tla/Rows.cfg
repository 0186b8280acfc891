SPECIFICATION RowSpec
CONSTANTS
  s1 = s1
  s2 = s2
  k = k
  a = a
  b = b
  Rip = Rip
  Sites = {s1, s2}
  Pks = {k}
  Cols = {a, b}
  Values = {0, 1}
  MaxWrites = 3
  Rekeyers = {}
SYMMETRY Symmetry
INVARIANT TypeOK
INVARIANT ClockMatchesRow
INVARIANT JoinOfSeen
INVARIANT Convergence
INVARIANT TablesAgree
PROPERTY ClockNeverRegresses
PROPERTY RefinesLww
