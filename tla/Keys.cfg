SPECIFICATION KeySpec
CONSTANTS
  s1 = s1
  s2 = s2
  k = k
  m = m
  a = a
  Rip = Rip
  Sites = {s1, s2}
  Pks = {k, m}
  Cols = {a}
  Values = {0, 1}
  MaxWrites = 3
  Rekeyers = {}
SYMMETRY Symmetry
INVARIANT ClockMatchesRow
INVARIANT RowsConverge
INVARIANT JoinUntilOverwritten
INVARIANT GosElements
PROPERTY RekeyRefinesLww
