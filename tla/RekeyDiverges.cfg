SPECIFICATION RekeySpec
CONSTANTS
  s1 = s1
  s2 = s2
  k = k
  m = m
  a = a
  b = b
  Rip = Rip
  Sites = {s1, s2}
  Pks = {k, m}
  Cols = {a, b}
  Values = {0, 1}
  MaxWrites = 4
  Rekeyers = {s2}
INVARIANT TablesAgree
