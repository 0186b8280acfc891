SPECIFICATION Spec
CONSTANTS
  c1 = c1
  c2 = c2
  x = x
  y = y
  Conns = {c1, c2}
  Cells = {x, y}
  Versions <- BoundedVersions
  MaxVersion = 3
  Seqs = {1}
  IntMax = 7
SYMMETRY Symmetry
VIEW View
INVARIANT TypeOK
INVARIANT NothingSkipped
INVARIANT NoHole
INVARIANT SilentMeansSent
