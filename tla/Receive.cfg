SPECIFICATION Spec
CONSTANTS
  c1 = c1
  c2 = c2
  Conns = {c1, c2}
  Versions <- BoundedVersions
  MaxVersion = 2
  Seqs = {1}
  MaxTries = 1
  IntMax = 7
SYMMETRY Symmetry
INVARIANT TypeOK
INVARIANT NoSilentGap
