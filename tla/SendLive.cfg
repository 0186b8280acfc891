SPECIFICATION FairSpec
CONSTANTS
  c1 = c1
  x = x
  y = y
  Conns = {c1}
  Cells = {x, y}
  Versions <- BoundedVersions
  MaxVersion = 2
  Seqs = {0, 1}
  IntMax = 7
PROPERTY EventuallySent
