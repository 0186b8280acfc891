SPECIFICATION FairSpec
CONSTANTS
  c1 = c1
  Conns = {c1}
  Versions <- BoundedVersions
  MaxVersion = 2
  Seqs = {1}
  MaxTries = 2
  IntMax = 7
PROPERTY CursorKept
PROPERTY EventuallyTried
