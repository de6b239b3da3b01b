SPECIFICATION Spec
CONSTANTS
  t1 = t1
  t2 = t2
  a = a
  b = b
  c = c
  Thread <- MCThread
  Hash <- MCHash
  MaxBlocks = 2
  MaxTx = 2
  CacheSize = 2
SYMMETRY MCSymmetry
INVARIANT CacheCoherent
