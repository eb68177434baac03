SPECIFICATION Spec
CONSTANTS
  t1 = t1 t2 = t2 c1 = c1 c2 = c2 c3 = c3 v1 = v1 v2 = v2
  Threads = {t1}
  Pcs = {1, 2, 5}
  Versions = {v1, v2}
  Copies = {c1, c2, c3}
  BlockSizes = {2}
  CacheSize = 2
  CodeSize = 7
  Reserve = 3
  PcModulus = 4
  MaxHits = 1
  MaxUsed = 7
  NULL = NULL
SYMMETRY MCSymmetry
CHECK_DEADLOCK FALSE
INVARIANT BlocksRight
PROPERTIES StartsOwnCode
