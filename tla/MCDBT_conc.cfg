SPECIFICATION FairSpec
CONSTANTS
  t1 = t1 t2 = t2 c1 = c1 c2 = c2 c3 = c3 v1 = v1 v2 = v2
  Threads = {t1, t2}
  Pcs = {1}
  Versions = {v1, v2}
  Copies = {c1, c2, c3}
  BlockSizes = {1}
  CacheSize = 1
  CodeSize = 3
  Reserve = 2
  PcModulus = 4
  MaxHits = 1
  MaxUsed = 3
  NULL = NULL
INVARIANT MemorySafe
PROPERTIES ExecuteReturns
CHECK_DEADLOCK FALSE
