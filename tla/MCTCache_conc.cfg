SPECIFICATION FairSpec
CONSTANTS
  t1 = t1 t2 = t2 e1 = e1 e2 = e2 e3 = e3 a1 = a1 a2 = a2 x1 = x1 x2 = x2
  Threads = {t1, t2}
  Entries = {e1, e2}
  Addrs = {a1, a2}
  Sizes = {2, 5}
  HashOf <- MCHash
  CodeOf <- MCCode
  InitSize = 4
  InitBuckets = 2
  ResizeTo = {6}
  MinSize = 2
  MaxSize = 6
  PtrSize = 2
  HotThreshold = 3
  MaxLookups = 1
  NULL = NULL
INVARIANT Structure
PROPERTY LockReleased
