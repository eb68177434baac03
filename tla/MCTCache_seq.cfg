SPECIFICATION Spec
CONSTANTS
  t1 = t1 t2 = t2 e1 = e1 e2 = e2 e3 = e3 a1 = a1 a2 = a2 x1 = x1 x2 = x2
  Threads = {t1}
  Entries = {e1, e2, e3}
  Addrs = {a1, a2}
  Sizes = {1, 2, 5}
  HashOf <- MCHash
  CodeOf <- MCCode
  InitSize = 4
  InitBuckets = 2
  ResizeTo = {0, 3, 6}
  MinSize = 2
  MaxSize = 6
  PtrSize = 2
  HotThreshold = 3
  MaxLookups = 2
  NULL = NULL
SYMMETRY MCSymmetry
INVARIANTS Structure Accounting
PROPERTIES CapacityAfterInsert ImplementsLru
