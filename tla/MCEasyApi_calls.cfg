SPECIFICATION Spec
CONSTANTS
  a1 = a1 a2 = a2 v1 = v1 v2 = v2 b1 = b1 b2 = b2 b3 = b3 b4 = b4 w1 = w1 w2 = w2
  Addrs = {a1, a2}
  Codes = {v1, v2}
  PcRel = {}
  Buffers = {b1, b2, b3}
  Cap = 1
  Workers = {w1, w2}
  BlockLen = 64
  MallocFails = TRUE
  NULL = NULL
SYMMETRY MCSymmetry
INVARIANTS ReturnsTranslation BuffersSafe
