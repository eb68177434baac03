SPECIFICATION Spec
CONSTANTS
  c1 = c1 c2 = c2 a1 = a1 a2 = a2 v1 = v1 v2 = v2 v3 = v3 i1 = i1 i2 = i2 i3 = i3 i4 = i4
  Clients = {c1}
  Addrs = {a1, a2}
  Codes = {v1, v2}
  SizeOf <- MCSizes
  Inodes = {i1, i2, i3}
  Hdr = 1
  MaxBytes = 4
  MaxEntry = 2
  Targets = {0, 1}
  SizeMod = 64
  MaxTotal = 10
  IOErrors = FALSE
  Zero = Zero
  NULL = NULL
SYMMETRY MCSymmetry
INVARIANT FilesSound
