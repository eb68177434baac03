SPECIFICATION Spec
CONSTANTS
  c1 = c1 c2 = c2 a1 = a1 a2 = a2 v1 = v1 v2 = v2 v3 = v3 i1 = i1 i2 = i2 i3 = i3 i4 = i4
  Clients = {c1, c2}
  Addrs = {a1}
  Codes = {v2}
  SizeOf <- MCSizes
  Inodes = {i1, i2, i3}
  Hdr = 1
  MaxBytes = 6
  MaxEntry = 2
  Targets = {}
  SizeMod = 32
  MaxTotal = 6
  IOErrors = TRUE
  Zero = Zero
  NULL = NULL
SYMMETRY MCSymmetry
INVARIANT HitIsTranslation
