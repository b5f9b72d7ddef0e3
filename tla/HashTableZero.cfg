\* A table created with capacity 0, as init_header does for a single URL parameter.
CONSTANTS
  k1 = k1
  k2 = k2
  k3 = k3
  Keys = {k1, k2, k3}
  Values = {v1}
  None = None
  InitCaps = {0}
  MaxCap = 8
  W = 4
  HashIndex <- Masked
SPECIFICATION Spec
INVARIANT
  IndexWithinEntries
