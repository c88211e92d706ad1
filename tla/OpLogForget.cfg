\* A write guard may be forgotten.
CONSTANTS
  Keys = {k1, k2}
  KeyObjects = {c1, c2, c3}
  ValueObjects = {v1, v2, v3}
  None = None
  MaxLog = 4
  ForgetWriteGuards = TRUE
  DropPanics = FALSE
SPECIFICATION Spec
SYMMETRY Symmetry
INVARIANTS
  ReadersSafe
