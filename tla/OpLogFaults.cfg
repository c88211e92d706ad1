\* Forgotten write guards and panicking destructors.
CONSTANTS
  Keys = {k1, k2}
  KeyObjects = {c1, c2}
  ValueObjects = {v1, v2}
  None = None
  MaxLog = 3
  ForgetWriteGuards = TRUE
  DropPanics = TRUE
SPECIFICATION Spec
SYMMETRY Symmetry
PROPERTIES
  ReadersUndisturbed
