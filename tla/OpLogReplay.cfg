\* Every write guard is dropped and no destructor panics.
CONSTANTS
  Keys = {k1, k2}
  KeyObjects = {c1, c2, c3, c4}
  ValueObjects = {v1, v2, v3, v4}
  None = None
  MaxLog = 4
  ForgetWriteGuards = FALSE
  DropPanics = FALSE
SPECIFICATION Spec
SYMMETRY Symmetry
INVARIANTS
  TypeOK
  ReadersSafe
  NoDoubleDrop
  NoLeak
  UncheckedOpsSound
  CopiesAgree
  LogReplays
  EvictedValid
