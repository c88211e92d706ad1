\* Core and OpLog together.
CONSTANTS
  COUNT_OVERFLOW_BIT = 4
  Handles = {h1, h2}
  Guards = {g1, g2}
  Threads = {t1}
  None = None
  MaxOps = 3
  SpuriousWakeups = TRUE
  ForgetGuards = TRUE
  Keys = {k1}
  KeyObjects = {c1, c2}
  ValueObjects = {v1, v2, v3}
  MaxLog = 3
SPECIFICATION MapSpec
SYMMETRY Symmetry
INVARIANTS
  GuardsReadValidObjects
  SyncedIsQuiet
  VersionsNameContents
PROPERTIES
  GuardsReadSnapshots
