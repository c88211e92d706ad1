\* What readers see over several publishes; park returns only by its token and every guard
\* is dropped, and deadlock is checked.
CONSTANTS
  COUNT_OVERFLOW_BIT = 4
  Handles = {h1, h2}
  Guards = {g1, g2, g3}
  Threads = {t1, t2}
  None = None
  MaxOps = 3
  SpuriousWakeups = FALSE
  ForgetGuards = FALSE
SPECIFICATION Spec
SYMMETRY Symmetry
INVARIANTS
  LogConsistent
  WriterThreadRaceFree
  WaitsForReaders
PROPERTIES
  SnapshotStable
  MonotonicReads
  ImplementsSnapshotMap
