\* Happens-before of the protocol, with spurious wakeups.
CONSTANTS
  COUNT_OVERFLOW_BIT = 2
  Handles = {h1, h2}
  Guards = {g1, g2}
  Threads = {t1, t2}
  None = None
  MaxOps = 1
  SpuriousWakeups = TRUE
  ForgetGuards = FALSE
SPECIFICATION OrderedSpec
SYMMETRY Symmetry
INVARIANTS
  ReadsAfterWrites
  WritesAfterReads
  CellOrdered
