\* A forgotten read guard outlives its handle in the residual count.
CONSTANTS
  COUNT_OVERFLOW_BIT = 4
  Handles = {h1, h2}
  Guards = {g1, g2}
  Threads = {t1}
  None = None
  MaxOps = 1
  SpuriousWakeups = FALSE
  ForgetGuards = TRUE
SPECIFICATION Spec
SYMMETRY Symmetry
INVARIANTS
  WaitsForReaders
