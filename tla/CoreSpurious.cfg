\* park may return early: the write and the read of writer_thread can meet.
CONSTANTS
  COUNT_OVERFLOW_BIT = 4
  Handles = {h1, h2}
  Guards = {g1, g2, g3}
  Threads = {t1}
  None = None
  MaxOps = 1
  SpuriousWakeups = TRUE
  ForgetGuards = FALSE
SPECIFICATION Spec
SYMMETRY Symmetry
INVARIANTS
  WriterThreadRaceFree
