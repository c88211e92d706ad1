\* Progress of the writer under fair scheduling.
CONSTANTS
  COUNT_OVERFLOW_BIT = 4
  Handles = {h1, h2}
  Guards = {g1, g2, g3}
  Threads = {t1}
  None = None
  MaxOps = 1
  SpuriousWakeups = FALSE
  ForgetGuards = FALSE
SPECIFICATION FairSpec
PROPERTIES
  SynchronizeReturns
