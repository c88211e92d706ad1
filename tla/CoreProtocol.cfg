\* Three-bit words: the third guard of a handle aborts, and so does a publish that counts
\* four. Spurious wakeups, forgotten guards; the protocol never looks at the contents.
CONSTANTS
  COUNT_OVERFLOW_BIT = 2
  Handles = {h1, h2}
  Guards = {g1, g2, g3, g4}
  Threads = {t1, t2}
  None = None
  MaxOps = 0
  SpuriousWakeups = TRUE
  ForgetGuards = TRUE
SPECIFICATION Spec
SYMMETRY Symmetry
INVARIANTS
  TypeOK
  WriterExclusive
  ResidualAccounting
  Bookkeeping
  NoLostWakeup
  CodeAssertions
