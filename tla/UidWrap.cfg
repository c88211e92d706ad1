\* Two-bit words: the fourth construction panics and the fifth repeats a uid.
CONSTANTS
  Maps = {m1, m2, m3, m4}
  Values = {v1}
  None = None
  WORD = 4
SPECIFICATION Spec
INVARIANTS
  OwnValuesOnly
CHECK_DEADLOCK FALSE
