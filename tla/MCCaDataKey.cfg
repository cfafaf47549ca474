CONSTANTS
  a = a
  b = b
  s1 = s1
  s2 = s2
  None = None
  Unsigned = Unsigned
  Calls = {a, b}
  Sockets = {s1, s2}
  MaxCas = 4
  MaxRuns = 3
  MayFail = FALSE
SPECIFICATION Spec
INVARIANTS DataKeyKept
CHECK_DEADLOCK FALSE
