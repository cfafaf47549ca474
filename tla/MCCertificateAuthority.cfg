CONSTANTS
  a = a
  b = b
  s1 = s1
  s2 = s2
  None = None
  Unsigned = Unsigned
  Calls = {a, b}
  Sockets = {s1, s2}
  MaxCas = 4
  MaxRuns = 3
  MayFail = TRUE
SPECIFICATION Spec
INVARIANTS OnlyTheCaSigns DiskIsTrue
PROPERTIES RevokeTakesTheKey
CHECK_DEADLOCK FALSE
