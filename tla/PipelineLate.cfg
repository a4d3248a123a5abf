SPECIFICATION Spec
CONSTANTS
  m1 = m1
  m2 = m2
  m3 = m3
  w1 = w1
  w2 = w2
  Message = {m1}
  Derivable = {m1}
  Members <- OneTurn
  Worker = {w1, w2}
  OneProcess = TRUE
  MaxEdits = 1
  MaxDerives = 1
  MaxLapses = 1
  MaxFailures = 0
INVARIANTS ReadyIsFresh
CHECK_DEADLOCK FALSE
