SPECIFICATION BoundedSpec
CONSTANTS
  m1 = m1
  m2 = m2
  m3 = m3
  w1 = w1
  w2 = w2
  Message = {m1, m2, m3}
  Derivable = {m1}
  Members <- TwoTurns
  Worker = {w1, w2}
  OneProcess = TRUE
  MaxEdits = 2
  MaxDerives = 2
  MaxLapses = 2
  MaxFailures = 1
INVARIANTS FreshUntilBack CalmIsFresh FailsOnlyOnFailure
 
CHECK_DEADLOCK FALSE
