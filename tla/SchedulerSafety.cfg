CONSTANTS
  p1 = p1
  p2 = p2
  Direct = Direct
  Proc = {p1, p2}
  Slot = {1, 2}
  MaxQueue = 2
  MaxEnqueues = 2
  MaxWaiters = 1
  MaxFailures = 1
  MaxCrashes = 1
SPECIFICATION Spec
SYMMETRY Symmetry
INVARIANTS
  NoLostWakeUp
PROPERTIES
  SettledMeansDrained
CHECK_DEADLOCK FALSE
