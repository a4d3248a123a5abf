CONSTANTS
  p1 = p1
  p2 = p2
  Direct = Direct
  Proc = {p1, p2}
  Slot = {1}
  MaxQueue = 2
  MaxEnqueues = 2
  MaxWaiters = 1
  MaxFailures = 0
  MaxCrashes = 1
SPECIFICATION FairSpec
PROPERTIES
  QueueDrains
  DrainSettledReturns
CHECK_DEADLOCK FALSE
