SPECIFICATION SessionsSpec
CONSTANTS
  w1 = w1
  w2 = w2
  Works = {w1, w2}
  MaxSwaps = 2
  MaxGenerations = 2
  MaxPrompts = 1
  MaxResumes = 1
  MaxInputs = 3
  MaxStops = 1
  MaxFailures = 1
  MaxReads = 1
  MaxLag = 4
  Trigger = 2
  MaxContext = 4
INVARIANTS
  WorkLeavesResult OutputIsThere OutcomesAgree OneRestart InputOrder QuietMeansAnswered
PROPERTIES
  HostOutlivesShells NewContextFirst
CHECK_DEADLOCK FALSE
