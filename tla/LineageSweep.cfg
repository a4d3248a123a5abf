SPECIFICATION SweepSpec
CONSTANTS
  Wrapper = {1, 2}
  Thread = {1, 2}
  Session = {1, 2, 3}
  None = None
  Foreign = Foreign
  Legacy <- OldLineages
  MaxFaults = 1
  MaxCrashes = 0
  MaxResumes = 3
  MaxHandovers = 0
INVARIANT AcceptedIsKept
CHECK_DEADLOCK FALSE
