SPECIFICATION HostsSpec
CONSTANTS
  Pids = {1, 2}
  MaxStarts = 3
  NoLease = NoLease
  Damaged = Damaged
  MaxSessions = 2
  MaxSeams = 1
  MaxLaunches = 2
  StoreFails = TRUE
  Attempts = 1
  NonviableLimit = 1
  MaxLines = 3
  Contents = {x, y}
  Wrapper = {1, 2}
  Thread = {1, 2}
  Session = {1, 2, 3}
  None = None
  Foreign = Foreign
  Legacy <- OldLineages
  MaxFaults = 1
  MaxCrashes = 1
  MaxResumes = 3
  MaxHandovers = 1
INVARIANTS
  OracleIsValid OwnerHoldsLease DeadChildEndsTheRun CaptureFollowsRoute ReceiptMutatesOnce
  ReadyHasNoGap WholeLinesSurvive  OneThread
 
CHECK_DEADLOCK FALSE
