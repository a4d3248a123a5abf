CONSTANTS
  d1 = d1
  d2 = d2
  c1 = c1
  turn = turn
  brief = brief
  rendering = rendering
  assembly = assembly
  summary = summary
  Drainer = {d1}
  Caller = {c1}
  Op = {turn, brief}
  Targets <- MCTargets
  Rank <- MCRank
  MaxVersion = 2
  MaxRowid = 8
  MaxFaults = 1
SPECIFICATION Spec
INVARIANTS
  OneClaimAtTheHead
  OneOwner
  PendingExactlyWhileLive
  NeverFailedOnFirstExpiry

  
CHECK_DEADLOCK FALSE
