CONSTANTS
  d1 = d1
  d2 = d2
  c1 = c1
  turn = turn
  brief = brief
  rendering = rendering
  assembly = assembly
  summary = summary
  Drainer = {d1, d2}
  Caller = {}
  Op = {turn, brief}
  Targets <- MCTargets
  Rank <- MCRank
  MaxVersion = 1
  MaxRowid = 8
  MaxFaults = 2
SPECIFICATION FairSpec
PROPERTIES
  EveryRequestSettles
CHECK_DEADLOCK FALSE
