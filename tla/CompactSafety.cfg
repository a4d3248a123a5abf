SPECIFICATION CompactSpec
CONSTANTS
  c1 = c1
  c2 = c2
  a1 = a1
  a2 = a2
  Callers = {c1, c2}
  Attempts = {a1, a2}
  NoAttempt = none
  Kinds = {"active_non_tool", "pending_tool"}
  Budget = 2
  MaxTurns = 3
  MaxCalls = 3
  MaxFaults = 1
SYMMETRY Symmetry
CONSTRAINT Bound
ACTION_CONSTRAINTS AgentWaits CalmOverlap
INVARIANTS TerminalIsSettled CompleteIsServed SectionIsExclusive
CHECK_DEADLOCK FALSE
