SPECIFICATION MCSpec
CONSTANTS
  Input = {"user_prompt", "assistant_text", "tool_result", "turn_end", "rollback"}
  PromptsClose = FALSE
  TargetTokens = 3
  MaxTokens = 3
  MaxEvents = 10
  MaxRollbacks = 1
  MaxMutations = 1
  MaxLapses = 1
  Profile <- TightProfile
  Size <- SmallSizes
  PruneTargets = {0}
  MaxCompacts = 2
INVARIANTS
  ShownOnce
  SummaryIsCurrent
  RolledBackIsUnread
  RollbackHolds
PROPERTY InstallIsFresh
CHECK_DEADLOCK FALSE
