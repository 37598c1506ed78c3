SPECIFICATION FairSpec
CONSTANTS
  Worker = w
  Agents = {a1}
  Kinds <- ToolsOnly
  MaxAsks = 1
  MaxPrompts = 1
  MaxCancels = 0
  MaxResets = 0
PROPERTY DeadlineEndsAgent
CHECK_DEADLOCK FALSE
