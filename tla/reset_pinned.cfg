SPECIFICATION FairSpec
CONSTANTS
  Worker = w
  Agents = {a1}
  Kinds <- ToolsOnly
  MaxAsks = 1
  MaxPrompts = 1
  MaxCancels = 0
  MaxResets = 1
PROPERTY ResetDoesNotPin
CHECK_DEADLOCK FALSE
