SPECIFICATION FairSpec
CONSTANTS
  Worker = w
  Agents = {a1}
  Kinds <- ToolsAndQuestions
  MaxAsks = 1
  MaxPrompts = 1
  MaxCancels = 1
  MaxResets = 1
INVARIANTS
  TypeOK
  ApprovalsReachUser
PROPERTIES
  RunsOnlyAllowed
  CancelEndsWait
CHECK_DEADLOCK FALSE
