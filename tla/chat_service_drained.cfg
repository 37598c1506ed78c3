SPECIFICATION Spec
CONSTANTS
  Agents = {}
  MaxPrompts = 2
  MaxCancels = 1
  MaxResets = 1
  MaxRounds = 2
  ToolRounds <- OneOfEach
  KeepLast = 1
  AutoKeepLast = 1
  AutoCompact = "truncate"
  DrainMayExpire = FALSE
INVARIANTS
  PromptsStayInConversation
  
