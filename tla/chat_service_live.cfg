SPECIFICATION FairSpec
CONSTANTS
  Agents = {a1}
  a1 = a1
  MaxPrompts = 1
  MaxCancels = 0
  MaxResets = 1
  MaxRounds = 2
  ToolRounds <- OneWrite
  KeepLast = 1
  AutoKeepLast = 1
  AutoCompact = "off"
  DrainMayExpire = TRUE
PROPERTIES
  PromptsServed
  
