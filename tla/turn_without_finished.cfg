SPECIFICATION FairSpec
CONSTANTS
  Agents = {}
  MaxPrompts = 1
  MaxCancels = 1
  MaxResets = 0
  MaxRounds = 2
  ToolRounds <- WriteThenRead
  KeepLast = 1
  AutoKeepLast = 1
  AutoCompact = "off"
  DrainMayExpire = FALSE
PROPERTY ActiveTurnsFinish
