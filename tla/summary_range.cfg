SPECIFICATION Spec
CONSTANTS
  Agents = {a1}
  a1 = a1
  MaxPrompts = 2
  MaxCancels = 0
  MaxResets = 0
  MaxRounds = 2
  ToolRounds <- WriteThenRead
  KeepLast = 1
  AutoKeepLast = 1
  AutoCompact = "summarize"
  DrainMayExpire = FALSE
PROPERTY SummaryCoversDropped
