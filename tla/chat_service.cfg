SPECIFICATION Spec
CONSTANTS
  Agents = {a1}
  a1 = a1
  MaxPrompts = 1
  MaxCancels = 1
  MaxResets = 1
  MaxRounds = 2
  ToolRounds <- WriteThenRead
  KeepLast = 1
  AutoKeepLast = 1
  AutoCompact = "summarize"
  DrainMayExpire = TRUE
INVARIANTS
  TypeOK
  NoSleepOnWork
  RequestsAnswered
PROPERTIES
  SentWithPrompt
  
  
  IsTranscript
