SPECIFICATION Spec
CONSTANTS MaxMessages = 6
 MaxTurns = 2
 MaxTools = 2
 Keep = 2
INVARIANT SummaryIsSent
CHECK_DEADLOCK FALSE
