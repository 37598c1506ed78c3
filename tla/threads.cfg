SPECIFICATION ThreadsSpec
CONSTANTS
  Agents = {a1, a2}
  NoAgent = none
  MaxConcurrent = 1
  MaxProgress = 1
INVARIANTS
  TypesOK
  CapacityHolds
  TaskCardsSettle

  
  
  
CHECK_DEADLOCK FALSE
