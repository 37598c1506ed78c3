SPECIFICATION Spec
INVARIANTS
  TypesOK
  
  
  RunsAMatch
  
  
  SelectionReloads
  
  
  
  ArgumentsAreRead
  EditsAreExact
  
  NoChangeForgotten
  AtMostOnce
PROPERTIES
  PickedIsAttached
  ReplacedWhole
  TokensOfTheLogin
  PlanKeepsWorkspace
CHECK_DEADLOCK FALSE
