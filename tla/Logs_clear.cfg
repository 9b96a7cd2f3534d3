CONSTANTS
  Capacity = 2
  Kept = 1
  MaxWrites = 3
  MaxClicks = 3
  MaxCalls = 2
SPECIFICATION Spec
PROPERTY SyncsWhileOpen
CHECK_DEADLOCK FALSE
