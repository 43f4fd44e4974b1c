CONSTANTS
  MaxIds = 2
  MaxFaults = 1
  MaxReplays = 2
SPECIFICATION Spec
INVARIANTS TypeOK MapSound 
CHECK_DEADLOCK FALSE
