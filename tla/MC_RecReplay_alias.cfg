CONSTANTS
  MaxIds = 1
  MaxFaults = 0
  MaxReplays = 1
SPECIFICATION Spec
INVARIANTS AliasUsable
CHECK_DEADLOCK FALSE
