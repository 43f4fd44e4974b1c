SPECIFICATION Spec
CONSTANTS
  Kinds = {"port", "vlan"}
  Keys = {k1}
  MaxOid = 2
  MaxItems = 2
  MaxFaults = 1
  MaxDue = 1
  Modes = {"ssh", "local"}
INVARIANTS TypeOK OwnTyped ReportsTrue
