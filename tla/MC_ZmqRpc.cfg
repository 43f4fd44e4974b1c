SPECIFICATION FairSpec
CONSTANTS
  pytest = pytest
  cli = cli
  Clients = {pytest, cli}
  MaxCalls <- TwoAndOne
  MaxFaults = 2
INVARIANTS TypeOK
PROPERTIES CleanupForgets CallEnds ImplementsSaiRpc
