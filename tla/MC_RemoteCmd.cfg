SPECIFICATION FairSpec
CONSTANTS
  pytest = pytest
  cli = cli
  Clients = {pytest, cli}
  Commands = {"iface_is_up", "set_up", "start_nn_agent", "stop_nn_agent"}
  Attempts = 1
  MaxCalls <- TwoAndOne
  MaxFaults = 1
INVARIANTS TypeOK Accounted
PROPERTIES LossExplained QueueDrains ImplementsSaiRpc
