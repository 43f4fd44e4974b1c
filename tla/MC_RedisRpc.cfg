SPECIFICATION FairSpec
CONSTANTS
  pytest = pytest
  cli = cli
  Clients = {pytest, cli}
  PollBudgets = {1}
  MaxCalls <- TwoAndOne
  MaxFaults = 1
INVARIANTS TypeOK AnswersExplained
PROPERTIES ExecutedOnce CleanupForgets CallEnds ImplementsSaiRpc
