SPECIFICATION FairSpec
CONSTANTS
  Ends = {client, server}
  Bytes = 3
  Capacity = 2
  Timeout = 2
  MaxCalls = 2
INVARIANTS WholeMessages BudgetKept
PROPERTIES TimedReadReturns WriteReturns
CHECK_DEADLOCK FALSE
