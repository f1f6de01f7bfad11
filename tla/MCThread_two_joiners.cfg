SPECIFICATION FairSpec
CONSTANTS
  Owner = owner
  Users = {u1}
  Child = child
  Nobody = nobody
  Joiners = {owner, u1}
  MaxCalls = 1
  MaxWakeups = 0
PROPERTIES EveryJoinReturns
CHECK_DEADLOCK FALSE
