SPECIFICATION FairSpec
CONSTANTS
  Owner = owner
  Users = {u1}
  Child = child
  Nobody = nobody
  Joiners = {owner, u1}
  MaxCalls = 2
  MaxWakeups = 1
INVARIANTS NoUseAfterFree JoinedMeansOver TimedJoinTruthful
PROPERTIES CallsReturn CancelledExits
CHECK_DEADLOCK FALSE
