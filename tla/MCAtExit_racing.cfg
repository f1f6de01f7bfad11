SPECIFICATION FairSpec
CONSTANTS
  default1 = default1
  default2 = default2
  high = high
  low = low
  Tasks <- MCTasks
  Prio <- MCPrio
  Null = null
  Settings <- MCRacing
INVARIANTS CalledOnceWhoeverPushes
