SPECIFICATION Spec
CONSTANTS
  Owner = owner
  Users = {}
  Child = child
  Nobody = nobody
  Joiners = {}
  MaxCalls = 0
  MaxWakeups = 0
INVARIANTS SpawnerSurvives
