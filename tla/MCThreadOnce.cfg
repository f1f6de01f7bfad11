SPECIFICATION FairSpec
CONSTANTS
  Callers = {c1, c2, c3}
INVARIANTS ReturnedMeansBuilt
PROPERTIES EveryCallReturns ImplementsOnce
