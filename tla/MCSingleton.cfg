SPECIFICATION FairSpec
CONSTANTS
  first = first
  second = second
  long = long
  short = short
  Threads = {main, worker}
  Main = main
  Singletons <- MCSingletons
  Lifetime <- MCLifetime
  IntMax = 3
  Interlocked = TRUE
  UseGraphs <- MCUseGraphs
  Null = null
INVARIANTS LiveReferences DestroyedWhole 
PROPERTIES ReferencesReturn
