SPECIFICATION MCSpec
CONSTANTS
  Threads = {t1, t2, t3}
  MutexThreads = {t1, t2, t3}
INVARIANTS CounterExact TimedTruthful
PROPERTIES ImplementsLock TimedAcquireReturns MutexImplementsLock TimedCallsEnd
