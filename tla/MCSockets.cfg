SPECIFICATION Spec
CONSTANTS
  Threads = {t1, t2}
  Clients = {c1}
  NDescs = 3
  Backlog = 1
INVARIANTS OwnersKeepTheirs NothingLeaks ConstructedConnected
PROPERTIES TimedCallReturns
