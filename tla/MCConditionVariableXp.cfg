\* Four interchangeable threads.
SPECIFICATION ReachSpec
CONSTANTS
  t1 = t1  t2 = t2  t3 = t3  t4 = t4
  NoThread = NoThread
  Threads <- MCThreads
SYMMETRY Symmetry
INVARIANTS
  CountsWaiters
  ReleasesEveryBlockedThread
