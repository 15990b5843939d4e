\* Three threads that may each be the window's, and two messages.  A crash ends the
\* process, so it may stop.
SPECIFICATION WndFairSpec
CONSTANTS
  t1 = t1  t2 = t2  t3 = t3
  NoThread = NoThread
  Threads <- MCThreads
  MaxTasks = 2
INVARIANTS
  EveryTaskOwned
  InitTellsTheTruth
  UninitIsFinal
PROPERTY SynReturns
CHECK_DEADLOCK FALSE
