\* Two counts by three calls (one of them CountDownAndWait), two waits, one with a
\* deadline, an interrupt and a Reset.  A wait without a deadline may sleep for
\* ever here (see MCQueueInterrupt.cfg), so the process may stop.
SPECIFICATION FairSpec
CONSTANTS
  c1 = c1  c2 = c2  w1 = w1  w2 = w2  s1 = s1  i1 = i1  r1 = r1
  NoThread = NoThread
  Threads <- MCThreads
  Counters <- CountersAndWorker
  Waiters <- TwoWaiters
  TimedWaiters <- OneSleeper
  Interrupters <- OneInterrupter
  Resetters <- OneResetter
  Count = 2
  MaxULong = 3
INVARIANT
  NobodyForgotten
PROPERTIES
  ImplementsLatch
  BoundedCallsReturn
  LoneWaitReturns
CHECK_DEADLOCK FALSE
