\* Two producers, three tasks for two places, and two workers.
SPECIFICATION FairSpec
CONSTANTS
  p1 = p1  p2 = p2  w1 = w1  w2 = w2  x1 = x1
  NoThread = NoThread
  Threads <- TwoAndTwo
  May <- TwoWorkers
  Interruptible <- NoFunction
  Loopers <- W12
  MaxTasks = 3
  capacity_ = 2
INVARIANTS
  NoTaskStranded
  NoProducerStranded
PROPERTIES
  EveryTaskFetched
  EveryAddReturns
CHECK_DEADLOCK FALSE
