\* One worker and one interrupt.
SPECIFICATION FairSpec
CONSTANTS
  p1 = p1  p2 = p2  w1 = w1  w2 = w2  x1 = x1
  NoThread = NoThread
  Threads <- OneAndInterrupt
  May <- FetchAndInterrupt
  Interruptible <- SomeInterruptible
  Loopers <- NoOne
  MaxTasks = 0
  capacity_ = 0
PROPERTY InterruptEndsFetch
CHECK_DEADLOCK FALSE
