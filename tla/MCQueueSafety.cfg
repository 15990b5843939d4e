\* A queue of one place, every kind of call, and an interrupt.
SPECIFICATION Spec
CONSTANTS
  p1 = p1  p2 = p2  w1 = w1  w2 = w2  x1 = x1
  NoThread = NoThread
  Threads <- ThreeThreads
  May <- AllFunctions
  Interruptible <- SomeInterruptible
  Loopers <- NoOne
  MaxTasks = 2
  capacity_ = 1
PROPERTIES
  ImplementsQueue
  ImplementsCvs
CHECK_DEADLOCK FALSE
