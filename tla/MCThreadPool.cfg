\* Two workers, two serial tasks that wait for the same task, which is run outside
\* the pool, and a caller that quits and waits, if it quits at all.
SPECIFICATION FairSpec
CONSTANTS
  w1 = w1  w2 = w2  a1 = a1  q1 = q1
  NoThread = NoThread
  Threads <- MCThreads
  Workers <- W12
  Clients <- A1
  Quitters <- Q1
  Elsewhere <- Outside
  pre_task_ <- BehindTheThird
  MaxTasks = 2
INVARIANTS
  RunsOnce
  AcceptedTasksRun
PROPERTIES
  EveryTaskRuns
  RepeatedQuitEndsPool
CHECK_DEADLOCK FALSE
