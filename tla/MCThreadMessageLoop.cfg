\* Two clients with two messages between them, and two threads that may stop the
\* loop.  A client that waits for a loop that was stopped stays there.
SPECIFICATION FairSpec
CONSTANTS
  a1 = a1  a2 = a2  s1 = s1  s2 = s2
  Clients <- MCClients
  Stoppers <- MCStoppers
  MaxTasks = 2
INVARIANTS
  EveryTaskOwned
  FrameOutlivesTask
  StopKeepsAccepted
PROPERTIES
  StopEndsLoop
  CallsReturn
CHECK_DEADLOCK FALSE
