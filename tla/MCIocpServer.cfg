\* Two handlers, two clients with three tasks between them, two lives.
SPECIFICATION FairSpec
CONSTANTS
  h1 = h1  h2 = h2  a1 = a1  a2 = a2
  Handlers <- MCHandlers
  Clients <- MCClients
  MaxTasks = 3
  MaxLives = 2
INVARIANTS
  OneExitPerHandler
  JoinDoesNotWait
  QuitRunsAccepted
PROPERTY QuitReturns
CHECK_DEADLOCK FALSE
