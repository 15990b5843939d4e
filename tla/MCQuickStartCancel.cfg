\* Four tasks, with every order of the calls between them.  An action that was
\* asked for a fifth one throws.
SPECIFICATION StartFairSpec
CONSTANT MaxStarts = 4
INVARIANTS
  OneTaskAtATime
  BusyWithATask
  CancelReachesTheTask
PROPERTY EveryStartAnswered
