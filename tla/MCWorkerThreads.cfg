\* Two workers that make three calls between them; m2 only joins.
SPECIFICATION FairSpec
CONSTANTS
  m1 = m1  m2 = m2  o1 = o1  o2 = o2  k1 = k1  k2 = k2
  a1 = a1  a2 = a2
  None = None
  Callers <- MCCallers
  Joiners <- M2
  Objects <- MCObjects
  Workers <- MCWorkers
  Handles = {1, 2}
  Ids = {1, 2}
  Addresses <- MCAddresses
  MaxCalls = 3
INVARIANTS
  HandlesOwned
  JoinedMeansEnded
  OneInstance
  OwnValue
PROPERTY CallsReturn
CHECK_DEADLOCK FALSE
