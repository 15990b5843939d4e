\* Two processes that die and come back.
SPECIFICATION FairSpec
CONSTANTS
  p1 = p1  p2 = p2  n1 = n1  n2 = n2  n3 = n3
  s1 = s1  s2 = s2  s3 = s3  x1 = x1  x2 = x2  x3 = x3
  None = None
  Processes <- MCProcesses
  Names <- MCNames
  AllNames <- MCAllNames
  MutexName <- NameOfMutex
  Sections <- MCSections
  Mutexes <- MCMutexes
INVARIANT SharedAndExclusive
PROPERTY UseReturns
