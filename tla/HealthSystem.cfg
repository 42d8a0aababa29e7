SPECIFICATION FairSpec
CONSTANTS
  p1 = p1
  p2 = p2
  Proc = {p1, p2}
  ChecksTimeout = 4
  GetConfigTimeout = 2
  MaxOversleep = 0
  MaxDelay = 1
  MaxResolve = 1
INVARIANTS
  PunctualNotDropped
  StreakIsFresh
PROPERTIES
  
  SilentIsForgotten
  
