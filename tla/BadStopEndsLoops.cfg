SPECIFICATION FairSpec
CONSTANTS
  t1 = t1
  t2 = t2
  a1 = a1
  z1 = z1
  z2 = z2
  Main = Main
  NoCtx = NoCtx
  Target = {t1}
  StartRequest = {a1}
  StopRequest = {z1}
PROPERTY StopEndsLoops
