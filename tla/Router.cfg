SPECIFICATION RouterSpec
CONSTANTS
  n1 = n1
  n2 = n2
  n3 = n3
  Node = {n1, n2, n3}
  ZeroAddr = ZeroAddr
  numVirtualNodes = 2
  MaxHash = 3
  InitialEntries = 2
  MaxEntries = 8
  c1 = c1
  c2 = c2
  BACKEND_IP = BACKEND_IP
  LB_IP = LB_IP
  Client = {c1, c2}
  ClientPort = {40000, 40001}
  TARGET_PORT = 8080
  MaxConntrack = 2
CHECK_DEADLOCK FALSE
SYMMETRY Interchangeable
INVARIANTS
  RouterTypeOK
  LookupIsSuccessor
  RingMatchesMap
  RemovedGetsNothing
  
  
PROPERTY MovesOnlyWhatItMust
