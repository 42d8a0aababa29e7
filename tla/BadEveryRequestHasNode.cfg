SPECIFICATION Spec
CONSTANTS
  n1 = n1
  n2 = n2
  Node = {n1, n2}
  ZeroAddr = ZeroAddr
  numVirtualNodes = 2
  MaxHash = 3
  InitialEntries = 2
  MaxEntries = 8
INVARIANT EveryRequestHasNode
