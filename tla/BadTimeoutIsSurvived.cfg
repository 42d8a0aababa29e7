SPECIFICATION Spec
CONSTANTS
  s1 = s1
  s2 = s2
  k1 = k1
  NoNode = NoNode
  Stream <- OneStream
  KeyOf <- OneKeyOf
  Key = {k1}
  MaxSent = 2
  MaxEOF = 0
INVARIANT TimeoutIsSurvived
