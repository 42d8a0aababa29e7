SPECIFICATION FairSpec
CONSTANTS
  s1 = s1
  s2 = s2
  k1 = k1
  NoNode = NoNode
  Stream <- TwoStreams
  KeyOf <- SharedKeyOf
  Key = {k1}
  MaxSent = 1
  MaxEOF = 0
INVARIANTS
  NeverMissing
  StreakHasSource
PROPERTIES
  StreakCutOnlyByFailure
  ImplementsTracking
  EveryStreamEnds
