CONSTANTS
  a1 = a1
  a2 = a2
  a3 = a3
  Address = {a1, a2, a3}
  ThreadCount = 2
  MaxSamples = 1
  MaxPending = 1
  Setups <- LivenessSetups
SPECIFICATION FairSpec
CHECK_DEADLOCK FALSE
PROPERTY EveryRoundCompletes
PROPERTY MarkedIsFinalized
