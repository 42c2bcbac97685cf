CONSTANTS
  a1 = a1
  a2 = a2
  a3 = a3
  Address = {a1, a2, a3}
  ThreadCount = 2
  MaxSamples = 2
  MaxPending = 1
  Setups <- PruneSetups
SPECIFICATION Spec
CHECK_DEADLOCK FALSE
INVARIANT PrunedIsCold
