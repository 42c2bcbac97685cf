CONSTANTS
  a1 = a1
  a2 = a2
  a3 = a3
  Address = {a1, a2, a3}
  ThreadCount = 3
  MaxSamples = 2
  MaxPending = 1
  Setups <- RoundSetups
SPECIFICATION Spec
CHECK_DEADLOCK FALSE
INVARIANT NoFailure
INVARIANT WriteSetsMatch
INVARIANT OldestIsLast
INVARIANT SampleAccounting
INVARIANT MarksAreAnnounced
PROPERTY MergeIsComplete
PROPERTY DistanceFaithful
SYMMETRY BlockSymmetry
