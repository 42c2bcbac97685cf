CONSTANTS
  Thread = {0, 1}
  b1 = b1
  b2 = b2
  b3 = b3
  Block = {b1, b2, b3}
  Limits = {1, 2}
  MaxRefs = 2
  MaxActive = 1
SPECIFICATION Spec
CHECK_DEADLOCK FALSE
VIEW View
SYMMETRY BlockSymmetry
INVARIANT TrackedIsWatched
INVARIANT SamplingHasACause
INVARIANT SamplesAreAccounted
INVARIANT SamplesFormOneList
