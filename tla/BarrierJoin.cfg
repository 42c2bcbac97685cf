CONSTANTS
  ThreadCount = 4
  FounderCount = 2
  max_threads = 3
  MaxGeneration = 2
SPECIFICATION Spec
INVARIANT NoMissedRelease
CHECK_DEADLOCK FALSE
