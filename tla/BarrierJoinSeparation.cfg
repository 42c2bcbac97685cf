CONSTANTS
  ThreadCount = 3
  FounderCount = 2
  max_threads = 3
  MaxGeneration = 2
SPECIFICATION Spec
INVARIANT StageSeparation
CHECK_DEADLOCK FALSE
