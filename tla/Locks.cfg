CONSTANTS
  ThreadCount = 4
  TicketCount = 4
SPECIFICATION MCSpec
INVARIANT NoWaiterIsForgotten
PROPERTY EveryLockIsAMutex
PROPERTY ImplementsFifoMutex
PROPERTY SomebodyGetsIn
PROPERTY NobodyStarves
